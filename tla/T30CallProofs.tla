--------------------------- MODULE T30CallProofs ----------------------------
EXTENDS T30EndProofs, SequenceTheorems

(***************************************************************************)
(* The two ends of a T.30 call together: CallInv is an invariant of T30.   *)
(*                                                                         *)
(* Three facts about both ends carry the proof.  An end that has an answer *)
(* ready has heard the last frame of the signal that it waits to end       *)
(* (Turns), so that no frame finds a full buffer.  A receiver that has had *)
(* RCP gets no further frame of the block (BlockSent).  And a sender that  *)
(* trains, continues to correct, or has not begun finds its receiver in a  *)
(* state that fits (Training, Continues, Opening).                         *)
(*                                                                         *)
(* There is a section for each kind of step: a frame that arrives, one     *)
(* that is lost, a signal that starts and ends, and the three timers.      *)
(* TypesKept and WaitsTimed follow from CallInv.                           *)
(*                                                                         *)
(* The second part is about the document.  The book is the file and, with  *)
(* error correction, the page that is being put together.  BookInv says    *)
(* that the book has the document in order, up to where the sender is, or  *)
(* up to the end of what it is sending (Filed): an answer that is lost is  *)
(* asked for again, and the receiver is then ahead.  An MCF that is to be  *)
(* sent vouches for the page or block that was asked about (Vouches), the  *)
(* frames that are gathered are of that block (Gathers), and a file with   *)
(* pages in it is not opened again (Unopened).  NothingIsSkipped,          *)
(* NothingIsLost and FileOnlyGrows follow.                                 *)
(***************************************************************************)

-----------------------------------------------------------------------------
(* Both ends                                                                *)

\* What holds of an end, p, that may be heard by the other, q.
Pair(p, q) == Turns(q, p) /\ BlockSent(q, p) /\ Continues(p, q) /\ Training(p, q) /\ Opening(p, q)

Match(p, q) == p.ecm_allowed = q.ecm_allowed /\ p.tx_file # q.tx_file

\* Both ends of a call.
Call(p, q) == EndInv(p) /\ EndInv(q) /\ Match(p, q) /\ Pair(p, q) /\ Pair(q, p)

\* A frame on the line, and the end that takes it.
LEMMA FrameMeets ==
  ASSUME NEW p, NEW q, Call(p, q), p.tx_hdlc = TRUE, p.buffer # NoFrame, p.on # "off", q.hears = p.tx,
         p.tx = "fast" => q.rx_hdlc = TRUE
  PROVE  Meets(q, p.buffer) /\ Says(p, p.buffer) /\ ~Spent(p)
<1> DEFINE m == p.buffer
<1>1. EndInv(p) /\ EndInv(q) /\ Turns(q, p) /\ BlockSent(q, p) /\ Training(p, q) /\ Opening(p, q) /\ Continues(p, q)
      /\ Match(p, q)
  BY DEF Call, Pair
<1>2. Says(p, m) /\ ~Spent(p)
  <2>1. ~Empty(p)  BY DEF Empty
  <2> QED  BY <1>1, <2>1, FrameSays DEF Spent
<1>3. p.tx \in {"v21", "fast"}  BY <1>1 DEF EndInv, Signals
<1>4. Attends(q)  BY <1>1, <1>2, <1>3 DEF Attends, Turns
<1>5. q.hears = "fast" => InBlock(q) /\ q.ecm_allowed = TRUE
  <2>1. SUFFICES ASSUME q.hears = "fast" PROVE InBlock(q) /\ q.ecm_allowed = TRUE
    OBVIOUS
  <2>2. q.rx_hdlc = TRUE /\ q.rx = "fast"  BY <1>1, <2>1 DEF EndInv, Signals
  <2>3. q.phase = "C_ECM_RX"
    BY <1>1, <2>2 DEF EndInv, Radio, Tuned, Modems, Phases, TxPhases, Listening, Talking
  <2>4. (q.state = "F_DOC" /\ q.ecm = TRUE) \/ q.state = "F_POST_DOC_ECM"
    <3>1. q.ecm \in BOOLEAN  BY <1>1 DEF EndInv, Sides
    <3>2. q.state # "C"  BY <1>1, <1>4, <2>1, Attending DEF Held
    <3> QED  BY <1>4, <2>3, <3>1, <3>2, Attending
  <2>5. q.ecm = TRUE  BY <1>1, <2>4 DEF EndInv, Mode, InF_POST_DOC_ECM
  <2> QED  BY <1>1, <2>4, <2>5 DEF EndInv, Sides, InBlock
<1>6. m.type = "FCD" => q.state = "F_DOC"
  BY <1>1, <1>2, <1>5 DEF BlockSent, Says, InBlock
<1>7. m.type = "DIS" => m.ecm = q.ecm_allowed /\ m.can_send \in BOOLEAN /\ (m.can_send = TRUE => q.state # "F_DOC")
  <2>1. SUFFICES ASSUME m.type = "DIS"
                 PROVE m.ecm = q.ecm_allowed /\ m.can_send \in BOOLEAN /\ (m.can_send = TRUE => q.state # "F_DOC")
    OBVIOUS
  <2>2. p.state = "R" /\ m = DisFrame(p)  BY <1>2, <2>1 DEF Says
  <2>3. m.ecm = p.ecm_allowed /\ m.can_send = p.tx_file  BY <2>2 DEF DisFrame
  <2>4. p.tx_file \in BOOLEAN  BY <1>1 DEF EndInv, Sides
  <2>5. p.tx_file = TRUE => q.state # "F_DOC"  BY <1>1, <2>2 DEF Opening, Over
  <2> QED  BY <1>1, <2>3, <2>4, <2>5 DEF Match
<1>8. m.type = "DCS" => m.ecm = q.ecm_allowed /\ (q.state = "F_DOC" => q.ecm = FALSE)
  <2>1. SUFFICES ASSUME m.type = "DCS" PROVE m.ecm = q.ecm_allowed /\ (q.state = "F_DOC" => q.ecm = FALSE)
    OBVIOUS
  <2>2. p.state = "D" /\ m.ecm = p.ecm_allowed  BY <1>2, <2>1 DEF Says
  <2>3. q.ecm \in BOOLEAN /\ (q.ecm = TRUE => q.ecm_allowed = TRUE)  BY <1>1 DEF EndInv, Sides
  <2>4. q.state = "F_DOC" => p.ecm_allowed # TRUE  BY <1>1, <2>2 DEF Training
  <2> QED  BY <1>1, <2>2, <2>3, <2>4 DEF Match
<1>9. m.type = "PPS" => q.ecm_allowed = TRUE /\ m.post \in {"NULL", "MPS", "EOP"}
  BY <1>1, <1>2 DEF Says, Match
<1>10. m.type = "CTC" => ~InBlock(q)
  BY <1>1, <1>2 DEF Says, Continues, Restarted, Over, InBlock
<1>11. q.state = "C" /\ ~Final(m) => q.timer_is_t4 = TRUE /\ q.retries <= Tries
  <2>1. q.state = "C" => q.hears = "v21"  BY <1>4, Attending DEF Held
  <2>2. p.state # "T"  BY <1>2 DEF Says
  <2> QED  BY <1>1, <1>2, <2>1, <2>2 DEF Turns
<1> HIDE DEF m
<1>12. m.type \in FrameTypes /\ (m.type \in {"FCD", "RCP"} <=> q.hears = "fast")  BY <1>2 DEF Says
<1>13. Meets(q, m)
  BY <1>4, <1>5, <1>6, <1>7, <1>8, <1>9, <1>10, <1>11, <1>12 DEF Meets
<1> QED  BY <1>2, <1>13 DEF m

\* A frame is taken.
LEMMA FrameCall ==
  ASSUME NEW p, NEW q, NEW quality, Comes(p.buffer, quality), Call(p, q), p.tx_hdlc = TRUE, p.buffer # NoFrame,
         p.on # "off", q.hears = p.tx, p.tx = "fast" => q.rx_hdlc = TRUE
  PROVE  LET a == SendComplete(Wants(p))
             b == Accept(q, p.buffer, quality)
         IN Call(a, b) /\ a.state # "ANSWERING" /\ b.state # "ANSWERING" /\ a.tx_file = p.tx_file
<1> DEFINE m == p.buffer
           a == SendComplete(Wants(p))
           b == Accept(q, m, quality)
<1>1. EndInv(p) /\ EndInv(q) /\ Match(p, q) /\ Pair(p, q) /\ Pair(q, p)  BY DEF Call
<1>2. Meets(q, m) /\ Says(p, m) /\ ~Spent(p)  BY FrameMeets
<1>3. Sent(p, a)  BY <1>1, FrameSent
<1>4. Accepted(q, m, b)  BY <1>2, FrameAccepted
<1>5. m # NoFrame  OBVIOUS
<1> HIDE DEF a, b, m
<1>6. /\ EndInv(a) /\ SameBook(p, a) /\ Onward(p, a) /\ a.hears = "no" /\ a.buffer.type \notin {"MCF", "CTC"}
      /\ Final(m) => Spent(a)
      /\ a.on # "off" => a.state = p.state /\ a.on = "frames"
      /\ a.state = "F_POST_RCP_PPR" => Ended(a)
      /\ p.state = "IV" => a.state = "IV" /\ (RestSent(p) => RestSent(a) /\ a.buffer.type # "FCD")
  BY <1>3 DEF Sent, Told, m
<1>7. EndInv(b) /\ b.tx_file = q.tx_file /\ b.ecm_allowed = q.ecm_allowed /\ b.hears \in {"no", q.hears}
  BY <1>4 DEF Accepted, Settles
<1>8. Match(a, b)  BY <1>1, <1>6, <1>7 DEF Match, SameBook
<1>9. Restarted(p) => Restarted(a)  BY <1>6 DEF Restarted, Over, Onward, AnswerStates
<1>10. Turns(b, a)  BY <1>4, <1>6 DEF Turns, Accepted
<1>11. Turns(a, b)  BY <1>6 DEF Turns
<1>12. BlockSent(a, b)  BY <1>6 DEF BlockSent
<1>13. BlockSent(b, a)
  <2>1. SUFFICES ASSUME b.state = "F_POST_DOC_ECM", b.hears = "fast", a.on # "off"
                 PROVE  a.state = "IV" /\ a.buffer.type # "FCD" /\ RestSent(a)
    BY DEF BlockSent
  <2>2. m.type = "RCP"  BY <1>4, <2>1 DEF Accepted
  <2>3. p.state = "IV" /\ RestSent(p)  BY <1>2, <2>2 DEF Says
  <2> QED  BY <1>6, <2>3
<1>14. p.state \notin {"ANSWERING", "T", "IV_CTC", "D_TCF", "F_DOC", "B"}  BY <1>2 DEF Says
<1>15. a.state # "IV_CTC"  BY <1>6, <1>14 DEF Onward
<1>16. Continues(a, b)  BY <1>6, <1>15 DEF Continues
<1>17. q.state = "IV_CTC" \/ (q.state = "C" /\ q.buffer.type = "CTC") => Restarted(p)
  <2>1. ~Ended(p)  BY <1>5 DEF Ended, Empty, m
  <2> QED  BY <1>1, <1>14, <2>1 DEF Pair, Continues
<1>18. Continues(b, a)
  <2>1. b.state = "C" /\ b.buffer.type = "CTC" => Restarted(a)  BY <1>4, <1>9, <1>17 DEF Accepted
  <2>2. CASE b.state = "IV_CTC" /\ q.state = "IV_CTC"  BY <1>9, <1>17, <2>2 DEF Continues
  <2>3. CASE b.state = "IV_CTC" /\ q.state # "IV_CTC"
    <3>1. m.type = "PPR" /\ NoTimer(b)  BY <1>4, <2>3 DEF Accepted
    <3>2. p.state = "F_POST_RCP_PPR"  BY <1>2, <3>1 DEF Says
    <3>3. a.state \in {"F_POST_RCP_PPR", "F_DOC", "B"}  BY <1>6, <3>2 DEF Onward, AnswerStates
    <3> QED  BY <1>6, <2>3, <3>1, <3>3 DEF Continues, Restarted, Over
  <2> QED  BY <2>1, <2>2, <2>3 DEF Continues
<1>19. Training(a, b)
  <2>1. a.state \in {"D", "D_TCF"} => p.state = "D"  BY <1>6, <1>14 DEF Onward
  <2>2. a.ecm_allowed = p.ecm_allowed  BY <1>6 DEF SameBook
  <2>3. a.ecm_allowed = TRUE /\ a.state \in {"D", "D_TCF"} => b.state \notin Taking
    BY <1>1, <1>4, <2>1, <2>2 DEF Pair, Training, Accepted, Taking
  <2>4. b.hears = "fast" => b.state # "F_TCF"  BY <1>4 DEF Accepted, InBlock
  <2> QED  BY <2>3, <2>4 DEF Training, Taking
<1>20. Training(b, a)
  <2>1. b.state # "D_TCF"  BY <1>4 DEF Accepted
  <2>2. b.ecm_allowed = TRUE /\ b.state = "D" => a.state \notin Taking
    <3>1. SUFFICES ASSUME b.ecm_allowed = TRUE, b.state = "D" PROVE a.state \notin Taking
      OBVIOUS
    <3>2. p.ecm_allowed = TRUE /\ q.ecm_allowed = TRUE  BY <1>1, <1>7, <3>1 DEF Match
    <3>3. p.state \notin AnswerStates
      BY <1>1, <3>2 DEF EndInv, Mode, InIII, Sides, ReceiveStates, AnswerStates
    <3>4. CASE q.state = "D"
      <4>1. p.state \notin Taking  BY <1>1, <3>2, <3>4 DEF Pair, Training, Taking
      <4> QED  BY <1>6, <3>3, <4>1 DEF Onward, Taking, AnswerStates
    <3>5. CASE m.type \in {"DIS", "FTT", "RTP", "RTN"}
      <4>1. p.state \in {"R", "F_FTT", "III_Q_RTP", "III_Q_RTN"}  BY <1>2, <3>5 DEF Says
      <4> QED  BY <1>6, <3>3, <4>1 DEF Onward, Taking, AnswerStates
    <3> QED  BY <1>4, <3>1, <3>4, <3>5 DEF Accepted
  <2> QED  BY <1>6, <2>1, <2>2 DEF Training, Taking
<1>21. Opening(a, b)
  <2>1. SUFFICES ASSUME a.tx_file = TRUE, a.state \in {"ANSWERING", "T", "R"}
                 PROVE  b.state \in {"ANSWERING", "T", "R"} \cup Over
    BY DEF Opening
  <2>2. p.state = "R" /\ p.tx_file = TRUE  BY <1>6, <1>14, <2>1 DEF Onward, SameBook
  <2>3. q.state \in {"ANSWERING", "T", "R"} \cup Over  BY <1>1, <2>2 DEF Pair, Opening
  <2>4. q.state # "ANSWERING"  BY <1>2, Attending DEF Meets
  <2>5. q.tx_file # TRUE  BY <1>1, <2>2 DEF Match
  <2>6. m.type # "DCS"  BY <1>2, <2>2 DEF Says
  <2> QED  BY <1>4, <2>3, <2>4, <2>5, <2>6 DEF Accepted
<1>22. Opening(b, a)
  <2>1. SUFFICES ASSUME b.tx_file = TRUE, b.state \in {"ANSWERING", "T", "R"}
                 PROVE  a.state \in {"ANSWERING", "T", "R"} \cup Over
    BY DEF Opening
  <2>2. q.state \in {"T", "R"} /\ q.tx_file = TRUE  BY <1>4, <1>7, <2>1 DEF Accepted
  <2>3. p.state \in {"ANSWERING", "T", "R"} \cup Over  BY <1>1, <2>2 DEF Pair, Opening
  <2> QED  BY <1>6, <2>3 DEF Onward, Over, AnswerStates
<1>23. a.state # "ANSWERING" /\ b.state # "ANSWERING"
  BY <1>4, <1>6, <1>14 DEF Accepted, Onward
<1>24. a.tx_file = p.tx_file  BY <1>6 DEF SameBook
<1>25. Call(a, b)
  BY <1>6, <1>7, <1>8, <1>10, <1>11, <1>12, <1>13, <1>16, <1>18, <1>19, <1>20, <1>21, <1>22 DEF Call, Pair
<1> QED  BY <1>23, <1>24, <1>25 DEF a, b, m

\* An end that stays as it is but for the signal that it sends.
SameButOn(s, t) ==
  /\ SameModems(s, t) /\ SameTalk(s, t) /\ SameCall(s, t) /\ SameDoc(s, t)
  /\ t.buffer = s.buffer /\ t.tx_end = s.tx_end

\* The signal alone changes.
LEMMA OnChanged ==
  ASSUME NEW s, NEW on, Fields \subseteq DOMAIN s
  PROVE  LET t == [s EXCEPT !.on = on] IN Fields \subseteq DOMAIN t /\ SameButOn(s, t) /\ t.on = on
BY DEF Fields, SameButOn, SameModems, SameTalk, SameCall, SameTimers, SameDoc

\* All that the state says something of.
SameMode(s, t) ==
  /\ t.state = s.state /\ t.step = s.step /\ t.next_phase = s.next_phase /\ t.phase = s.phase
  /\ t.hears = s.hears /\ t.rx_signal_present = s.rx_signal_present /\ t.buffer = s.buffer
      /\ t.tx_end = s.tx_end /\ t.timer_t2_t4 = s.timer_t2_t4 /\ t.timer_is_t4 = s.timer_is_t4
      /\ t.timer_t0_t1 = s.timer_t0_t1 /\ t.far_end_detected = s.far_end_detected
      /\ t.ecm = s.ecm /\ t.ecm_allowed = s.ecm_allowed /\ t.tx_file = s.tx_file /\ t.rx_file = s.rx_file
      /\ t.page = s.page /\ t.next_tx_step = s.next_tx_step
      /\ t.ecm_at_page_end = s.ecm_at_page_end /\ t.ecm_len = s.ecm_len /\ t.ecm_current_frame = s.ecm_current_frame

\* The mode of an end depends on the signal only through its frames.
LEMMA ModeKept ==
  ASSUME NEW s, NEW t, Mode(s), SameMode(s, t), s.on = "frames" <=> t.on = "frames"
  PROVE  Mode(t)
<1>1. SameMode(s, t)  OBVIOUS
<1>2. Ended(t) <=> Ended(s)  BY <1>1 DEF Ended, Empty, SameMode
<1>3. /\ Free(t) <=> Free(s)
      /\ Empty(t) <=> Empty(s)
      /\ NoTimer(t) <=> NoTimer(s)
      /\ RestSent(t) <=> RestSent(s)
      /\ \A next : Held(t, next) <=> Held(s, next)
      /\ \A phase : Asked(t, phase) <=> Asked(s, phase)
      /\ CheckNextTxStep(t) = CheckNextTxStep(s) /\ DisFrame(t) = DisFrame(s)
  BY <1>1 DEF Free, Empty, NoTimer, RestSent, Held, Asked, CheckNextTxStep, DisFrame, SameMode
<1>4. \A phase, types : Command(s, phase, types) => Command(t, phase, types)
  BY <1>1, <1>2, <1>3 DEF Command, SameMode
<1>5. \A types : Answer(s, types) => Answer(t, types)
  BY <1>1, <1>3, <1>4 DEF Answer, SameMode
<1>6. DcsFrame(t) = DcsFrame(s)  BY <1>1 DEF DcsFrame, SameMode
<1>7. /\ s.state = "ANSWERING" => InAnswering(t)
      /\ s.state = "T" => InT(t)
      /\ s.state = "R" => InR(t)
  BY <1>1, <1>2, <1>3 DEF Mode, InAnswering, InT, InR, SameMode
<1>8. s.state = "D" => InD(t)
  BY <1>1, <1>2, <1>3, <1>6 DEF Mode, InD, SameMode
<1>9. /\ s.state = "D_TCF" => InD_TCF(t)
      /\ s.state = "D_POST_TCF" => InD_POST_TCF(t)
      /\ s.state = "I" => InI(t)
      /\ s.state = "F_TCF" => InF_TCF(t)
      /\ s.state = "F_DOC" => InF_DOC(t)
      /\ s.state = "F_POST_DOC_NON_ECM" => InF_POST_DOC_NON_ECM(t)
      /\ s.state = "F_POST_DOC_ECM" => InF_POST_DOC_ECM(t)
      /\ s.state = "B" => InB(t)
      /\ s.state = "CALL_FINISHED" => InFinished(t)
      /\ s.state = "IV_CTC" => InIV_CTC(t)
  BY <1>1, <1>3 DEF Mode, InD_TCF, InD_POST_TCF, InI, InF_TCF, InF_DOC, InF_POST_DOC_NON_ECM,
     InF_POST_DOC_ECM, InB, InFinished, InIV_CTC, SameMode
<1>10. /\ s.state = "II_Q" => InII_Q(t)
       /\ s.state \in {"IV_PPS_NULL", "IV_PPS_Q"} => InIV_PPS(t)
       /\ s.state = "F_CFR" => InF_CFR(t)
       /\ s.state = "F_FTT" => InF_FTT(t)
       /\ s.state = "C" => InC(t)
  BY <1>1, <1>3, <1>4, <1>5 DEF Mode, InII_Q, InIV_PPS, InF_CFR, InF_FTT, InC, SameMode
<1>11. s.state = "IV" => InIV(t)
  BY <1>1, <1>2, <1>3, <1>4 DEF Mode, InIV, SameMode
<1>12. /\ s.state = "F_POST_RCP_MCF" => InIII(t, "MCF", TRUE)
       /\ s.state = "F_POST_RCP_PPR" => InIII(t, "PPR", TRUE)
       /\ s.state = "III_Q_MCF" => InIII(t, "MCF", FALSE)
       /\ s.state = "III_Q_RTP" => InIII(t, "RTP", FALSE)
       /\ s.state = "III_Q_RTN" => InIII(t, "RTN", FALSE)
  BY <1>1, <1>3, <1>5 DEF Mode, InIII, SameMode
<1>13. t.state \in States /\ t.state = s.state  BY <1>1 DEF Mode, SameMode
<1>14. CASE t.state \in {"ANSWERING", "T", "R", "D"}  BY <1>7, <1>8, <1>13, <1>14 DEF Mode
<1>15. CASE t.state \in {"D_TCF", "D_POST_TCF", "I", "F_TCF", "F_DOC", "F_POST_DOC_NON_ECM", "F_POST_DOC_ECM", "B",
                         "CALL_FINISHED", "IV_CTC"}
  BY <1>9, <1>13, <1>15, ZenonT(60) DEF Mode
<1>16. CASE t.state \in {"II_Q", "IV_PPS_NULL", "IV_PPS_Q", "F_CFR", "F_FTT", "C", "IV"}
  BY <1>10, <1>11, <1>13, <1>16 DEF Mode
<1>17. CASE t.state \in {"F_POST_RCP_MCF", "F_POST_RCP_PPR"} \cup AnswerStates
  BY <1>12, <1>13, <1>17 DEF Mode, AnswerStates
<1> QED  BY <1>13, <1>14, <1>15, <1>16, <1>17 DEF States, AnswerStates

\* The frames of a signal have not begun.
LEMMA ModeBefore ==
  ASSUME NEW s, NEW t, Mode(s), SameButOn(s, t), s.on # "frames", t.on # "frames"
  PROVE  Mode(t)
<1>1. SameMode(s, t)
  BY DEF SameMode, SameButOn, SameModems, SameTalk, SameCall, SameTimers, SameDoc
<1> QED  BY <1>1, ModeKept

\* A signal begins, or is missed.
LEMMA SignalBegins ==
  ASSUME NEW s, NEW on \in {"preamble", "missed"}, EndInv(s), s.on # "frames", s.tx \in {"v21", "fast"}
  PROVE  EndInv([s EXCEPT !.on = on])
<1> DEFINE t == [s EXCEPT !.on = on]
<1>1. Fields \subseteq DOMAIN t /\ SameButOn(s, t) /\ t.on = on  BY OnChanged DEF EndInv
<1> HIDE DEF t
<1>2. Mode(t)  BY <1>1, ModeBefore DEF EndInv
<1>3. Radio(t)  BY <1>1 DEF EndInv, SameButOn, SameModems, Radio, Tuned, Modems
<1>4. Signals(t)  BY <1>1 DEF EndInv, SameButOn, SameModems, Signals
<1>5. Sides(t)  BY <1>1, SidesKept DEF EndInv, SameButOn, SameCall, SameTalk
<1>6. Counts(t)
  <2>1. t.step \in 0 .. 4 /\ t.tx_end \in BOOLEAN  BY <1>1 DEF EndInv, Counts, SameButOn, SameTalk
  <2> QED  BY <1>1, <2>1, CountsKept DEF EndInv, SameButOn, SameTalk
<1>7. Carries(t)
  <2>1. Carries(s)  BY DEF EndInv
  <2> QED  BY <1>1, <2>1 DEF Carries, FcdFrame, PpsFrame, SameButOn, SameDoc, SameTalk
<1>8. EndInv(t)  BY <1>1, <1>2, <1>3, <1>4, <1>5, <1>6, <1>7 DEF EndInv
<1> QED  BY <1>8 DEF t

\* The far end does not hear it begin.
LEMMA BeginsCall ==
  ASSUME NEW p, NEW q, NEW on \in {"preamble", "missed"}, Call(p, q), p.on # "frames", p.tx \in {"v21", "fast"},
         q.hears = "no"
  PROVE  LET t == [p EXCEPT !.on = on] IN
         Call(t, q) /\ t.state = p.state /\ t.phase = p.phase /\ t.tx_file = p.tx_file
<1> DEFINE t == [p EXCEPT !.on = on]
<1>1. EndInv(t) /\ SameButOn(p, t) /\ t.on = on
  BY SignalBegins, OnChanged DEF Call, EndInv
<1> HIDE DEF t
<1>2. /\ t.state = p.state /\ t.phase = p.phase /\ t.tx_file = p.tx_file /\ t.ecm_allowed = p.ecm_allowed
      /\ t.hears = p.hears /\ t.next_phase = p.next_phase /\ t.timer_is_t4 = p.timer_is_t4 /\ t.retries = p.retries
      /\ t.buffer = p.buffer /\ t.timer_t2_t4 = p.timer_t2_t4
  BY <1>1 DEF SameButOn, SameModems, SameTalk, SameCall, SameTimers, SameDoc
<1>3. NoTimer(t) <=> NoTimer(p)  BY <1>2 DEF NoTimer
<1>4. ~Ended(p) /\ ~Ended(t)  BY <1>1 DEF Ended
<1>5. Restarted(t) <=> Restarted(p)  BY <1>2 DEF Restarted
<1>6. Pair(t, q)
  <2>1. Pair(p, q) /\ Pair(q, p)  BY DEF Call
  <2>2. Turns(q, t) /\ BlockSent(q, t)  BY DEF Turns, BlockSent
  <2>3. Continues(t, q)  BY <1>2, <1>3, <2>1 DEF Pair, Continues
  <2>4. Training(t, q)  BY <1>2, <2>1 DEF Pair, Training
  <2>5. Opening(t, q)  BY <1>2, <2>1 DEF Pair, Opening
  <2> QED  BY <2>2, <2>3, <2>4, <2>5 DEF Pair
<1>7. Pair(q, t)
  <2>1. Pair(q, p)  BY DEF Call
  <2>2. Turns(t, q)  BY <1>2, <1>3, <2>1 DEF Pair, Turns
  <2>3. BlockSent(t, q)  BY <1>2, <2>1 DEF Pair, BlockSent
  <2>4. Continues(q, t)  BY <1>2, <1>4, <1>5, <2>1 DEF Pair, Continues
  <2>5. Training(q, t)  BY <1>2, <2>1 DEF Pair, Training
  <2>6. Opening(q, t)  BY <1>2, <2>1 DEF Pair, Opening
  <2> QED  BY <2>2, <2>3, <2>4, <2>5, <2>6 DEF Pair
<1>8. Match(t, q)  BY <1>2 DEF Call, Match
<1> QED  BY <1>1, <1>2, <1>6, <1>7, <1>8 DEF Call, t

\* An end whose signal has ended, or whose frame has been lost, beside the other, which stays as it is.
LEMMA TalkerCall ==
  ASSUME NEW p, NEW q, NEW a, Call(p, q), Told(p, a), Turns(q, a), BlockSent(q, a),
         p.state \notin {"IV_CTC", "F_DOC", "ANSWERING"},
         p.state = "F_POST_RCP_PPR" => ~Ended(p) \/ a.state # "F_POST_RCP_PPR",
         a.state = "F_POST_RCP_PPR" => Ended(a),
         p.state = "D_TCF" => a.state # "D_TCF"
  PROVE  Call(a, q) /\ a.state # "ANSWERING" /\ a.tx_file = p.tx_file
<1>1. EndInv(p) /\ EndInv(q) /\ Match(p, q) /\ Pair(p, q) /\ Pair(q, p)  BY DEF Call
<1>2. EndInv(a) /\ SameBook(p, a) /\ Onward(p, a) /\ a.hears = "no" /\ a.buffer.type \notin {"MCF", "CTC"}
  BY DEF Told
<1>3. Match(a, q) /\ a.tx_file = p.tx_file /\ a.ecm_allowed = p.ecm_allowed  BY <1>1, <1>2 DEF Match, SameBook
<1>4. Restarted(p) => Restarted(a)  BY <1>2 DEF Restarted, Over, Onward, AnswerStates
<1>5. a.state \notin {"IV_CTC", "ANSWERING"}  BY <1>2 DEF Onward
<1>6. Turns(a, q) /\ BlockSent(a, q)  BY <1>2 DEF Turns, BlockSent
<1>7. Continues(a, q)  BY <1>2, <1>5 DEF Continues
<1>8. Continues(q, a)
  <2>1. q.state = "C" /\ q.buffer.type = "CTC" => Restarted(a)  BY <1>1, <1>4 DEF Pair, Continues
  <2>2. CASE q.state = "IV_CTC" /\ Restarted(p)  BY <1>4, <2>1, <2>2 DEF Continues
  <2>3. CASE q.state = "IV_CTC" /\ ~Restarted(p)
    <3>1. NoTimer(q) /\ p.state = "F_POST_RCP_PPR"  BY <1>1, <2>3 DEF Pair, Continues
    <3>2. a.state \in {"F_POST_RCP_PPR", "F_DOC", "B"}  BY <1>2, <3>1 DEF Onward, AnswerStates
    <3> QED  BY <2>3, <3>1, <3>2 DEF Continues, Restarted, Over
  <2> QED  BY <2>1, <2>2, <2>3 DEF Continues
<1>9. Training(a, q)
  <2>1. a.state \in {"D", "D_TCF"} => p.state = "D"  BY <1>2 DEF Onward
  <2> QED  BY <1>1, <1>3, <2>1 DEF Pair, Training
<1>10. Training(q, a)
  <2>1. q.ecm_allowed = TRUE /\ q.state \in {"D", "D_TCF"} => a.state \notin Taking
    <3>1. SUFFICES ASSUME q.ecm_allowed = TRUE, q.state \in {"D", "D_TCF"} PROVE a.state \notin Taking
      OBVIOUS
    <3>2. p.ecm_allowed = TRUE  BY <1>1, <3>1 DEF Match
    <3>3. p.state \notin AnswerStates
      BY <1>1, <3>2 DEF EndInv, Mode, InIII, Sides, ReceiveStates, AnswerStates
    <3>4. p.state \notin Taking  BY <1>1, <3>1 DEF Pair, Training, Taking
    <3> QED  BY <1>2, <3>3, <3>4 DEF Onward, Taking, AnswerStates
  <2> QED  BY <1>2, <2>1 DEF Training, Taking
<1>11. Opening(a, q)
  <2>1. a.state \in {"ANSWERING", "T", "R"} => p.state \in {"ANSWERING", "T", "R"}  BY <1>2 DEF Onward
  <2> QED  BY <1>1, <1>3, <2>1 DEF Pair, Opening
<1>12. Opening(q, a)
  <2>1. p.state \in {"ANSWERING", "T", "R"} \cup Over => a.state \in {"ANSWERING", "T", "R"} \cup Over
    BY <1>2 DEF Onward, Over, AnswerStates
  <2> QED  BY <1>1, <2>1 DEF Pair, Opening
<1> QED  BY <1>1, <1>2, <1>3, <1>5, <1>6, <1>7, <1>8, <1>9, <1>10, <1>11, <1>12 DEF Call, Pair

\* A signal has ended.
LEMMA SignalCall ==
  ASSUME NEW p, NEW q, Call(p, q),
         \/ p.tx = "fast" /\ ~p.tx_hdlc
         \/ p.tx_hdlc /\ p.on = "frames" /\ p.buffer = NoFrame /\ p.tx_end
  PROVE  LET a == SendComplete(Stops(p)) IN
         Call(a, q) /\ a.state # "ANSWERING" /\ a.tx_file = p.tx_file
<1> DEFINE a == SendComplete(Stops(p))
<1>1. Falls(p, a)  BY SignalEnded DEF Call
<1> HIDE DEF a
<1>2. Told(p, a) /\ a.on = "off" /\ a.state # "F_POST_RCP_PPR" /\ (p.state = "D_TCF" => a.state # "D_TCF")
      /\ p.state \notin {"IV_CTC", "F_DOC", "ANSWERING"}
  BY <1>1 DEF Falls, CommandStates, AnswerStates
<1>3. Turns(q, a) /\ BlockSent(q, a)  BY <1>2 DEF Turns, BlockSent, Spent
<1>4. Call(a, q) /\ a.state # "ANSWERING" /\ a.tx_file = p.tx_file  BY <1>2, <1>3, TalkerCall
<1> QED  BY <1>4 DEF a

\* A frame is lost.
LEMMA LostCall ==
  ASSUME NEW p, NEW q, Call(p, q), p.tx_hdlc = TRUE, p.buffer # NoFrame, p.on # "off"
  PROVE  LET a == SendComplete(Wants(p)) IN
         Call(a, q) /\ a.state # "ANSWERING" /\ a.tx_file = p.tx_file
<1> DEFINE a == SendComplete(Wants(p))
<1>1. Sent(p, a) /\ Says(p, p.buffer)  BY FrameSent, FrameSays DEF Call
<1> HIDE DEF a
<1>2. Told(p, a) /\ (a.state = "F_POST_RCP_PPR" => Ended(a))
      /\ p.state \notin {"IV_CTC", "F_DOC", "ANSWERING", "D_TCF", "T"}
  BY <1>1 DEF Sent, Says
<1>3. ~Spent(p) /\ ~Ended(p)  BY DEF Spent, Ended, Empty
<1>4. Turns(q, p) /\ BlockSent(q, p)  BY DEF Call, Pair
<1>5. Turns(q, a)  BY <1>2, <1>3, <1>4 DEF Turns
<1>6. BlockSent(q, a)  BY <1>1, <1>4 DEF BlockSent, Sent
<1>7. Call(a, q) /\ a.state # "ANSWERING" /\ a.tx_file = p.tx_file  BY <1>2, <1>3, <1>5, <1>6, TalkerCall
<1> QED  BY <1>7 DEF a

\* A tone has ended.
LEMMA ToneCall ==
  ASSUME NEW p, NEW q, Call(p, q), Tone(p)
  PROVE  LET a == SendComplete([p EXCEPT !.transmit = FALSE]) IN
         Call(a, q) /\ a.state # "ANSWERING" /\ a.tx_file = p.tx_file
         /\ (p.state = "ANSWERING" \/ a.phase = "CALL_FINISHED")
<1> DEFINE a == SendComplete([p EXCEPT !.transmit = FALSE])
<1>0. EndInv(p) /\ EndInv(q) /\ Match(p, q) /\ Pair(p, q) /\ Pair(q, p)  BY DEF Call
<1>1. /\ EndInv(a) /\ SameBook(p, a) /\ Onward(p, a) /\ a.hears = "no" /\ a.on = "off"
      /\ \/ p.state = "ANSWERING" /\ a.state = "R" /\ a.buffer = Simple("CSI")
         \/ p.state = "B" /\ a.state = "CALL_FINISHED"
  BY <1>0, ToneEnded
<1> HIDE DEF a
<1>2. Match(a, q) /\ a.tx_file = p.tx_file /\ a.ecm_allowed = p.ecm_allowed  BY <1>0, <1>1 DEF Match, SameBook
<1>3. Turns(q, a) /\ BlockSent(q, a) /\ Turns(a, q) /\ BlockSent(a, q)
  BY <1>1 DEF Turns, BlockSent, Spent
<1>4. Restarted(a)  BY <1>1 DEF Restarted, Over
<1>5. Continues(q, a) /\ Continues(a, q)  BY <1>1, <1>4 DEF Continues
<1>6. Training(q, a) /\ Training(a, q)  BY <1>1 DEF Training
<1>7. Opening(q, a) /\ Opening(a, q)  BY <1>0, <1>1, <1>2 DEF Pair, Opening, Over
<1>8. p.state = "ANSWERING" \/ a.phase = "CALL_FINISHED"  BY <1>1 DEF EndInv, Mode, InFinished
<1>9. Call(a, q)  BY <1>0, <1>1, <1>2, <1>3, <1>5, <1>6, <1>7 DEF Call, Pair
<1> QED  BY <1>1, <1>2, <1>8, <1>9 DEF a

\* A caller with nothing to say sends flags.
LEMMA UnderflowCall ==
  ASSUME NEW p, NEW q, Call(p, q), p.on \in {"preamble", "missed"}, p.tx_hdlc, p.buffer = NoFrame
  PROVE  LET a == SendComplete([p EXCEPT !.on = "frames"]) IN
         Call(a, q) /\ a.state # "ANSWERING" /\ p.phase = a.phase /\ a.tx_file = p.tx_file
<1> DEFINE a == SendComplete([p EXCEPT !.on = "frames"])
<1>0. EndInv(p) /\ EndInv(q) /\ Match(p, q) /\ Pair(p, q) /\ Pair(q, p)  BY DEF Call
<1>1. /\ EndInv(a) /\ p.state = "T" /\ a.state = "T" /\ a.on = "frames" /\ a.hears = p.hears /\ a.buffer = p.buffer
      /\ a.phase = p.phase /\ a.tx_end = p.tx_end /\ SameDoc(p, a) /\ SameCall(p, a) /\ a.next_phase = p.next_phase
  BY <1>0, Underflows
<1> HIDE DEF a
<1>2. a.tx_file = p.tx_file /\ a.ecm_allowed = p.ecm_allowed  BY <1>1 DEF SameDoc
<1>3. Spent(p) => Spent(a)  BY <1>1 DEF Spent, Empty
<1>4. Pair(a, q)
  <2>1. Turns(q, a)  BY <1>0, <1>1, <1>3 DEF Pair, Turns
  <2>2. BlockSent(q, a)  BY <1>0, <1>1 DEF Pair, BlockSent
  <2>3. Continues(a, q) /\ Training(a, q)  BY <1>1 DEF Continues, Training
  <2>4. Opening(a, q)  BY <1>0, <1>1, <1>2 DEF Pair, Opening
  <2> QED  BY <2>1, <2>2, <2>3, <2>4 DEF Pair
<1>5. Pair(q, a)
  <2>1. p.phase = "B_TX"
    <3>1. p.phase \in Talking \cup {"C_ECM_TX"}  BY <1>0, NotTalking DEF EndInv, Radio
    <3> QED  BY <1>0, <1>1, <3>1 DEF EndInv, Mode, InT, Talking
  <2>2. p.hears = "no"  BY <1>0, <2>1, TalkersHearNothing DEF EndInv, Radio, SendingFast, Talking
  <2>3. Turns(a, q) /\ BlockSent(a, q)  BY <1>1, <2>2 DEF Turns, BlockSent
  <2>4. Continues(q, a)  BY <1>0, <1>1 DEF Pair, Continues, Restarted, Over
  <2>5. Training(q, a)  BY <1>1 DEF Training
  <2>6. Opening(q, a)  BY <1>0, <1>1 DEF Pair, Opening
  <2> QED  BY <2>3, <2>4, <2>5, <2>6 DEF Pair
<1>6. Match(a, q)  BY <1>0, <1>2 DEF Match
<1> QED  BY <1>0, <1>1, <1>2, <1>4, <1>5, <1>6 DEF Call, a

-----------------------------------------------------------------------------
(* An end hears a signal begin                                              *)

\* The ends that can.
Hears(s) == EndInv(s) /\ s.hears = "no" /\ s.rx \in {"v21", "fast"} /\ s.state # "ANSWERING"

\* Which phases, and with which framing, an end hears each signal in.
LEMMA HearsPhase ==
  ASSUME NEW s, Tuned(s), Signals(s), s.rx \in {"v21", "fast"}
  PROVE  /\ s.on = "off" /\ s.phase \in Calling \cup Hearing
         /\ s.rx = "v21" => s.phase \in Calling \cup Listening /\ s.rx_hdlc = TRUE
         /\ s.rx = "fast" => s.phase \in Receiving
         /\ s.rx = "fast" /\ s.phase = "C_NON_ECM_RX" => s.rx_hdlc = FALSE
         /\ s.rx = "fast" /\ s.phase = "C_ECM_RX" => s.rx_hdlc = TRUE
<1>1. s.phase \in Phases  BY DEF Tuned
<1>2. /\ s.phase \in Calling \cup Hearing
      /\ s.rx = "v21" => s.phase \in Calling \cup Listening /\ s.rx_hdlc = TRUE
      /\ s.rx = "fast" => s.phase \in Receiving
      /\ s.rx = "fast" /\ s.phase = "C_NON_ECM_RX" => s.rx_hdlc = FALSE
      /\ s.rx = "fast" /\ s.phase = "C_ECM_RX" => s.rx_hdlc = TRUE
  BY <1>1 DEF Tuned, Modems, Phases, TxPhases, Listening, Talking, Hearing, Receiving, Calling
<1>3. s.tx \notin {"v21", "fast"}
  BY <1>2 DEF Tuned, Modems, Listening, Hearing, Receiving, Calling
<1>4. s.on = "off"  BY <1>3 DEF Signals
<1> QED  BY <1>2, <1>4

\* The states in which an end may begin to hear something.
LEMMA HearsState ==
  ASSUME NEW s, Hears(s)
  PROVE  /\ Free(s) /\ s.on = "off"
         /\ \/ s.state = "T" /\ s.phase \in {"A_CNG", "B_RX"}
            \/ s.state = "R" /\ s.phase = "B_RX" /\ Empty(s) /\ s.step = 3 /\ s.timer_t2_t4 = TRUE /\ s.timer_is_t4 = TRUE
            \/ s.state = "D" /\ s.phase = "B_RX" /\ s.step = 2 /\ s.buffer = Simple("TSI") /\ s.timer_is_t4 = TRUE
            \/ s.state = "D_POST_TCF" /\ s.phase = "B_RX"
            \/ s.state = "F_FTT" /\ Asked(s, "B_RX")
            \/ s.state \in {"II_Q", "IV_PPS_NULL", "IV_PPS_Q"} /\ Asked(s, "D_RX")
            \/ s.state = "IV_CTC" /\ s.phase = "D_RX"
            \/ s.state = "F_TCF" /\ s.phase = "C_NON_ECM_RX"
            \/ s.state = "F_DOC" /\ s.phase = (IF s.ecm THEN "C_ECM_RX" ELSE "C_NON_ECM_RX")
            \/ s.state \in {"F_POST_DOC_NON_ECM", "F_POST_DOC_ECM"} /\ s.phase = "D_RX"
<1>1. Mode(s) /\ Radio(s) /\ Signals(s) /\ s.hears = "no" /\ s.rx \in {"v21", "fast"} /\ s.state # "ANSWERING"
  BY DEF Hears, EndInv
<1>2. s.on = "off" /\ s.phase \in Calling \cup Hearing  BY <1>1, HearsPhase DEF Radio
<1>3. s.phase \notin Talking \cup {"C_NON_ECM_TX", "C_ECM_TX", "E", "CALL_FINISHED"}
  BY <1>2 DEF Calling, Hearing, Listening, Receiving, Talking
<1>4. \A next : ~Held(s, next)  BY <1>1 DEF Held
<1>5. \A phase, types : phase \in Talking \cup {"C_ECM_TX"} => ~Command(s, phase, types)
  BY <1>3 DEF Command, Talking
<1>6. \A types : ~Answer(s, types)  BY <1>4, <1>5 DEF Answer, Talking
<1>7. s.state \notin {"D_TCF", "I", "IV", "F_CFR", "C", "B", "CALL_FINISHED"} \cup AnswerStates
                     \cup {"F_POST_RCP_MCF", "F_POST_RCP_PPR"}
  BY <1>1, <1>3, <1>4, <1>5, <1>6
     DEF Mode, InD_TCF, InI, InIV, InF_CFR, InC, InB, InFinished, InIII, AnswerStates, Talking
<1>8. s.state = "T" => Free(s) /\ s.phase \in {"A_CNG", "B_RX"}
  BY <1>1, <1>3 DEF Mode, InT, Talking
<1>9. s.state = "R" => Free(s) /\ s.phase = "B_RX" /\ Empty(s) /\ s.step = 3 /\ s.timer_t2_t4 = TRUE /\ s.timer_is_t4 = TRUE
  BY <1>1, <1>3, <1>4 DEF Mode, InR, Talking
<1>10. s.state = "D" => Free(s) /\ s.phase = "B_RX" /\ s.step = 2 /\ s.buffer = Simple("TSI") /\ s.timer_is_t4 = TRUE
  BY <1>1, <1>3, <1>4 DEF Mode, InD, Talking
<1>11. s.state = "D_POST_TCF" => Free(s) /\ s.phase = "B_RX"
  BY <1>1 DEF Mode, InD_POST_TCF
<1>12. s.state = "F_FTT" => Free(s) /\ Asked(s, "B_RX")
  BY <1>1, <1>5 DEF Mode, InF_FTT, Asked, Talking
<1>13. s.state \in {"II_Q", "IV_PPS_NULL", "IV_PPS_Q"} => Free(s) /\ Asked(s, "D_RX")
  BY <1>1, <1>5 DEF Mode, InII_Q, InIV_PPS, Asked, Talking
<1>14. /\ s.state = "IV_CTC" => Free(s) /\ s.phase = "D_RX"
       /\ s.state = "F_TCF" => Free(s) /\ s.phase = "C_NON_ECM_RX"
       /\ s.state = "F_DOC" => Free(s) /\ s.phase = (IF s.ecm THEN "C_ECM_RX" ELSE "C_NON_ECM_RX")
       /\ s.state = "F_POST_DOC_NON_ECM" => Free(s) /\ s.phase = "D_RX"
       /\ s.state = "F_POST_DOC_ECM" => Free(s) /\ s.phase = "D_RX"
  BY <1>1 DEF Mode, InIV_CTC, InF_TCF, InF_DOC, InF_POST_DOC_NON_ECM, InF_POST_DOC_ECM
<1>15. s.state \in States  BY <1>1 DEF Mode
<1>16. \/ s.state = "T" \/ s.state = "R" \/ s.state = "D" \/ s.state = "D_POST_TCF" \/ s.state = "F_FTT"
       \/ s.state \in {"II_Q", "IV_PPS_NULL", "IV_PPS_Q"} \/ s.state = "IV_CTC" \/ s.state = "F_TCF"
       \/ s.state = "F_DOC" \/ s.state = "F_POST_DOC_NON_ECM" \/ s.state = "F_POST_DOC_ECM"
  BY <1>1, <1>7, <1>15 DEF States, AnswerStates
<1> QED  BY <1>2, <1>8, <1>9, <1>10, <1>11, <1>12, <1>13, <1>14, <1>16

\* What stays of an end that hears a signal.
Listens(s, t) ==
  /\ SameTalk(s, t) /\ t.buffer = s.buffer /\ t.on = s.on /\ t.tx_end = s.tx_end
  /\ t.retries = s.retries /\ t.current_status = s.current_status /\ t.timer_t0_t1 = s.timer_t0_t1
  /\ t.timer_is_t4 = s.timer_is_t4 /\ t.waited = s.waited
  /\ t.far_end_detected \in BOOLEAN /\ t.timer_t2_t4 \in BOOLEAN
  /\ s.timer_is_t4 = TRUE /\ s.phase \in Calling \cup Listening => t.timer_t2_t4 = s.timer_t2_t4
  /\ NoTimer(s) => NoTimer(t)
  /\ s.state = "F_TCF" /\ t.hears = "fast" => NoTimer(t)
  /\ t.page = s.page /\ t.ecm_block = s.ecm_block /\ t.ecm_len = s.ecm_len
  /\ t.ecm_current_frame = s.ecm_current_frame /\ t.ecm_at_page_end = s.ecm_at_page_end
  /\ t.in_message = s.in_message /\ t.got = s.got /\ t.ecm = s.ecm
  /\ t.ppr_count = s.ppr_count /\ t.next_tx_step = s.next_tx_step /\ t.next_rx_step = s.next_rx_step
  /\ t.tx_file = s.tx_file /\ t.rx_file = s.rx_file /\ t.compatible = s.compatible
  /\ t.ecm_allowed = s.ecm_allowed
  /\ t.image = s.image \/ s.state = "F_DOC"
  /\ t.phase = (IF s.phase = "A_CNG" THEN "B_RX" ELSE s.phase)

\* Hearing a signal keeps what the state says of the end ...
LEMMA ListensMode ==
  ASSUME NEW s, NEW t, Hears(s), Listens(s, t)
  PROVE  Mode(t)
<1>1. Mode(s)  BY DEF Hears, EndInv
<1>2. Free(s) /\ Free(t)  BY HearsState DEF Listens, Free, SameTalk
<1>3. t.state = s.state /\ t.step = s.step /\ t.buffer = s.buffer /\ t.timer_is_t4 = s.timer_is_t4 /\ t.tx_end = s.tx_end
      /\ t.ecm = s.ecm /\ t.phase = (IF s.phase = "A_CNG" THEN "B_RX" ELSE s.phase)
  BY DEF Listens, SameTalk
<1>4. s.timer_is_t4 = TRUE /\ s.phase \in Listening => t.timer_t2_t4 = s.timer_t2_t4
  BY DEF Listens
<1>5. CASE s.state = "T"
  <2>1. s.phase \in {"A_CNG", "B_RX"} /\ InT(s)  BY <1>1, <1>5, HearsState DEF Mode
  <2>2. t.phase = "B_RX" /\ t.timer_t0_t1 = s.timer_t0_t1  BY <1>3, <2>1 DEF Listens
  <2>3. InT(t)  BY <1>2, <1>3, <2>1, <2>2 DEF InT, Empty
  <2> QED  BY <1>3, <1>5, <2>3 DEF Mode, States
<1>6. CASE s.state \in {"R", "D", "D_POST_TCF"}
  <2>1. s.phase = "B_RX" /\ t.phase = "B_RX"  BY <1>3, <1>6, HearsState
  <2>2. s.state = "R" => InR(t)
    <3>1. s.state = "R" => Empty(s) /\ s.step = 3 /\ s.timer_t2_t4 = TRUE /\ s.timer_is_t4 = TRUE  BY HearsState
    <3> QED  BY <1>2, <1>3, <1>4, <2>1, <3>1 DEF InR, Empty, Listening
  <2>3. s.state = "D" => InD(t)
    <3>1. s.state = "D" => s.step = 2 /\ s.buffer = Simple("TSI") /\ s.timer_is_t4 = TRUE  BY HearsState
    <3> QED  BY <1>2, <1>3, <2>1, <3>1 DEF InD
  <2>4. s.state = "D_POST_TCF" => InD_POST_TCF(t)
    BY <1>1, <1>2, <1>3, <2>1 DEF Mode, InD_POST_TCF, Empty
  <2> QED  BY <1>3, <1>6, <2>2, <2>3, <2>4 DEF Mode, States
<1>7. CASE s.state \in {"II_Q", "IV_PPS_NULL", "IV_PPS_Q", "F_FTT"}
  <2>1. \A phase \in Listening : Asked(s, phase) => Asked(t, phase)
    BY <1>2, <1>3, <1>4 DEF Asked, Empty, Listening
  <2>2. /\ s.state = "F_FTT" => Asked(t, "B_RX")
        /\ s.state # "F_FTT" => Asked(t, "D_RX")
    <3>1. /\ s.state = "F_FTT" => Asked(s, "B_RX")
          /\ s.state # "F_FTT" => Asked(s, "D_RX")
      BY <1>7, HearsState
    <3> QED  BY <2>1, <3>1 DEF Listening
  <2>3. t.next_tx_step = s.next_tx_step /\ t.ecm_at_page_end = s.ecm_at_page_end
        /\ CheckNextTxStep(t) = CheckNextTxStep(s)
    BY DEF Listens, CheckNextTxStep
  <2>4. s.state = "F_FTT" => InF_FTT(t)  BY <2>2 DEF InF_FTT
  <2>5. s.state = "II_Q" => InII_Q(t)  BY <1>1, <1>3, <2>2, <2>3 DEF Mode, InII_Q
  <2>6. s.state \in {"IV_PPS_NULL", "IV_PPS_Q"} => InIV_PPS(t)  BY <1>1, <1>3, <2>2, <2>3 DEF Mode, InIV_PPS
  <2> QED  BY <1>3, <1>7, <2>4, <2>5, <2>6 DEF Mode, States
<1>8. CASE s.state \in {"IV_CTC", "F_TCF", "F_DOC", "F_POST_DOC_NON_ECM", "F_POST_DOC_ECM"}
  <2>1. t.phase = s.phase  BY <1>3, <1>8, HearsState
  <2>2. s.state = "IV_CTC" => InIV_CTC(t)  BY <1>1, <1>2, <1>3, <2>1 DEF Mode, InIV_CTC
  <2>3. s.state = "F_TCF" => InF_TCF(t)  BY <1>1, <1>2, <1>3, <2>1 DEF Mode, InF_TCF, Empty, Listens
  <2>4. s.state = "F_DOC" => InF_DOC(t)  BY <1>1, <1>2, <1>3, <2>1 DEF Mode, InF_DOC, Empty
  <2>5. s.state = "F_POST_DOC_NON_ECM" => InF_POST_DOC_NON_ECM(t)
    BY <1>1, <1>2, <1>3, <2>1 DEF Mode, InF_POST_DOC_NON_ECM, Empty
  <2>6. s.state = "F_POST_DOC_ECM" => InF_POST_DOC_ECM(t)
    <3>1. s.state = "F_POST_DOC_ECM" => s.phase = "D_RX" BY HearsState
    <3> QED  BY <1>1, <1>2, <1>3, <2>1, <3>1 DEF Mode, InF_POST_DOC_ECM, Empty
  <2> QED  BY <1>3, <1>8, <2>2, <2>3, <2>4, <2>5, <2>6 DEF Mode, States
<1> QED  BY <1>5, <1>6, <1>7, <1>8, HearsState

\* ... and so the whole of its invariant.
LEMMA ListensEnd ==
  ASSUME NEW s, NEW t, Hears(s), Listens(s, t), Fields \subseteq DOMAIN t, Radio(t), Signals(t)
  PROVE  EndInv(t)
<1>1. Sides(s) /\ Counts(s) /\ Carries(s)  BY DEF Hears, EndInv
<1>2. Mode(t)  BY ListensMode
<1>3. Sides(t)
  <2>1. s.state = "F_DOC" => s.ecm = s.ecm_allowed  BY <1>1 DEF Sides, ReceiveStates
  <2> QED  BY <1>1, <2>1 DEF Sides, Listens, SameTalk
<1>4. Counts(t)  BY <1>1 DEF Counts, Listens, SameTalk
<1>5. Carries(t)  BY <1>1 DEF Carries, Listens, SameTalk, FcdFrame, PpsFrame
<1> QED  BY <1>2, <1>3, <1>4, <1>5 DEF EndInv

\* What FramingOk leaves alone.
Framed(u, t) ==
  /\ Fields \subseteq DOMAIN t /\ SameModems(u, t) /\ SameTalk(u, t) /\ SameDoc(u, t)
  /\ t.buffer = u.buffer /\ t.on = u.on /\ t.tx_end = u.tx_end
  /\ t.retries = u.retries /\ t.current_status = u.current_status /\ t.timer_t0_t1 = u.timer_t0_t1
  /\ t.timer_is_t4 = u.timer_is_t4 /\ t.waited = u.waited /\ t.far_end_detected \in BOOLEAN
  /\ t.timer_t2_t4 = (u.timer_t2_t4 /\ u.timer_is_t4)

\* What hdlc_framing_ok does outside of the calling tones.
LEMMA FramingFacts ==
  ASSUME NEW u, Fields \subseteq DOMAIN u, u.phase \notin Calling, u.far_end_detected \in BOOLEAN,
         u.timer_t0_t1 \in BOOLEAN
  PROVE  Framed(u, FramingOk(u))
<1> DEFINE new == ~u.far_end_detected /\ u.timer_t0_t1
           r == [u EXCEPT !.far_end_detected = @ \/ new]
           t == FramingOk(u)
<1>1. t = [r EXCEPT !.timer_t2_t4 = @ /\ u.timer_is_t4]  BY DEF FramingOk, Calling
<1>2. r.far_end_detected \in BOOLEAN  BY DEF Fields
<1>3. /\ Fields \subseteq DOMAIN r /\ SameButOn([u EXCEPT !.far_end_detected = r.far_end_detected], r)
      /\ r.on = u.on
  BY DEF Fields, SameButOn, SameModems, SameTalk, SameCall, SameTimers, SameDoc
<1>4. /\ Fields \subseteq DOMAIN r /\ SameModems(u, r) /\ SameTalk(u, r) /\ SameDoc(u, r)
      /\ r.buffer = u.buffer /\ r.on = u.on /\ r.tx_end = u.tx_end
      /\ r.retries = u.retries /\ r.current_status = u.current_status /\ r.timer_t0_t1 = u.timer_t0_t1
      /\ SameTimers(u, r)
  BY DEF Fields, SameModems, SameTalk, SameTimers, SameDoc
<1> HIDE DEF r
<1>5. /\ Fields \subseteq DOMAIN t /\ SameModems(r, t) /\ SameTalk(r, t) /\ SameDoc(r, t)
      /\ t.buffer = r.buffer /\ t.on = r.on /\ t.tx_end = r.tx_end
      /\ t.retries = r.retries /\ t.current_status = r.current_status /\ t.timer_t0_t1 = r.timer_t0_t1
      /\ t.timer_is_t4 = r.timer_is_t4 /\ t.waited = r.waited /\ t.far_end_detected = r.far_end_detected
  BY <1>1, <1>4 DEF Fields, SameModems, SameTalk, SameDoc
<1>6. t.timer_t2_t4 = (r.timer_t2_t4 /\ u.timer_is_t4)  BY <1>1, <1>4 DEF Fields
<1> HIDE DEF t
<1>7. t.timer_t2_t4 = (u.timer_t2_t4 /\ u.timer_is_t4)  BY <1>4, <1>6 DEF SameTimers
<1>8. SameModems(u, t) /\ SameTalk(u, t) /\ SameDoc(u, t)
  BY <1>4, <1>5 DEF SameModems, SameTalk, SameDoc
<1>9. Framed(u, t)  BY <1>2, <1>4, <1>5, <1>7, <1>8 DEF Framed, SameTimers
<1> QED  BY <1>9 DEF t

\* V.21.
LEMMA CarrierFacts ==
  ASSUME NEW s, Fields \subseteq DOMAIN s
  PROVE  LET u == CarrierUp(s) IN
         /\ Fields \subseteq DOMAIN u /\ u.hears = "v21" /\ u.rx_signal_present = TRUE
         /\ u.phase = s.phase /\ u.tx = s.tx /\ u.tx_hdlc = s.tx_hdlc /\ u.transmit = s.transmit
         /\ u.rx = s.rx /\ u.rx_hdlc = s.rx_hdlc /\ u.early = s.early /\ u.rx_trained = s.rx_trained
         /\ SameTalk(s, u) /\ SameDoc(s, u) /\ SameCall(s, u)
         /\ u.buffer = s.buffer /\ u.on = s.on /\ u.tx_end = s.tx_end
BY DEF CarrierUp, Fields, SameTalk, SameDoc, SameCall, SameTimers

\* The flags of a V.21 signal are heard by every end that listens for them.
LEMMA CarrierHeard ==
  ASSUME NEW s, Hears(s), s.rx = "v21" \/ (s.rx = "fast" /\ s.early = TRUE)
  PROVE  LET t == FramingOk(CarrierUp(s)) IN
         /\ EndInv(t) /\ Listens(s, t) /\ t.hears = "v21" /\ t.image = s.image
<1> DEFINE u == CarrierUp(s)
           t == FramingOk(u)
<1>1. Mode(s) /\ Radio(s) /\ Signals(s) /\ Sides(s) /\ Counts(s) /\ Fields \subseteq DOMAIN s /\ s.hears = "no"
  BY DEF Hears, EndInv
<1>2. /\ Fields \subseteq DOMAIN u /\ u.hears = "v21" /\ u.rx_signal_present = TRUE
      /\ u.phase = s.phase /\ u.tx = s.tx /\ u.tx_hdlc = s.tx_hdlc /\ u.transmit = s.transmit
      /\ u.rx = s.rx /\ u.rx_hdlc = s.rx_hdlc /\ u.early = s.early /\ u.rx_trained = s.rx_trained
      /\ SameTalk(s, u) /\ SameDoc(s, u) /\ SameCall(s, u)
      /\ u.buffer = s.buffer /\ u.on = s.on /\ u.tx_end = s.tx_end
  BY <1>1, CarrierFacts
<1>3. s.rx_trained = FALSE  BY <1>1 DEF Signals
<1> HIDE DEF u
<1>4. Radio(u) /\ Signals(u)
  <2>1. Radio(u)  BY <1>1, <1>2 DEF Radio, Tuned, Modems
  <2>2. Signals(u)  BY <1>1, <1>2, <1>3 DEF Signals
  <2> QED  BY <2>1, <2>2
<1>5. /\ s.timer_t2_t4 \in BOOLEAN /\ s.timer_is_t4 \in BOOLEAN /\ s.timer_t0_t1 \in BOOLEAN
      /\ s.far_end_detected \in BOOLEAN /\ s.waited \in BOOLEAN
  BY <1>1 DEF Counts
<1>6. CASE s.phase \notin Calling
  <2>1. u.far_end_detected \in BOOLEAN /\ u.timer_t0_t1 \in BOOLEAN /\ u.phase \notin Calling
    BY <1>2, <1>5, <1>6 DEF SameCall
  <2>2. Framed(u, t)  BY <1>2, <2>1, FramingFacts
  <2> HIDE DEF t
  <2>3. Radio(t) /\ Signals(t) /\ Fields \subseteq DOMAIN t  BY <1>4, <2>2, ModemsKept DEF Framed
  <2>4. t.timer_t2_t4 = (s.timer_t2_t4 /\ s.timer_is_t4)  BY <1>2, <2>2 DEF Framed, SameCall, SameTimers
  <2>5. t.timer_t2_t4 \in BOOLEAN  BY <1>5, <2>4
  <2>6. s.timer_is_t4 = TRUE => t.timer_t2_t4 = s.timer_t2_t4  BY <1>5, <2>4
  <2>7. NoTimer(s) => NoTimer(t)  BY <2>4 DEF NoTimer
  <2>8. t.phase = (IF s.phase = "A_CNG" THEN "B_RX" ELSE s.phase)
    BY <1>2, <1>6, <2>2 DEF Framed, SameModems, Calling
  <2>9. t.hears = "v21" /\ SameTalk(s, t) /\ SameDoc(s, t) /\ t.buffer = s.buffer /\ t.on = s.on /\ t.tx_end = s.tx_end
        /\ t.retries = s.retries /\ t.current_status = s.current_status /\ t.timer_t0_t1 = s.timer_t0_t1
        /\ t.timer_is_t4 = s.timer_is_t4 /\ t.waited = s.waited /\ t.far_end_detected \in BOOLEAN
    BY <1>2, <2>2 DEF Framed, SameModems, SameTalk, SameDoc, SameCall, SameTimers
  <2>10. Listens(s, t) /\ t.image = s.image
    BY <2>5, <2>6, <2>7, <2>8, <2>9 DEF Listens, SameDoc
  <2>11. EndInv(t)  BY <2>3, <2>10, ListensEnd
  <2> QED  BY <2>9, <2>10, <2>11 DEF t, u
<1>7. CASE s.phase \in Calling
  <2>1. s.state = "T" /\ s.phase = "A_CNG" /\ Free(s)  BY <1>7, HearsState DEF Calling, Asked
  <2>2. InT(s)  BY <1>1, <2>1 DEF Mode
  <2>3. NoTimer(s) /\ s.far_end_detected = FALSE /\ s.timer_t0_t1 = TRUE  BY <2>1, <2>2 DEF InT
  <2>4. s.tx = "cng" /\ s.rx = "v21" /\ s.rx_hdlc = TRUE /\ s.on = "off"
    BY <1>1, <2>1, HearsState DEF Radio, Tuned, Modems
  <2> DEFINE r == [u EXCEPT !.far_end_detected = TRUE]
             a == SetPhase(r, "B_RX")
             v == [r EXCEPT !.rx_signal_present = TRUE, !.rx_trained = FALSE, !.phase = "B_RX"]
             w == [v EXCEPT !.tx = "none", !.tx_hdlc = FALSE, !.on = "off", !.transmit = FALSE, !.tx_end = v.tx_end]
  <2>5. u.far_end_detected = FALSE /\ u.timer_t0_t1 = TRUE /\ u.timer_t2_t4 = FALSE /\ u.phase = "A_CNG"
    BY <1>2, <2>1, <2>3 DEF SameCall, SameTimers, NoTimer
  <2>6. t = [a EXCEPT !.timer_t2_t4 = @ /\ u.timer_is_t4]
    <3>1. (u.far_end_detected \/ (~u.far_end_detected /\ u.timer_t0_t1)) = TRUE  BY <2>5
    <3>2. [u EXCEPT !.far_end_detected = @ \/ (~u.far_end_detected /\ u.timer_t0_t1)] = r
      BY <1>2, <3>1 DEF Fields
    <3> QED  BY <2>5, <3>2 DEF FramingOk
  <2>7. /\ Fields \subseteq DOMAIN r /\ r.far_end_detected = TRUE /\ SameModems(u, r) /\ SameTalk(u, r)
        /\ SameDoc(u, r) /\ r.buffer = u.buffer /\ r.on = u.on /\ r.tx_end = u.tx_end
        /\ r.retries = u.retries /\ r.current_status = u.current_status /\ r.timer_t0_t1 = u.timer_t0_t1
        /\ SameTimers(u, r)
    BY <1>2 DEF Fields, SameModems, SameTalk, SameDoc, SameTimers
  <2> HIDE DEF r
  <2>8. r.phase = "A_CNG" /\ r.rx_signal_present = TRUE /\ r.rx = "v21" /\ r.tx = "cng"
    BY <1>2, <2>1, <2>4, <2>7 DEF SameModems
  <2>9. Fields \subseteq DOMAIN v /\ v.rx = "v21" /\ v.tx = "cng"
    BY <2>7, <2>8 DEF Fields
  <2>10. a = w
    <3>1. [r EXCEPT !.rx_signal_present = @ /\ r.phase \in {"A_CED", "A_CNG"}, !.rx_trained = FALSE, !.phase = "B_RX"] = v
      BY <2>7, <2>8 DEF Fields
    <3>2. SetPhase(r, "B_RX") = Listen(v)  BY <2>8, <3>1 DEF SetPhase
    <3>3. SetRxType(v, "v21", TRUE) = v  BY <2>9 DEF SetRxType
    <3>4. SetTxType(v, "none", FALSE) = w
      <4>1. (v.tx_end /\ "none" \notin {"v21", "fast"}) = v.tx_end
        <5>1. v.tx_end = s.tx_end  BY <1>2, <2>7 DEF Fields
        <5>2. v.tx_end \in BOOLEAN  BY <1>1, <5>1 DEF Counts
        <5> QED  BY <5>2
      <4>2. ("none" \notin {"none", "done"}) = FALSE  OBVIOUS
      <4> QED  BY <2>9, <4>1, <4>2 DEF SetTxType
    <3> QED  BY <3>2, <3>3, <3>4 DEF Listen
  <2>11. /\ Fields \subseteq DOMAIN w /\ w.rx_signal_present = TRUE /\ w.rx_trained = FALSE /\ w.phase = "B_RX"
         /\ w.tx = "none" /\ w.tx_hdlc = FALSE /\ w.on = "off" /\ w.transmit = FALSE /\ w.tx_end = r.tx_end
         /\ w.rx = r.rx /\ w.rx_hdlc = r.rx_hdlc /\ w.early = r.early /\ w.hears = r.hears
         /\ SameTalk(r, w) /\ SameDoc(r, w) /\ SameCall(r, w) /\ w.buffer = r.buffer
    BY <2>7 DEF Fields, SameTalk, SameDoc, SameCall, SameTimers
  <2> HIDE DEF a, v, w
  <2>12. /\ Fields \subseteq DOMAIN t /\ SameModems(w, t) /\ SameTalk(w, t) /\ SameDoc(w, t)
         /\ t.buffer = w.buffer /\ t.on = w.on /\ t.tx_end = w.tx_end
         /\ t.retries = w.retries /\ t.current_status = w.current_status /\ t.timer_t0_t1 = w.timer_t0_t1
         /\ t.timer_is_t4 = w.timer_is_t4 /\ t.waited = w.waited /\ t.far_end_detected = w.far_end_detected
    BY <2>6, <2>10, <2>11 DEF Fields, SameModems, SameTalk, SameDoc
  <2>13. t.timer_t2_t4 = (w.timer_t2_t4 /\ u.timer_is_t4)
    BY <2>6, <2>10, <2>11 DEF Fields
  <2> HIDE DEF t
  <2>14. t.timer_t2_t4 = FALSE /\ s.timer_t2_t4 = FALSE
    <3>1. w.timer_t2_t4 = FALSE  BY <2>5, <2>7, <2>11 DEF SameCall, SameTimers
    <3> QED  BY <2>3, <2>13, <3>1 DEF NoTimer
  <2>15. /\ t.phase = "B_RX" /\ t.tx = "none" /\ t.tx_hdlc = FALSE /\ t.transmit = FALSE /\ t.rx = "v21" /\ t.rx_hdlc = TRUE
         /\ t.hears = "v21" /\ t.rx_signal_present = TRUE /\ t.rx_trained = FALSE /\ t.on = "off" /\ t.early = s.early
    BY <1>2, <2>4, <2>7, <2>11, <2>12 DEF SameModems
  <2>16. Radio(t)  BY <2>15 DEF Radio, Tuned, Modems, Phases, Listening, Talking
  <2>17. Signals(t)  BY <1>1, <2>15 DEF Signals
  <2>18. /\ SameTalk(s, t) /\ SameDoc(s, t) /\ t.buffer = s.buffer /\ t.on = s.on /\ t.tx_end = s.tx_end
         /\ t.retries = s.retries /\ t.current_status = s.current_status /\ t.timer_t0_t1 = s.timer_t0_t1
         /\ t.timer_is_t4 = s.timer_is_t4 /\ t.waited = s.waited /\ t.far_end_detected = TRUE
    BY <1>2, <2>4, <2>7, <2>11, <2>12 DEF SameTalk, SameDoc, SameCall, SameTimers
  <2>19. Listens(s, t) /\ t.image = s.image
    <3>1. NoTimer(t)  BY <2>14 DEF NoTimer
    <3>2. t.phase = (IF s.phase = "A_CNG" THEN "B_RX" ELSE s.phase)  BY <2>1, <2>15
    <3> QED  BY <2>14, <2>18, <3>1, <3>2 DEF Listens, SameDoc
  <2>20. EndInv(t)  BY <2>12, <2>16, <2>17, <2>19, ListensEnd
  <2> QED  BY <2>15, <2>19, <2>20 DEF t, u
<1> QED  BY <1>6, <1>7

\* A fast signal.
LEMMA TrainedFacts ==
  ASSUME NEW s, NEW carried, Fields \subseteq DOMAIN s
  PROVE  LET u == Trained(s, carried) IN
         /\ Fields \subseteq DOMAIN u /\ u.hears = "fast" /\ u.rx_signal_present = TRUE
         /\ u.rx_trained = TRUE /\ u.early = FALSE
         /\ u.phase = s.phase /\ u.tx = s.tx /\ u.tx_hdlc = s.tx_hdlc /\ u.transmit = s.transmit
         /\ u.rx = s.rx /\ u.rx_hdlc = s.rx_hdlc
         /\ SameTalk(s, u) /\ SameAims(s, u)
         /\ u.page = s.page /\ u.ecm_block = s.ecm_block /\ u.ecm = s.ecm /\ u.got = s.got
         /\ u.in_message = s.in_message /\ u.next_rx_step = s.next_rx_step
         /\ u.image = (IF s.state = "F_DOC" /\ ~s.rx_hdlc THEN <<carried>> ELSE s.image)
         /\ u.retries = s.retries /\ u.current_status = s.current_status /\ u.timer_t0_t1 = s.timer_t0_t1
         /\ u.far_end_detected = s.far_end_detected /\ u.timer_is_t4 = s.timer_is_t4 /\ u.waited = s.waited
         /\ u.timer_t2_t4 = (s.timer_t2_t4 /\ s.rx_hdlc)
         /\ u.buffer = s.buffer /\ u.on = s.on /\ u.tx_end = s.tx_end
<1> DEFINE u == Trained(s, carried)
<1>1. /\ Fields \subseteq DOMAIN u /\ u.hears = "fast" /\ u.rx_signal_present = TRUE
      /\ u.rx_trained = TRUE /\ u.early = FALSE
      /\ u.phase = s.phase /\ u.tx = s.tx /\ u.tx_hdlc = s.tx_hdlc /\ u.transmit = s.transmit
      /\ u.rx = s.rx /\ u.rx_hdlc = s.rx_hdlc /\ u.buffer = s.buffer /\ u.on = s.on /\ u.tx_end = s.tx_end
  BY DEF Trained, Fields
<1>2. /\ SameTalk(s, u) /\ SameAims(s, u)
      /\ u.page = s.page /\ u.ecm_block = s.ecm_block /\ u.ecm = s.ecm /\ u.got = s.got
      /\ u.in_message = s.in_message /\ u.next_rx_step = s.next_rx_step
      /\ u.image = (IF s.state = "F_DOC" /\ ~s.rx_hdlc THEN <<carried>> ELSE s.image)
  BY DEF Trained, Fields, SameTalk, SameAims
<1>3. /\ u.retries = s.retries /\ u.current_status = s.current_status /\ u.timer_t0_t1 = s.timer_t0_t1
      /\ u.far_end_detected = s.far_end_detected /\ u.timer_is_t4 = s.timer_is_t4 /\ u.waited = s.waited
  BY DEF Trained, Fields
<1>4. u.timer_t2_t4 = (s.timer_t2_t4 /\ s.rx_hdlc)
  BY DEF Trained, Fields
<1> QED  BY <1>1, <1>2, <1>3, <1>4

\* The fast modem trains, and the page of a document without error correction is taken down.
LEMMA TrainedHeard ==
  ASSUME NEW s, NEW carried, Hears(s), s.rx = "fast"
  PROVE  LET u == Trained(s, carried) IN
         /\ EndInv(u) /\ Listens(s, u) /\ u.hears = "fast" /\ u.far_end_detected = s.far_end_detected
         /\ u.timer_t0_t1 = s.timer_t0_t1
         /\ u.image = (IF s.state = "F_DOC" /\ ~s.rx_hdlc THEN <<carried>> ELSE s.image)
<1> DEFINE u == Trained(s, carried)
<1>1. Mode(s) /\ Radio(s) /\ Signals(s) /\ Sides(s) /\ Counts(s) /\ Fields \subseteq DOMAIN s /\ s.hears = "no"
  BY DEF Hears, EndInv
<1>2. /\ Fields \subseteq DOMAIN u /\ u.hears = "fast" /\ u.rx_signal_present = TRUE
      /\ u.rx_trained = TRUE /\ u.early = FALSE
      /\ u.phase = s.phase /\ u.tx = s.tx /\ u.tx_hdlc = s.tx_hdlc /\ u.transmit = s.transmit
      /\ u.rx = s.rx /\ u.rx_hdlc = s.rx_hdlc
      /\ SameTalk(s, u) /\ SameAims(s, u)
      /\ u.page = s.page /\ u.ecm_block = s.ecm_block /\ u.ecm = s.ecm /\ u.got = s.got
      /\ u.in_message = s.in_message /\ u.next_rx_step = s.next_rx_step
      /\ u.image = (IF s.state = "F_DOC" /\ ~s.rx_hdlc THEN <<carried>> ELSE s.image)
      /\ u.retries = s.retries /\ u.current_status = s.current_status /\ u.timer_t0_t1 = s.timer_t0_t1
      /\ u.far_end_detected = s.far_end_detected /\ u.timer_is_t4 = s.timer_is_t4 /\ u.waited = s.waited
      /\ u.timer_t2_t4 = (s.timer_t2_t4 /\ s.rx_hdlc)
      /\ u.buffer = s.buffer /\ u.on = s.on /\ u.tx_end = s.tx_end
  BY <1>1, TrainedFacts
<1> HIDE DEF u
<1>3. s.phase \in Receiving /\ s.rx_hdlc \in BOOLEAN
  <2>1. s.phase \in Receiving  BY <1>1, HearsPhase DEF Radio
  <2> QED  BY <1>1, <2>1, HearsPhase DEF Radio, Receiving
<1>4. Radio(u)  BY <1>1, <1>2 DEF Radio, Tuned, Modems
<1>5. Signals(u)  BY <1>1, <1>2 DEF Signals
<1>6. u.timer_t2_t4 \in BOOLEAN /\ (NoTimer(s) => NoTimer(u))  BY <1>1, <1>2, <1>3 DEF NoTimer, Counts
<1>7. s.phase \notin Calling \cup Listening  BY <1>3 DEF Calling, Listening, Receiving
<1>8. u.far_end_detected \in BOOLEAN  BY <1>1, <1>2 DEF Counts
<1>9. u.phase = (IF s.phase = "A_CNG" THEN "B_RX" ELSE s.phase)  BY <1>2, <1>7 DEF Calling
<1>10. u.image = s.image \/ s.state = "F_DOC"  BY <1>2
<1>13. s.state = "F_TCF" => NoTimer(u)
  <2>1. s.state = "F_TCF" => s.phase = "C_NON_ECM_RX"  BY <1>1 DEF Mode, InF_TCF
  <2>2. s.state = "F_TCF" => s.rx_hdlc = FALSE  BY <1>1, <2>1 DEF Radio, Tuned, Modems
  <2> QED  BY <1>2, <2>2 DEF NoTimer
<1>11. Listens(s, u)  BY <1>13, <1>2, <1>6, <1>7, <1>8, <1>9, <1>10 DEF Listens, SameAims
<1>12. EndInv(u)  BY <1>2, <1>4, <1>5, <1>11, ListensEnd
<1> QED  BY <1>2, <1>11, <1>12 DEF u

\* The frames of a fast signal.
LEMMA FramesHeard ==
  ASSUME NEW s, NEW carried, Hears(s), s.rx = "fast", s.rx_hdlc = TRUE
  PROVE  LET t == FramingOk(Trained(s, carried)) IN
         EndInv(t) /\ Listens(s, t) /\ t.hears = "fast" /\ t.image = s.image
<1> DEFINE u == Trained(s, carried)
           t == FramingOk(u)
<1>1. /\ EndInv(u) /\ Listens(s, u) /\ u.hears = "fast" /\ u.far_end_detected = s.far_end_detected
      /\ u.timer_t0_t1 = s.timer_t0_t1
      /\ u.image = (IF s.state = "F_DOC" /\ ~s.rx_hdlc THEN <<carried>> ELSE s.image)
  BY TrainedHeard
<1> HIDE DEF u
<1>2. Tuned(s) /\ Signals(s)  BY DEF Hears, EndInv, Radio
<1>3. s.phase \in Receiving  BY <1>2, HearsPhase
<1>4. u.phase = s.phase /\ u.phase \notin Calling /\ s.phase \notin Calling \cup Listening
  BY <1>1, <1>3 DEF Listens, Receiving, Calling, Listening
<1>5. Radio(u) /\ Signals(u) /\ Counts(u) /\ Fields \subseteq DOMAIN u  BY <1>1 DEF EndInv
<1>6. u.far_end_detected \in BOOLEAN /\ u.timer_t0_t1 \in BOOLEAN /\ u.timer_t2_t4 \in BOOLEAN /\ u.timer_is_t4 \in BOOLEAN
  BY <1>5 DEF Counts
<1>7. Framed(u, t)  BY <1>4, <1>5, <1>6, FramingFacts
<1> HIDE DEF t
<1>8. Radio(t) /\ Signals(t) /\ Fields \subseteq DOMAIN t  BY <1>5, <1>7, ModemsKept DEF Framed
<1>9. t.timer_t2_t4 = (u.timer_t2_t4 /\ u.timer_is_t4)  BY <1>7 DEF Framed
<1>10. t.timer_t2_t4 \in BOOLEAN /\ (NoTimer(s) => NoTimer(t))
  <2>1. NoTimer(s) => NoTimer(u)  BY <1>1 DEF Listens
  <2> QED  BY <1>6, <1>9, <2>1 DEF NoTimer
<1>11. t.phase = (IF s.phase = "A_CNG" THEN "B_RX" ELSE s.phase)
  BY <1>4, <1>7 DEF Framed, SameModems, Calling
<1>12. SameTalk(u, t) /\ SameDoc(u, t) /\ t.buffer = u.buffer /\ t.on = u.on /\ t.tx_end = u.tx_end
       /\ t.retries = u.retries /\ t.current_status = u.current_status /\ t.timer_t0_t1 = u.timer_t0_t1
       /\ t.timer_is_t4 = u.timer_is_t4 /\ t.waited = u.waited /\ t.far_end_detected \in BOOLEAN
       /\ t.hears = u.hears
  BY <1>7 DEF Framed, SameModems
<1>13. t.image = s.image  BY <1>1, <1>12 DEF SameDoc
<1>16. s.state # "F_TCF"
  <2>1. s.state = "F_TCF" => s.phase = "C_NON_ECM_RX"  BY DEF Hears, EndInv, Mode, InF_TCF
  <2> QED  BY <1>2, <2>1 DEF Tuned, Modems
<1>14. Listens(s, t)
  BY <1>16, <1>1, <1>4, <1>10, <1>11, <1>12, <1>13 DEF Listens, SameTalk, SameDoc
<1>15. EndInv(t)  BY <1>8, <1>14, ListensEnd
<1> QED  BY <1>1, <1>12, <1>13, <1>14, <1>15 DEF t, u

\* Training that fails.
LEMMA NoiseHeard ==
  ASSUME NEW s, Hears(s), s.rx = "fast"
  PROVE  LET t == TrainingFailed(s) IN
         EndInv(t) /\ Listens(s, t) /\ t.hears = "noise" /\ t.image = s.image
<1> DEFINE t == TrainingFailed(s)
<1>1. Mode(s) /\ Radio(s) /\ Signals(s) /\ Sides(s) /\ Counts(s) /\ Fields \subseteq DOMAIN s /\ s.hears = "no"
  BY DEF Hears, EndInv
<1>2. /\ Fields \subseteq DOMAIN t /\ t.hears = "noise" /\ t.rx_signal_present = s.rx_signal_present
      /\ t.rx_trained = FALSE /\ t.early = s.early /\ t.timer_t2_t4 = FALSE
      /\ t.phase = s.phase /\ t.tx = s.tx /\ t.tx_hdlc = s.tx_hdlc /\ t.transmit = s.transmit
      /\ t.rx = s.rx /\ t.rx_hdlc = s.rx_hdlc /\ t.buffer = s.buffer /\ t.on = s.on /\ t.tx_end = s.tx_end
      /\ t.retries = s.retries /\ t.current_status = s.current_status /\ t.timer_t0_t1 = s.timer_t0_t1
      /\ t.far_end_detected = s.far_end_detected /\ t.timer_is_t4 = s.timer_is_t4 /\ t.waited = s.waited
      /\ SameTalk(s, t) /\ SameDoc(s, t)
  BY <1>1 DEF TrainingFailed, Fields, SameTalk, SameDoc
<1> HIDE DEF t
<1>3. s.phase \in Receiving  BY <1>1, HearsPhase DEF Radio
<1>4. s.phase \notin Calling \cup Listening /\ t.phase = (IF s.phase = "A_CNG" THEN "B_RX" ELSE s.phase)
  BY <1>2, <1>3 DEF Calling, Listening, Receiving
<1>5. Radio(t)  BY <1>1, <1>2 DEF Radio, Tuned, Modems
<1>6. Signals(t)  BY <1>1, <1>2 DEF Signals
<1>7. NoTimer(t) /\ t.timer_t2_t4 \in BOOLEAN /\ t.far_end_detected \in BOOLEAN  BY <1>1, <1>2 DEF NoTimer, Counts
<1>8. Listens(s, t)  BY <1>2, <1>4, <1>7 DEF Listens, SameDoc
<1>9. EndInv(t)  BY <1>2, <1>5, <1>6, <1>8, ListensEnd
<1> QED  BY <1>2, <1>8, <1>9 DEF t, SameDoc

\* The other end has begun to send.
LEMMA HeardCall ==
  ASSUME NEW p, NEW q, NEW t, Call(p, q), Hears(q), Listens(q, t), EndInv(t),
         p.on = "preamble", t.hears \in {"v21", "fast", "noise"}, t.hears = "fast" => p.tx = "fast"
  PROVE  Call(p, t) /\ t.state # "ANSWERING" /\ t.tx_file = q.tx_file
<1>1. EndInv(p) /\ EndInv(q) /\ Match(p, q) /\ Pair(p, q) /\ Pair(q, p)  BY DEF Call
<1>2. /\ t.state = q.state /\ t.next_phase = q.next_phase /\ t.buffer = q.buffer /\ t.on = q.on /\ t.tx_end = q.tx_end
      /\ t.retries = q.retries /\ t.timer_is_t4 = q.timer_is_t4
      /\ t.tx_file = q.tx_file /\ t.ecm_allowed = q.ecm_allowed
      /\ NoTimer(q) => NoTimer(t)
  BY DEF Listens, SameTalk
<1>3. q.state \notin {"ANSWERING", "C"} /\ Free(q)  BY HearsState DEF Hears
<1>4. Match(p, t)  BY <1>1, <1>2 DEF Match
<1>5. Ended(q) => Ended(t)  BY <1>2 DEF Ended, Empty
<1>6. Spent(q) => Spent(t)  BY <1>2 DEF Spent, Empty
<1>7. Restarted(q) => Restarted(t)  BY <1>2 DEF Restarted
<1>8. Pair(p, t)
  <2>1. Turns(t, p)  BY <1>2, <1>3 DEF Turns, Free
  <2>2. BlockSent(t, p)
    <3>1. q.state = "F_POST_DOC_ECM" => q.phase = "D_RX"  BY HearsState
    <3>2. q.state = "F_POST_DOC_ECM" => t.phase = "D_RX"  BY <3>1 DEF Listens
    <3>3. t.phase = "D_RX" => t.hears # "fast"  BY DEF EndInv, Radio, Tuned, Modems, Signals, Listening
    <3> QED  BY <1>2, <3>2, <3>3 DEF BlockSent
  <2>3. Continues(p, t)  BY <1>1, <1>2, <1>5, <1>7 DEF Pair, Continues
  <2>4. Training(p, t)
    <3>1. p.tx = "fast" => p.state # "D"
      BY <1>1 DEF EndInv, Mode, InD, Radio, Tuned, Modems, Listening, Talking
    <3> QED  BY <1>1, <1>2, <3>1 DEF Pair, Training
  <2>5. Opening(p, t)  BY <1>1, <1>2 DEF Pair, Opening
  <2> QED  BY <2>1, <2>2, <2>3, <2>4, <2>5 DEF Pair
<1>9. Pair(t, p)
  <2>1. Turns(p, t)  BY <1>1, <1>2, <1>6 DEF Pair, Turns
  <2>2. BlockSent(p, t)
    <3>1. RestSent(q) => RestSent(t)  BY DEF RestSent, Listens
    <3> QED  BY <1>1, <1>2, <3>1 DEF Pair, BlockSent
  <2>3. Continues(t, p)  BY <1>1, <1>2 DEF Pair, Continues
  <2>4. Training(t, p)  BY <1>1, <1>2 DEF Pair, Training
  <2>5. Opening(t, p)  BY <1>1, <1>2 DEF Pair, Opening
  <2> QED  BY <2>1, <2>2, <2>3, <2>4, <2>5 DEF Pair
<1> QED  BY <1>1, <1>2, <1>3, <1>4, <1>8, <1>9 DEF Call

-----------------------------------------------------------------------------
(* An end on which a timer runs out, or that no longer hears the other      *)

Unbegun(s) == s.state \in {"ANSWERING", "T", "R"} \cup Over

\* How an end goes on by itself, beside the other.
Alone(p, q, a) ==
  /\ EndInv(a) /\ a.tx_file = p.tx_file /\ a.ecm_allowed = p.ecm_allowed
  /\ q.hears = "no" \/ a.on = "off"
  /\ a.state \in {"F_TCF", "F_POST_DOC_ECM"} => a.hears # "fast"
  /\ a.state \in {"D", "D_TCF"} => a.state = p.state /\ p.on = "off"
  /\ a.state \in Taking => a.state = p.state \/ q.state \notin {"D", "D_TCF"}
  /\ p.state = "F_DOC" /\ p.ecm_allowed = TRUE => a.state = "F_DOC" \/ Restarted(a)
  /\ p.state = "F_POST_RCP_PPR" /\ Ended(p) => Restarted(a)
  /\ Restarted(p) => Restarted(a)
  /\ Unbegun(p) => Unbegun(a)
  /\ a.state \in {"ANSWERING", "T", "R"} /\ a.tx_file = TRUE => a.state = p.state

\* The call goes on.
LEMMA AloneCall ==
  ASSUME NEW p, NEW q, NEW a, Call(p, q), Alone(p, q, a), Turns(a, q), Continues(a, q)
  PROVE  Call(a, q)
<1>1. EndInv(p) /\ EndInv(q) /\ Match(p, q) /\ Pair(p, q) /\ Pair(q, p)  BY DEF Call
<1>2. EndInv(a) /\ a.tx_file = p.tx_file /\ a.ecm_allowed = p.ecm_allowed  BY DEF Alone
<1>3. Match(a, q)  BY <1>1, <1>2 DEF Match
<1>4. Turns(q, a)  BY DEF Alone, Turns, Spent
<1>5. BlockSent(a, q) /\ BlockSent(q, a)  BY DEF Alone, BlockSent
<1>6. Continues(q, a)
  <2>1. q.state = "C" /\ q.buffer.type = "CTC" => Restarted(a)  BY <1>1 DEF Alone, Pair, Continues
  <2>2. CASE q.state = "IV_CTC" /\ Restarted(p)  BY <2>1, <2>2 DEF Alone, Continues
  <2>3. CASE q.state = "IV_CTC" /\ ~Restarted(p)
    <3>1. NoTimer(q) /\ (p.state = "F_DOC" \/ (p.state = "F_POST_RCP_PPR" /\ Ended(p)))
      BY <1>1, <2>3 DEF Pair, Continues
    <3>2. p.ecm_allowed = TRUE
      <4>1. q.ecm = TRUE  BY <1>1, <2>3 DEF EndInv, Mode, InIV_CTC
      <4> QED  BY <1>1, <4>1 DEF EndInv, Sides, Match
    <3>3. a.state = "F_DOC" \/ Restarted(a)  BY <3>1, <3>2 DEF Alone
    <3> QED  BY <2>1, <3>1, <3>3 DEF Continues
  <2> QED  BY <2>1, <2>2, <2>3 DEF Continues
<1>7. Training(a, q)
  <2>1. SUFFICES ASSUME a.state \in {"D", "D_TCF"}
                 PROVE  /\ a.ecm_allowed = TRUE => q.state \notin Taking
                        /\ ~(q.state = "F_TCF" /\ q.hears = "fast")
    BY DEF Training, Taking
  <2>2. p.state = a.state /\ p.on = "off"  BY <2>1 DEF Alone
  <2> QED  BY <1>1, <1>2, <2>1, <2>2 DEF Pair, Training, Taking
<1>8. Training(q, a)
  <2>1. q.ecm_allowed = TRUE /\ q.state \in {"D", "D_TCF"} => a.state \notin Taking
    BY <1>1 DEF Alone, Pair, Training, Taking
  <2> QED  BY <2>1 DEF Alone, Training, Taking
<1>9. Opening(a, q)  BY <1>1, <1>2 DEF Alone, Pair, Opening
<1>10. Opening(q, a)  BY <1>1 DEF Alone, Unbegun, Pair, Opening
<1> QED  BY <1>1, <1>2, <1>3, <1>4, <1>5, <1>6, <1>7, <1>8, <1>9, <1>10 DEF Call, Pair

\* An end for which the call is over.
LEMMA OverCall ==
  ASSUME NEW p, NEW q, NEW a, Call(p, q), EndInv(a), a.tx_file = p.tx_file, a.ecm_allowed = p.ecm_allowed,
         a.state \in {"B", "CALL_FINISHED"}, a.on = "off", a.hears = "no"
  PROVE  Call(a, q)
<1>1. Alone(p, q, a)
  BY DEF Alone, Unbegun, Restarted, Over, Taking
<1>2. Turns(a, q)  BY DEF Turns
<1>3. Continues(a, q)  BY DEF Continues
<1> QED  BY <1>1, <1>2, <1>3, AloneCall

-----------------------------------------------------------------------------
(* An end that no longer hears the other                                    *)

Deaf(s) == [s EXCEPT !.hears = "no", !.rx_signal_present = FALSE, !.rx_trained = FALSE]

\* Where it listens, and what it waits for.
LEMMA HearerWaits ==
  ASSUME NEW s, EndInv(s), s.hears # "no"
  PROVE  /\ s.on = "off" /\ s.phase \in Hearing /\ s.tx \notin {"v21", "fast"} /\ s.state # "ANSWERING"
         /\ s.rx_hdlc = FALSE => s.phase = "C_NON_ECM_RX"
         /\ s.rx_hdlc \in BOOLEAN
<1>1. Mode(s) /\ Tuned(s) /\ Signals(s)  BY DEF EndInv, Radio
<1>2. s.phase \in Calling \cup Hearing
  BY <1>1 DEF Tuned, Modems, Signals, Phases, TxPhases, Calling, Hearing, Listening, Receiving, Talking
<1>3. s.on = "off" /\ s.tx \notin {"v21", "fast"}
  BY <1>1, <1>2 DEF Tuned, Modems, Signals, Calling, Hearing, Listening, Receiving
<1>5. s.state # "ANSWERING"  BY <1>1 DEF Mode, InAnswering
<1>6. s.phase \notin Calling
  <2>1. s.phase # "A_CED" /\ s.phase # "A_CNG"
    BY <1>1, <1>5 DEF Mode, States, InT, InR, InD, InD_TCF, InD_POST_TCF, InI, InII_Q, InIV, InIV_PPS, InIV_CTC,
       InF_TCF, InF_CFR, InF_FTT, InF_DOC, InF_POST_DOC_NON_ECM, InF_POST_DOC_ECM, InIII, InB, InC, InFinished,
       Asked, Command, Answer, Held, Hearing, Listening, Receiving
  <2> QED  BY <2>1 DEF Calling
<1>7. s.rx_hdlc = FALSE => s.phase = "C_NON_ECM_RX"
  BY <1>1, <1>2, <1>6 DEF Tuned, Modems, Calling, Hearing, Listening, Receiving
<1>8. s.rx_hdlc \in BOOLEAN
  BY <1>1, <1>2, <1>6 DEF Tuned, Modems, Calling, Hearing, Listening, Receiving
<1> QED  BY <1>2, <1>3, <1>5, <1>6, <1>7, <1>8

\* An end whose signal is over hears nothing, and is the same otherwise.
LEMMA DeafFacts ==
  ASSUME NEW s, EndInv(s), s.hears # "no"
  PROVE  LET r == Deaf(s) IN
         /\ Fields \subseteq DOMAIN r /\ Radio(r) /\ Signals(r) /\ r.hears = "no" /\ r.rx_signal_present = FALSE
         /\ r.phase = s.phase /\ SameTalk(s, r) /\ SameDoc(s, r) /\ SameCall(s, r)
         /\ r.buffer = s.buffer /\ r.on = "off" /\ r.tx_end = s.tx_end /\ Ready(r) /\ Sides(r) /\ Counts(r)
<1> DEFINE r == Deaf(s)
<1>1. Fields \subseteq DOMAIN s /\ Radio(s) /\ Signals(s) /\ Sides(s) /\ Counts(s)  BY DEF EndInv
<1>2. s.on = "off"  BY HearerWaits
<1>3. /\ Fields \subseteq DOMAIN r /\ r.hears = "no" /\ r.rx_signal_present = FALSE /\ r.rx_trained = FALSE
      /\ r.phase = s.phase /\ r.tx = s.tx /\ r.tx_hdlc = s.tx_hdlc /\ r.transmit = s.transmit
      /\ r.rx = s.rx /\ r.rx_hdlc = s.rx_hdlc /\ r.early = s.early
      /\ r.buffer = s.buffer /\ r.on = s.on /\ r.tx_end = s.tx_end
  BY <1>1 DEF Deaf, Fields
<1>4. SameTalk(s, r) /\ SameDoc(s, r) /\ SameCall(s, r)
  BY <1>1 DEF Deaf, Fields, SameTalk, SameDoc, SameCall, SameTimers
<1> HIDE DEF r
<1>5. Radio(r)  BY <1>1, <1>3 DEF Radio, Tuned, Modems
<1>6. Signals(r)  BY <1>1, <1>3 DEF Signals
<1>7. Ready(r)  BY <1>1, <1>2, <1>3, <1>4, <1>5, <1>6 DEF Ready, Counts, SameCall
<1>8. Sides(r)  BY <1>1, <1>4, SidesKept DEF SameTalk, SameCall
<1>9. Counts(r)
  <2>1. r.step \in 0 .. 4 /\ r.tx_end \in BOOLEAN  BY <1>1, <1>3, <1>4 DEF SameTalk, Counts
  <2> QED  BY <1>1, <1>4, <2>1, CountsKept DEF SameTalk
<1> QED  BY <1>2, <1>3, <1>4, <1>5, <1>6, <1>7, <1>8, <1>9 DEF r

\* An end that has nothing to say waits on.
LEMMA DeafEnd ==
  ASSUME NEW s, EndInv(s), s.hears # "no", Free(s)
  PROVE  EndInv(Deaf(s))
<1> DEFINE r == Deaf(s)
<1>1. Mode(s) /\ Carries(s)  BY DEF EndInv
<1>2. s.phase \in Hearing  BY HearerWaits
<1>3. /\ Fields \subseteq DOMAIN r /\ Radio(r) /\ Signals(r) /\ r.hears = "no" /\ r.rx_signal_present = FALSE
      /\ r.phase = s.phase /\ SameTalk(s, r) /\ SameDoc(s, r) /\ SameCall(s, r)
      /\ r.buffer = s.buffer /\ r.on = "off" /\ r.tx_end = s.tx_end /\ Sides(r) /\ Counts(r)
  BY DeafFacts
<1> HIDE DEF r
<1>4. /\ r.state = s.state /\ r.step = s.step /\ r.next_phase = s.next_phase
      /\ r.timer_t2_t4 = s.timer_t2_t4 /\ r.timer_is_t4 = s.timer_is_t4 /\ r.timer_t0_t1 = s.timer_t0_t1
      /\ r.far_end_detected = s.far_end_detected /\ r.ecm = s.ecm /\ r.tx_file = s.tx_file
      /\ r.next_tx_step = s.next_tx_step /\ r.ecm_at_page_end = s.ecm_at_page_end
      /\ CheckNextTxStep(r) = CheckNextTxStep(s)
  BY <1>3 DEF SameTalk, SameDoc, SameCall, SameTimers, CheckNextTxStep
<1>5. \A next : Held(s, next) => next = "IDLE"  BY DEF Held, Free
<1>6. \A phase, types : Command(s, phase, types) => phase \notin Talking \cup SendingFast
  BY <1>2 DEF Command, Hearing, Listening, Receiving, Talking, SendingFast
<1>7. \A types : ~Answer(s, types)  BY <1>5, <1>6 DEF Answer, Talking
<1>8. ASSUME s.state \in {"T", "R", "D", "D_POST_TCF"} PROVE Mode(r)
  <2>1. s.phase # "B_TX"  BY <1>2 DEF Hearing, Listening, Receiving
  <2>2. s.state = "T" => InT(r)  BY <1>1, <1>3, <1>4, <2>1 DEF Mode, InT, Free, Empty, NoTimer
  <2>3. s.state = "R" => InR(r)
    <3>1. s.state = "R" => /\ s.phase = "B_RX" /\ Free(s) /\ Empty(s) /\ s.step = 3
                           /\ s.timer_t2_t4 = TRUE /\ s.timer_is_t4 = TRUE
      BY <1>1, <1>5, <2>1 DEF Mode, InR
    <3> QED  BY <1>3, <1>4, <3>1 DEF InR, Free, Empty
  <2>4. s.state = "D" => InD(r)
    <3>1. s.state = "D" => /\ s.phase = "B_RX" /\ Free(s) /\ s.step = 2 /\ s.buffer = Simple("TSI")
                           /\ s.timer_is_t4 = TRUE
      BY <1>1, <1>5, <2>1 DEF Mode, InD
    <3> QED  BY <1>3, <1>4, <3>1 DEF InD, Free
  <2>5. s.state = "D_POST_TCF" => InD_POST_TCF(r)
    BY <1>1, <1>3, <1>4 DEF Mode, InD_POST_TCF, Free, Empty
  <2> QED  BY <1>4, <1>8, <2>2, <2>3, <2>4, <2>5 DEF Mode, States
<1>9. ASSUME s.state \in {"F_FTT", "II_Q", "IV_PPS_NULL", "IV_PPS_Q"} PROVE Mode(r)
  <2>1. \A phase : Asked(s, phase) => Asked(r, phase)  BY <1>3, <1>4 DEF Asked, Free, Empty
  <2>2. s.state = "F_FTT" => InF_FTT(r)  BY <1>1, <1>6, <2>1 DEF Mode, InF_FTT, Talking
  <2>3. s.state = "II_Q" => InII_Q(r)  BY <1>1, <1>4, <1>6, <2>1 DEF Mode, InII_Q, Talking
  <2>4. s.state \in {"IV_PPS_NULL", "IV_PPS_Q"} => InIV_PPS(r)
    BY <1>1, <1>4, <1>6, <2>1 DEF Mode, InIV_PPS, Talking
  <2> QED  BY <1>4, <1>9, <2>2, <2>3, <2>4 DEF Mode, States
<1>10. ASSUME s.state \in {"IV_CTC", "F_TCF", "F_DOC", "F_POST_DOC_NON_ECM", "F_POST_DOC_ECM"} PROVE Mode(r)
  <2>1. s.state = "IV_CTC" => InIV_CTC(r)  BY <1>1, <1>3, <1>4 DEF Mode, InIV_CTC, Free
  <2>2. s.state = "F_TCF" => InF_TCF(r)  BY <1>1, <1>3, <1>4 DEF Mode, InF_TCF, Free, Empty
  <2>3. s.state = "F_DOC" => InF_DOC(r)  BY <1>1, <1>3, <1>4 DEF Mode, InF_DOC, Free, Empty
  <2>4. s.state = "F_POST_DOC_NON_ECM" => InF_POST_DOC_NON_ECM(r)
    BY <1>1, <1>3, <1>4 DEF Mode, InF_POST_DOC_NON_ECM, Free, Empty
  <2>5. s.state = "F_POST_DOC_ECM" => InF_POST_DOC_ECM(r)
    <3>1. s.next_phase # "D_RX"  BY DEF Free
    <3> QED  BY <1>1, <1>3, <1>4, <3>1 DEF Mode, InF_POST_DOC_ECM, Free, Empty
  <2> QED  BY <1>4, <1>10, <2>1, <2>2, <2>3, <2>4, <2>5 DEF Mode, States
<1>11. s.state \in {"T", "R", "D", "D_POST_TCF", "F_FTT", "II_Q", "IV_PPS_NULL", "IV_PPS_Q", "IV_CTC", "F_TCF",
                    "F_DOC", "F_POST_DOC_NON_ECM", "F_POST_DOC_ECM"}
  <2>1. s.state \notin {"ANSWERING", "D_TCF", "B", "CALL_FINISHED"}
    <3>1. s.phase \notin {"A_CED", "C_NON_ECM_TX", "E", "CALL_FINISHED"}
      BY <1>2 DEF Hearing, Listening, Receiving
    <3> QED  BY <1>1, <3>1 DEF Mode, InAnswering, InD_TCF, InB, InFinished
  <2>2. s.state \notin {"I", "IV", "F_CFR"}
    <3>1. s.phase # "C_NON_ECM_TX"  BY <1>2 DEF Hearing, Listening, Receiving
    <3> QED  BY <1>1, <1>5, <1>6, <3>1 DEF Mode, InI, InIV, InF_CFR, Talking, SendingFast
  <2>3. s.state \notin {"F_POST_RCP_MCF", "F_POST_RCP_PPR", "III_Q_MCF", "III_Q_RTP", "III_Q_RTN", "C"}
    BY <1>1, <1>7 DEF Mode, InIII, InC
  <2>4. s.state \in States  BY <1>1 DEF Mode
  <2> QED  BY <2>1, <2>2, <2>3, <2>4 DEF States
<1>12. Mode(r)  BY <1>8, <1>9, <1>10, <1>11
<1>13. Carries(r)
  BY <1>1, <1>3, <1>4 DEF Carries, SameDoc, FcdFrame, PpsFrame
<1> QED  BY <1>3, <1>12, <1>13 DEF EndInv, r

-----------------------------------------------------------------------------
(* The phase that an end has waited to enter                                *)

\* What waits.
LEMMA HeldStates ==
  ASSUME NEW s, EndInv(s), s.hears # "no", ~Free(s)
  PROVE  \/ /\ s.state = "F_POST_DOC_ECM" /\ s.phase = "C_ECM_RX" /\ s.next_phase = "D_RX" /\ s.hears = "fast"
            /\ Empty(s) /\ s.ecm = TRUE /\ s.timer_is_t4 = FALSE /\ s.step = 0
         \/ s.hears = "v21" /\ s.state = "R" /\ s.phase = "B_RX" /\ s.next_phase = "B_TX" /\ s.step = 1 /\ s.buffer = Simple("CSI")
         \/ /\ s.hears = "v21" /\ s.state = "D" /\ s.phase \in Listening /\ s.next_phase = "B_TX" /\ NoTimer(s)
            /\ (s.step = 2 /\ s.buffer = Simple("TSI")) \/ (s.step = 1 /\ s.buffer = Simple("CSI"))
         \/ s.hears = "v21" /\ s.state = "I" /\ s.phase \in Listening /\ s.next_phase = "C_NON_ECM_TX"
         \/ /\ s.hears = "v21" /\ s.state = "IV" /\ s.phase \in Listening /\ s.next_phase = "C_ECM_TX" /\ s.step = 0
            /\ s.buffer.type \in {"FCD", "RCP"}
         \/ /\ s.hears = "v21" /\ s.phase \in Hearing /\ s.next_phase = "D_TX" /\ s.step = 0
            /\ \/ s.state = "F_POST_RCP_MCF" /\ s.buffer.type = "MCF" /\ s.ecm = TRUE /\ NoTimer(s)
               \/ s.state = "F_POST_RCP_PPR" /\ s.buffer.type = "PPR" /\ s.ecm = TRUE /\ NoTimer(s)
               \/ s.state = "III_Q_MCF" /\ s.buffer.type = "MCF" /\ s.ecm = FALSE /\ NoTimer(s)
               \/ s.state = "III_Q_RTP" /\ s.buffer.type = "RTP" /\ s.ecm = FALSE /\ NoTimer(s)
               \/ s.state = "III_Q_RTN" /\ s.buffer.type = "RTN" /\ s.ecm = FALSE /\ NoTimer(s)
               \/ s.state = "C" /\ s.buffer.type \in {"DCN", "TSI", "CTC"} /\ (NoTimer(s) \/ s.timer_is_t4 = TRUE)
<1>1. Mode(s)  BY DEF EndInv
<1>2. s.phase \in Hearing  BY HearerWaits
<1>3. \A phase, types : ~Command(s, phase, types)  BY DEF Command
<1>4. \A phase : ~Asked(s, phase)  BY DEF Asked
<1>5. s.state \notin {"ANSWERING", "T", "D_TCF", "D_POST_TCF", "IV_CTC", "F_TCF", "F_DOC", "F_POST_DOC_NON_ECM"}
  BY <1>1 DEF Mode, InAnswering, InT, InD_TCF, InD_POST_TCF, InIV_CTC, InF_TCF, InF_DOC, InF_POST_DOC_NON_ECM
<1>6. s.state \notin {"II_Q", "IV_PPS_NULL", "IV_PPS_Q", "F_CFR", "F_FTT"}
  BY <1>1, <1>3, <1>4 DEF Mode, InII_Q, InIV_PPS, InF_CFR, InF_FTT
<1>7. s.state \notin {"B", "CALL_FINISHED"}
  <2>1. s.phase \notin {"E", "CALL_FINISHED"}  BY <1>2 DEF Hearing, Listening, Receiving
  <2> QED  BY <1>1, <2>1 DEF Mode, InB, InFinished
<1>8. s.state \in {"R", "D", "I", "IV", "F_POST_DOC_ECM", "F_POST_RCP_MCF", "F_POST_RCP_PPR", "III_Q_MCF", "III_Q_RTP",
                   "III_Q_RTN", "C"}
  BY <1>1, <1>5, <1>6, <1>7 DEF Mode, States
<1>9. CASE s.state = "R"  BY <1>1, <1>9 DEF Mode, InR, Held
<1>10. CASE s.state = "D"  BY <1>1, <1>10 DEF Mode, InD, Held
<1>11. CASE s.state = "I"  BY <1>1, <1>11 DEF Mode, InI, Held
<1>12. CASE s.state = "IV"  BY <1>1, <1>3, <1>12 DEF Mode, InIV, Held
<1>13. CASE s.state = "F_POST_DOC_ECM"  BY <1>1, <1>13 DEF Mode, InF_POST_DOC_ECM
<1>14. CASE s.state \in {"F_POST_RCP_MCF", "F_POST_RCP_PPR"}
  BY <1>1, <1>3, <1>14 DEF Mode, InIII, Answer, Held
<1>15. CASE s.state \in {"III_Q_MCF", "III_Q_RTP", "III_Q_RTN"}
  BY <1>1, <1>3, <1>15 DEF Mode, InIII, Answer, Held
<1>16. CASE s.state = "C"
  BY <1>1, <1>3, <1>16 DEF Mode, InC, Answer, Held
<1> QED  BY <1>8, <1>9, <1>10, <1>11, <1>12, <1>13, <1>14, <1>15, <1>16

Enters(s, t) ==
  /\ Ready(t) /\ SameRest(s, t) /\ t.phase = s.next_phase /\ Free(t) /\ t.hears = "no"
  /\ t.state = s.state /\ t.step = s.step /\ t.buffer = s.buffer
  /\ t.phase # "D_RX" => t.tx_end = FALSE

\* With a phase queued, the end of the signal enters it ...
LEMMA DeafEnters ==
  ASSUME NEW s, EndInv(s), s.hears # "no", ~Free(s)
  PROVE  Enters(s, NextPhase(Deaf(s)))
<1> DEFINE r == Deaf(s)
           t == NextPhase(r)
<1>1. /\ Fields \subseteq DOMAIN r /\ Radio(r) /\ Signals(r) /\ r.hears = "no" /\ r.rx_signal_present = FALSE
      /\ r.phase = s.phase /\ SameTalk(s, r) /\ SameDoc(s, r) /\ SameCall(s, r)
      /\ r.buffer = s.buffer /\ r.on = "off" /\ r.tx_end = s.tx_end /\ Ready(r)
  BY DeafFacts
<1> HIDE DEF r
<1>2. r.state = s.state /\ r.step = s.step /\ r.next_phase = s.next_phase /\ r.next_phase # "IDLE"
  BY <1>1 DEF SameTalk, Free
<1>3. SameRest(s, r)  BY <1>1 DEF SameRest, SameCall
<1>4. CASE s.next_phase = "D_RX"
  <2> DEFINE a == SetPhase(r, "D_RX")
             b == [a EXCEPT !.next_phase = "IDLE"]
  <2>1. s.phase \in Receiving  BY <1>4, HeldStates DEF Receiving
  <2>2. r.tx_end \in BOOLEAN  BY <1>1 DEF Ready
  <2>3. /\ Moved(r, a, "D_RX") /\ SameTimers(r, a) /\ a.hears = "no" /\ a.tx_end = r.tx_end
        /\ a.far_end_detected = r.far_end_detected
    BY <1>1, <2>1, <2>2, ListenPhase DEF Radio, Listening
  <2>4. t = b  BY <1>2, <1>4 DEF NextPhase
  <2> HIDE DEF a
  <2>5. Fields \subseteq DOMAIN a /\ Radio(a) /\ Signals(a) /\ Quiet(r, a) /\ a.phase = "D_RX" /\ a.on = "off"
    BY <2>3 DEF Moved
  <2>6. /\ Fields \subseteq DOMAIN b /\ SameModems(a, b) /\ b.next_phase = "IDLE" /\ b.state = a.state /\ b.step = a.step
        /\ b.buffer = a.buffer /\ b.on = a.on
    BY <2>5 DEF Fields, SameModems
  <2>7. b.tx_end = a.tx_end /\ SameCall(a, b)
    BY <2>5 DEF Fields, SameCall, SameTimers
  <2>8. SameDoc(a, b)  BY <2>5 DEF Fields, SameDoc
  <2> HIDE DEF b
  <2>9. Ready(b)
    <3>1. Radio(b) /\ Signals(b)  BY <2>5, <2>6, ModemsKept
    <3> QED  BY <1>1, <2>3, <2>5, <2>6, <2>7, <3>1 DEF Ready, SameCall, Quiet
  <2>10. SameRest(s, b)
    <3>1. SameRest(r, b)  BY <2>3, <2>5, <2>7, <2>8 DEF SameRest, SameCall, SameTimers, Quiet, SameDoc
    <3> QED  BY <1>3, <3>1, RestKept
  <2>11. b.phase = "D_RX" /\ Free(b) /\ b.hears = "no"  BY <2>3, <2>5, <2>6 DEF SameModems, Free
  <2>12. b.state = s.state /\ b.step = s.step /\ b.buffer = s.buffer  BY <1>1, <1>2, <2>5, <2>6 DEF Quiet
  <2>13. Enters(s, b)  BY <1>4, <2>9, <2>10, <2>11, <2>12 DEF Enters
  <2> QED  BY <2>4, <2>13 DEF r
<1>5. CASE s.next_phase # "D_RX"
  <2>1. \/ s.phase \in Hearing /\ s.next_phase \in Talking
        \/ s.phase \in Listening /\ s.next_phase \in SendingFast
    <3>1. s.phase \in Hearing  BY HearerWaits
    <3> QED  BY <1>5, <3>1, HeldStates DEF Talking, SendingFast
  <2>2. t = QueuePhase(r, s.next_phase)  BY <1>1, <1>2 DEF NextPhase, QueuePhase
  <2>3. Queued(r, QueuePhase(r, s.next_phase), s.next_phase)  BY <1>1, <2>1, QueuePhaseFacts
  <2> HIDE DEF t
  <2>4. Queued(r, t, s.next_phase)  BY <2>2, <2>3
  <2>5. /\ Ready(t) /\ SameRest(r, t) /\ Turned(r, t, s.next_phase)
        /\ t.state = r.state /\ t.step = r.step /\ t.buffer = r.buffer
    BY <2>4 DEF Queued
  <2>6. t.phase = s.next_phase /\ t.next_phase = "IDLE" /\ t.hears = "no" /\ t.tx_end = FALSE
    BY <1>1, <2>5 DEF Turned
  <2>7. SameRest(s, t)  BY <1>3, <2>5, RestKept
  <2> QED  BY <1>1, <1>2, <2>5, <2>6, <2>7 DEF Enters, Free, t, r
<1> QED  BY <1>4, <1>5

\* ... which keeps the invariant of the end.
LEMMA EntersEnd ==
  ASSUME NEW s, NEW t, EndInv(s), s.hears # "no", ~Free(s), Enters(s, t)
  PROVE  EndInv(t)
<1>1. Mode(s) /\ Carries(s) /\ Whole(s) /\ Stands(s) /\ Counts(s)  BY Parts DEF EndInv
<1>2. /\ Ready(t) /\ SameRest(s, t) /\ t.phase = s.next_phase /\ Free(t) /\ t.hears = "no"
      /\ t.state = s.state /\ t.step = s.step /\ t.buffer = s.buffer
      /\ t.phase # "D_RX" => t.tx_end = FALSE
  BY DEF Enters
<1>3. t.timer_t2_t4 = s.timer_t2_t4 /\ t.timer_is_t4 = s.timer_is_t4 /\ t.ecm = s.ecm
  BY <1>2 DEF SameRest, SameTimers, SameDoc
<1>4. Mode(t)
  <2>1. CASE s.state = "F_POST_DOC_ECM"
    <3>1. InF_POST_DOC_ECM(t)  BY <1>2, <1>3, <2>1, HeldStates DEF InF_POST_DOC_ECM, Empty
    <3> QED  BY <1>2, <2>1, <3>1 DEF Mode, States
  <2>2. CASE s.state = "R"
    <3>1. t.phase = "B_TX" /\ t.step = 1 /\ t.buffer = Simple("CSI") /\ t.tx_end = FALSE  BY <1>2, <2>2, HeldStates
    <3>2. InR(t)  BY <1>2, <3>1 DEF InR
    <3> QED  BY <1>2, <2>2, <3>2 DEF Mode, States
  <2>3. CASE s.state = "D"
    <3>1. t.phase = "B_TX" /\ NoTimer(t) /\ t.tx_end = FALSE
          /\ ((t.step = 2 /\ t.buffer = Simple("TSI")) \/ (t.step = 1 /\ t.buffer = Simple("CSI")))
      BY <1>2, <1>3, <2>3, HeldStates DEF NoTimer
    <3>2. InD(t)  BY <1>2, <3>1 DEF InD
    <3> QED  BY <1>2, <2>3, <3>2 DEF Mode, States
  <2>4. CASE s.state = "I"
    <3>1. t.phase = "C_NON_ECM_TX" /\ t.tx_end = FALSE  BY <1>2, <2>4, HeldStates
    <3>2. InI(t)  BY <1>1, <1>2, <1>3, <2>4, <3>1 DEF Mode, InI, Empty, NoTimer
    <3> QED  BY <1>2, <2>4, <3>2 DEF Mode, States
  <2>5. CASE s.state = "IV"
    <3>1. t.phase = "C_ECM_TX" /\ t.tx_end = FALSE /\ t.step = 0 /\ t.buffer.type \in {"FCD", "RCP"}
      BY <1>2, <2>5, HeldStates
    <3>2. Command(t, "C_ECM_TX", {"FCD", "RCP"})  BY <1>2, <3>1 DEF Command
    <3>3. RestSent(s) => RestSent(t)  BY <1>2 DEF RestSent, SameRest, SameDoc
    <3>4. InIV(t)
      BY <1>1, <1>2, <1>3, <2>5, <3>1, <3>2, <3>3 DEF Mode, InIV, NoTimer
    <3> QED  BY <1>2, <2>5, <3>4 DEF Mode, States
  <2>6. CASE s.state \in {"F_POST_RCP_MCF", "F_POST_RCP_PPR", "III_Q_MCF", "III_Q_RTP", "III_Q_RTN"}
    <3>1. t.phase = "D_TX" /\ t.tx_end = FALSE /\ t.step = 0 /\ NoTimer(t)
      BY <1>2, <1>3, <2>6, HeldStates DEF NoTimer
    <3>2. Answer(t, {t.buffer.type})  BY <1>2, <3>1 DEF Answer, Command
    <3>3. InIII(t, t.buffer.type, t.ecm)  BY <3>1, <3>2 DEF InIII
    <3>4. /\ t.state = "F_POST_RCP_MCF" => t.buffer.type = "MCF" /\ t.ecm = TRUE
          /\ t.state = "F_POST_RCP_PPR" => t.buffer.type = "PPR" /\ t.ecm = TRUE
          /\ t.state = "III_Q_MCF" => t.buffer.type = "MCF" /\ t.ecm = FALSE
          /\ t.state = "III_Q_RTP" => t.buffer.type = "RTP" /\ t.ecm = FALSE
          /\ t.state = "III_Q_RTN" => t.buffer.type = "RTN" /\ t.ecm = FALSE
      BY <1>2, <1>3, <2>6, HeldStates
    <3> QED  BY <1>2, <2>6, <3>3, <3>4 DEF Mode, States
  <2>7. CASE s.state = "C"
    <3>1. t.phase = "D_TX" /\ t.tx_end = FALSE /\ t.step = 0 /\ t.buffer.type \in {"DCN", "TSI", "CTC"}
          /\ (NoTimer(t) \/ t.timer_is_t4 = TRUE)
      BY <1>2, <1>3, <2>7, HeldStates DEF NoTimer
    <3>2. Answer(t, {"DCN", "TSI", "CTC"})  BY <1>2, <3>1 DEF Answer, Command
    <3>3. InC(t)  BY <3>1, <3>2 DEF InC
    <3> QED  BY <1>2, <2>7, <3>3 DEF Mode, States
  <2> QED  BY <2>1, <2>2, <2>3, <2>4, <2>5, <2>6, <2>7, HeldStates
<1>5. Whole(t)  BY <1>1, <1>2, WholeKept
<1>6. Stands(t)  BY <1>1, <1>2 DEF Stands, SameRest, SameDoc
<1>7. t.step \in 0 .. 4 /\ t.next_phase \in Phases \cup {"IDLE"}  BY <1>1, <1>2 DEF Counts, Free
<1>8. Sides(t) /\ Counts(t)  BY <1>2, <1>5, <1>6, <1>7, Joined
<1>9. Carries(t)
  BY <1>1, <1>2 DEF Carries, SameRest, SameDoc, FcdFrame, PpsFrame
<1> QED  BY <1>2, <1>4, <1>8, <1>9 DEF EndInv, Ready

\* A receiver that has judged the training.
LEMMA TrainingJudged ==
  ASSUME NEW u, Ready(u), Whole(u), Free(u), NoTimer(u), u.phase = "C_NON_ECM_RX", u.hears = "no",
         u.rx_signal_present = FALSE, u.timer_t0_t1 = FALSE, u.buffer = NoFrame, u.state = "F_TCF",
         u.rx_file = TRUE, u.ecm = u.ecm_allowed, u.retries <= Tries, u.page <= Pages,
         NEW state, NEW type, (state = "F_CFR" /\ type = "CFR") \/ (state = "F_FTT" /\ type = "FTT")
  PROVE  LET t == SendFrame(SetState(SetPhase(u, "B_TX"), state), Simple(type)) IN
         EndInv(t) /\ t.state = state /\ t.on = "off" /\ t.hears = "no" /\ SameDoc(u, t) /\ Free(t) /\ NoTimer(t)
<1> DEFINE a == SetPhase(u, "B_TX")
           b == SetState(a, state)
           t == SendFrame(b, Simple(type))
<1>1. Fields \subseteq DOMAIN u /\ Radio(u) /\ Tuned(u) /\ Signals(u) /\ u.tx_end \in BOOLEAN /\ u.timer_t0_t1 \in BOOLEAN
      /\ u.far_end_detected \in BOOLEAN
  BY DEF Ready, Radio
<1>2. Moved(u, a, "B_TX") /\ SameTimers(u, a) /\ a.hears = "no" /\ a.tx_end = FALSE
      /\ a.far_end_detected = (u.far_end_detected \/ u.timer_t0_t1)
  <2>1. u.phase \in Hearing /\ u.phase \notin Calling  BY DEF Hearing, Receiving, Calling
  <2> QED  BY <1>1, <2>1, TalkPhase DEF Talking
<1> HIDE DEF a
<1>3. Fields \subseteq DOMAIN a /\ Radio(a) /\ Signals(a) /\ Quiet(u, a) /\ a.phase = "B_TX" /\ a.on = "off"
  BY <1>2 DEF Moved
<1>4. a.state = "F_TCF" /\ a.buffer = NoFrame /\ a.next_phase = "IDLE" /\ a.timer_t0_t1 = FALSE
  BY <1>3 DEF Quiet, Free
<1>5. /\ Fields \subseteq DOMAIN b /\ b.state = state /\ b.step = 0 /\ SameModems(a, b) /\ SameCall(a, b) /\ SameDoc(a, b)
      /\ b.buffer = NoFrame /\ b.next_phase = "IDLE" /\ b.on = "off" /\ b.tx_end = FALSE
  BY <1>2, <1>3, <1>4, StateSet
<1> HIDE DEF b
<1>6. /\ Fields \subseteq DOMAIN t /\ t.tx_end = FALSE /\ t.buffer = Simple(type)
      /\ SameModems(b, t) /\ SameTalk(b, t) /\ SameCall(b, t) /\ SameDoc(b, t) /\ t.on = b.on
  BY <1>5, FrameTaken
<1> HIDE DEF t
<1>7. Radio(t) /\ Signals(t)
  <2>1. Radio(b) /\ Signals(b)  BY <1>3, <1>5, ModemsKept
  <2> QED  BY <1>6, <2>1, ModemsKept
<1>8. SameDoc(u, t)  BY <1>3, <1>5, <1>6 DEF Quiet, SameDoc
<1>9. SameRest(u, t)
  BY <1>2, <1>3, <1>5, <1>6, <1>8 DEF SameRest, SameCall, SameTimers, Quiet
<1>10. t.phase = "B_TX" /\ t.hears = "no"  BY <1>2, <1>3, <1>5, <1>6 DEF SameModems
<1>11. t.state = state /\ t.step = 0 /\ t.next_phase = "IDLE"  BY <1>5, <1>6 DEF SameTalk
<1>12. NoTimer(t) /\ t.timer_t0_t1 = FALSE  BY <1>9 DEF SameRest, SameTimers, NoTimer
<1>13. Ready(t)
  <2>1. a.far_end_detected \in BOOLEAN  BY <1>1, <1>2
  <2>2. t.far_end_detected = a.far_end_detected  BY <1>5, <1>6 DEF SameCall
  <2>3. t.tx_end \in BOOLEAN /\ t.timer_t0_t1 \in BOOLEAN  BY <1>6, <1>12
  <2> QED  BY <1>5, <1>6, <1>7, <2>1, <2>2, <2>3 DEF Ready
<1>14. Mode(t)
  <2>1. Command(t, "B_TX", {type})  BY <1>6, <1>10, <1>11 DEF Command, Free, Simple
  <2>2. state = "F_CFR" => InF_CFR(t)  BY <1>12, <2>1 DEF InF_CFR
  <2>3. state = "F_FTT" => InF_FTT(t)  BY <1>12, <2>1 DEF InF_FTT
  <2> QED  BY <1>11, <2>2, <2>3 DEF Mode, States
<1>15. Whole(t)  BY <1>9, WholeKept
<1>16. Stands(t)
  <2>1. t.rx_file = TRUE /\ t.ecm = t.ecm_allowed /\ t.retries <= Tries /\ t.page <= Pages
    BY <1>9 DEF SameRest, SameDoc
  <2>2. t.state \notin SendStates  BY <1>11 DEF SendStates
  <2> QED  BY <1>12, <2>1, <2>2 DEF Stands
<1>17. t.step \in 0 .. 4 /\ t.next_phase \in Phases \cup {"IDLE"}  BY <1>11
<1>18. Sides(t) /\ Counts(t)  BY <1>13, <1>15, <1>16, <1>17, Joined
<1>19. Carries(t)  BY <1>6, <1>11 DEF Carries, Simple
<1>20. EndInv(t)  BY <1>6, <1>7, <1>14, <1>18, <1>19 DEF EndInv
<1> QED  BY <1>5, <1>6, <1>8, <1>10, <1>11, <1>12, <1>20 DEF t, b, a, Free

\* What an end is when the signal that it heard has ended.
Silenced(s, t) ==
  /\ EndInv(t) /\ t.hears = "no" /\ t.on = "off" /\ t.tx_file = s.tx_file /\ t.ecm_allowed = s.ecm_allowed
  /\ t.page = s.page /\ t.ecm_block = s.ecm_block /\ t.ecm = s.ecm
  /\ \/ t.state = s.state /\ t.buffer = s.buffer /\ t.timer_t2_t4 = s.timer_t2_t4 /\ SameDoc(s, t)
     \/ s.state = "F_TCF" /\ s.hears = "fast" /\ t.state = "F_FTT" /\ SameDoc(s, t)
     \/ /\ s.state = "F_TCF" /\ s.hears = "fast" /\ t.state = "F_CFR" /\ t.image = <<>> /\ t.got = {}
        /\ t.in_message = TRUE /\ t.next_rx_step = s.next_rx_step
     \/ s.state = "F_DOC" /\ s.ecm = FALSE /\ s.hears = "fast" /\ t.state = "F_POST_DOC_NON_ECM" /\ SameDoc(s, t)

\* The training.
Opens(s) == RxStartPage([s EXCEPT !.in_message = TRUE])

\* A document is opened with no page and no block in it.
LEMMA OpensFacts ==
  ASSUME NEW s, Fields \subseteq DOMAIN s
  PROVE  LET u == Opens(s) IN
         /\ Fields \subseteq DOMAIN u /\ SameMachine(s, u) /\ u.image = <<>> /\ u.got = {} /\ u.in_message = TRUE
         /\ u.retries = s.retries /\ u.current_status = s.current_status
         /\ u.page = s.page /\ u.ecm_block = s.ecm_block /\ u.ecm = s.ecm /\ SameAims(s, u)
<1> DEFINE u == Opens(s)
<1>1. Fields \subseteq DOMAIN u /\ SameMachine(s, u)
  BY DEF Opens, RxStartPage, Fields, SameMachine, SameModems, SameTalk, SameTimers
<1>2. u.image = <<>> /\ u.got = {} /\ u.in_message = TRUE
  BY DEF Opens, RxStartPage, Fields
<1>3. u.page = s.page /\ u.ecm_block = s.ecm_block /\ u.ecm = s.ecm
      /\ u.retries = s.retries /\ u.current_status = s.current_status
  BY DEF Opens, RxStartPage, Fields
<1>4. SameAims(s, u)  BY DEF Opens, RxStartPage, Fields, SameAims
<1> QED  BY <1>1, <1>2, <1>3, <1>4

\* The receiver of bits has had training, or a page.
LEMMA BitsStates ==
  ASSUME NEW s, EndInv(s), s.hears \in {"fast", "noise"}, s.rx_hdlc = FALSE
  PROVE  /\ Free(s) /\ s.phase = "C_NON_ECM_RX"
         /\ s.state = "F_TCF" \/ (s.state = "F_DOC" /\ s.ecm = FALSE)
<1>1. Mode(s) /\ Sides(s) /\ s.phase = "C_NON_ECM_RX"  BY HearerWaits DEF EndInv
<1>2. Free(s)
  <2>1. s.phase # "C_ECM_RX" /\ s.hears # "v21"  BY <1>1
  <2> QED  BY <2>1, HeldStates
<1>3. \A next : ~Held(s, next)  BY DEF Held
<1>4. \A types : ~Answer(s, types)  BY <1>1, <1>3 DEF Answer, Command
<1>5. s.state \notin {"ANSWERING", "T", "R", "D", "D_TCF", "D_POST_TCF", "I", "B", "CALL_FINISHED"}
  BY <1>1, <1>3 DEF Mode, InAnswering, InT, InR, InD, InD_TCF, InD_POST_TCF, InI, InB, InFinished, Listening
<1>6. s.state \notin {"II_Q", "IV", "IV_PPS_NULL", "IV_PPS_Q", "IV_CTC", "F_CFR", "F_FTT", "F_POST_DOC_NON_ECM",
                      "F_POST_DOC_ECM"}
  BY <1>1, <1>3 DEF Mode, InII_Q, InIV, InIV_PPS, InIV_CTC, InF_CFR, InF_FTT, InF_POST_DOC_NON_ECM, InF_POST_DOC_ECM,
     Asked, Command, Listening
<1>7. s.state \notin {"F_POST_RCP_MCF", "F_POST_RCP_PPR", "III_Q_MCF", "III_Q_RTP", "III_Q_RTN", "C"}
  BY <1>1, <1>4 DEF Mode, InIII, InC
<1>8. s.state \in {"F_TCF", "F_DOC"}  BY <1>1, <1>5, <1>6, <1>7 DEF Mode, States
<1>9. s.state = "F_DOC" => s.ecm = FALSE
  BY <1>1 DEF Mode, InF_DOC, Sides
<1> QED  BY <1>1, <1>2, <1>8, <1>9

\* A receiver judges the training that it has heard.
LEMMA TrainingDown ==
  ASSUME NEW s, NEW good \in BOOLEAN, EndInv(s), s.hears = "fast", s.state = "F_TCF"
  PROVE  LET r == Deaf(s)
             t == IF good THEN TrainingGood(r) ELSE TrainingBad(r)
         IN Silenced(s, t) /\ Free(t)
<1> DEFINE r == Deaf(s)
           u == IF good THEN Opens(r) ELSE r
           state == IF good THEN "F_CFR" ELSE "F_FTT"
           type == IF good THEN "CFR" ELSE "FTT"
           t == SendFrame(SetState(SetPhase(u, "B_TX"), state), Simple(type))
<1>1. Mode(s) /\ Sides(s) /\ Counts(s) /\ Whole(s) /\ Stands(s)  BY Parts DEF EndInv
<1>2. s.phase = "C_NON_ECM_RX" /\ Free(s) /\ Empty(s) /\ NoTimer(s)  BY <1>1 DEF Mode, InF_TCF
<1>3. /\ Fields \subseteq DOMAIN r /\ r.hears = "no" /\ r.rx_signal_present = FALSE
      /\ r.phase = s.phase /\ SameTalk(s, r) /\ SameDoc(s, r) /\ SameCall(s, r)
      /\ r.buffer = s.buffer /\ r.on = "off" /\ Ready(r)
  BY DeafFacts
<1> HIDE DEF r
<1>4. SameRest(s, r) /\ Whole(r)
  <2>1. SameRest(s, r)  BY <1>3 DEF SameRest, SameCall
  <2> QED  BY <1>1, <2>1, WholeKept
<1>5. /\ Fields \subseteq DOMAIN u /\ SameMachine(r, u) /\ u.retries = r.retries
      /\ u.current_status = r.current_status /\ SameAims(r, u)
      /\ u.page = r.page /\ u.ecm_block = r.ecm_block /\ u.ecm = r.ecm
      /\ good => u.image = <<>> /\ u.got = {} /\ u.in_message = TRUE
      /\ ~good => SameDoc(r, u)
      /\ u.next_rx_step = r.next_rx_step
  <2>1. CASE good
    <3>1. u = Opens(r)  BY <2>1
    <3>2. u.next_rx_step = r.next_rx_step  BY <1>3, <3>1 DEF Opens, RxStartPage, Fields
    <3> QED  BY <1>3, <2>1, <3>1, <3>2, OpensFacts
  <2>2. CASE ~good
    <3>1. u = r  BY <2>2
    <3>2. SameMachine(r, r) /\ SameAims(r, r) /\ SameDoc(r, r)
      BY DEF SameMachine, SameModems, SameTalk, SameTimers, SameAims, SameDoc
    <3> QED  BY <1>3, <2>2, <3>1, <3>2
  <2> QED  BY <2>1, <2>2
<1> HIDE DEF u
<1>6. Ready(u)  BY <1>3, <1>5, MachineKept
<1>7. Whole(u)
  <2>1. u.image = r.image \/ u.image = <<>>  BY <1>5 DEF SameDoc
  <2>2. u.got = r.got \/ u.got = {}  BY <1>5 DEF SameDoc
  <2>3. u.in_message \in BOOLEAN  BY <1>4, <1>5 DEF SameDoc, Whole
  <2>4. /\ u.tx_file = r.tx_file /\ u.rx_file = r.rx_file /\ u.ecm_allowed = r.ecm_allowed
        /\ u.ppr_count = r.ppr_count /\ u.ecm_at_page_end = r.ecm_at_page_end /\ u.ecm_len = r.ecm_len
        /\ u.ecm_current_frame = r.ecm_current_frame /\ u.next_tx_step = r.next_tx_step
        /\ u.compatible = r.compatible
    BY <1>5 DEF SameAims
  <2>5. SameTimers(r, u)  BY <1>5 DEF SameMachine
  <2> QED  BY <1>4, <1>5, <2>1, <2>2, <2>3, <2>4, <2>5 DEF Whole, SameTimers
<1>8. /\ Free(u) /\ NoTimer(u) /\ u.phase = "C_NON_ECM_RX" /\ u.hears = "no" /\ u.rx_signal_present = FALSE
      /\ u.buffer = NoFrame /\ u.state = "F_TCF"
  BY <1>2, <1>3, <1>5 DEF SameMachine, SameModems, SameTalk, SameCall, SameTimers, Free, NoTimer, Empty
<1>9. u.timer_t0_t1 = FALSE
  <2>1. s.timer_t0_t1 = FALSE  BY <1>1 DEF Sides, Counts
  <2> QED  BY <1>3, <1>5, <2>1 DEF SameMachine, SameCall
<1>10. u.rx_file = TRUE /\ u.ecm = u.ecm_allowed
  <2>1. s.rx_file = TRUE /\ s.ecm = s.ecm_allowed  BY <1>1 DEF Stands, ReceiveStates
  <2> QED  BY <1>3, <1>5, <2>1 DEF SameDoc, SameAims
<1>11. u.retries <= Tries /\ u.page <= Pages
  <2>1. s.retries <= Tries /\ s.page <= Pages  BY <1>1 DEF Stands, Over
  <2> QED  BY <1>3, <1>5, <2>1 DEF SameDoc, SameCall
<1>12. (state = "F_CFR" /\ type = "CFR") \/ (state = "F_FTT" /\ type = "FTT")  OBVIOUS
<1> HIDE DEF state, type
<1>13. EndInv(t) /\ t.state = state /\ t.on = "off" /\ t.hears = "no" /\ SameDoc(u, t) /\ Free(t) /\ NoTimer(t)
  BY <1>6, <1>7, <1>8, <1>9, <1>10, <1>11, <1>12, TrainingJudged
<1>14. t = IF good THEN TrainingGood(r) ELSE TrainingBad(r)
  BY DEF u, state, type, Opens, TrainingGood, TrainingBad
<1> HIDE DEF t
<1>15. t.tx_file = s.tx_file /\ t.ecm_allowed = s.ecm_allowed /\ t.page = s.page /\ t.ecm_block = s.ecm_block
       /\ t.ecm = s.ecm /\ t.next_rx_step = s.next_rx_step
  BY <1>3, <1>5, <1>13 DEF SameDoc, SameAims
<1>16. CASE good
  <2>1. t.state = "F_CFR" /\ t.image = <<>> /\ t.got = {} /\ t.in_message = TRUE
    BY <1>5, <1>13, <1>16 DEF SameDoc, state
  <2> QED  BY <1>13, <1>14, <1>15, <2>1 DEF Silenced, r
<1>17. CASE ~good
  <2>1. t.state = "F_FTT" /\ SameDoc(s, t)  BY <1>3, <1>5, <1>13, <1>17 DEF SameDoc, state
  <2> QED  BY <1>13, <1>14, <1>15, <2>1 DEF Silenced, r
<1> QED  BY <1>16, <1>17

\* T2 is started, and not T4.
LEMMA T2Started ==
  ASSUME NEW s, Fields \subseteq DOMAIN s
  PROVE  LET t == StartT2(s) IN
         /\ Fields \subseteq DOMAIN t /\ SameModems(s, t) /\ SameTalk(s, t) /\ SameDoc(s, t)
         /\ t.buffer = s.buffer /\ t.on = s.on /\ t.tx_end = s.tx_end
         /\ t.retries = s.retries /\ t.current_status = s.current_status /\ t.timer_t0_t1 = s.timer_t0_t1
         /\ t.far_end_detected = s.far_end_detected
         /\ t.timer_t2_t4 = TRUE /\ t.timer_is_t4 = FALSE /\ t.waited = FALSE
BY DEF StartT2, Fields, SameModems, SameTalk, SameDoc

\* Only the status is set.
LEMMA StatusSet ==
  ASSUME NEW s, NEW status, Fields \subseteq DOMAIN s
  PROVE  LET t == [s EXCEPT !.current_status = status] IN
         /\ Fields \subseteq DOMAIN t /\ SameMachine(s, t) /\ SameDoc(s, t) /\ t.retries = s.retries
         /\ t.current_status = status
BY DEF Fields, SameMachine, SameModems, SameTalk, SameTimers, SameDoc

\* A page has been heard to its end.
LEMMA PageDown ==
  ASSUME NEW s, NEW status \in {"OK", "NOCARRIER", "ERROR"}, EndInv(s), s.hears # "no", s.state = "F_DOC",
         s.ecm = FALSE, s.phase = "C_NON_ECM_RX"
  PROVE  LET r == [Deaf(s) EXCEPT !.current_status = status]
             t == StartT2(SetPhase(SetState(r, "F_POST_DOC_NON_ECM"), "D_RX"))
         IN EndInv(t) /\ t.state = "F_POST_DOC_NON_ECM" /\ t.hears = "no" /\ t.on = "off" /\ SameDoc(s, t) /\ Free(t)
<1> DEFINE d == Deaf(s)
           r == [d EXCEPT !.current_status = status]
           a == SetState(r, "F_POST_DOC_NON_ECM")
           b == SetPhase(a, "D_RX")
           t == StartT2(b)
<1>1. Mode(s) /\ Whole(s) /\ Stands(s) /\ Sides(s) /\ Counts(s)  BY Parts DEF EndInv
<1>2. Free(s) /\ Empty(s)  BY <1>1 DEF Mode, InF_DOC
<1>3. /\ Fields \subseteq DOMAIN d /\ d.hears = "no" /\ d.rx_signal_present = FALSE
      /\ d.phase = s.phase /\ SameTalk(s, d) /\ SameDoc(s, d) /\ SameCall(s, d)
      /\ d.buffer = s.buffer /\ d.on = "off" /\ Ready(d)
  BY DeafFacts
<1> HIDE DEF d
<1>4. /\ Fields \subseteq DOMAIN r /\ SameMachine(d, r) /\ SameDoc(d, r) /\ r.retries = d.retries
      /\ r.current_status = status
  BY <1>3, StatusSet
<1> HIDE DEF r
<1>5. Ready(r)  BY <1>3, <1>4, MachineKept
<1>6. r.state = "F_DOC" /\ r.buffer = NoFrame /\ r.next_phase = "IDLE" /\ r.phase = "C_NON_ECM_RX" /\ r.on = "off"
  BY <1>2, <1>3, <1>4 DEF SameMachine, SameModems, SameTalk, Free, Empty
<1>7. /\ Fields \subseteq DOMAIN a /\ a.state = "F_POST_DOC_NON_ECM" /\ a.step = 0
      /\ SameModems(r, a) /\ SameCall(r, a) /\ SameDoc(r, a)
      /\ a.buffer = NoFrame /\ a.next_phase = "IDLE" /\ a.on = "off" /\ a.tx_end = r.tx_end
  BY <1>4, <1>6, StateSet
<1> HIDE DEF a
<1>8. Moved(a, b, "D_RX") /\ SameTimers(a, b) /\ b.hears = "no" /\ b.tx_end = a.tx_end
      /\ b.far_end_detected = a.far_end_detected
  <2>1. Tuned(a) /\ Signals(a)
    <3>1. Radio(a) /\ Signals(a)  BY <1>5, <1>6, <1>7, ModemsKept DEF Ready
    <3> QED  BY <3>1 DEF Radio
  <2>2. a.tx_end \in BOOLEAN  BY <1>5, <1>7 DEF Ready
  <2>3. a.phase \in Receiving  BY <1>6, <1>7 DEF SameModems, Receiving
  <2>4. "D_RX" \in Listening  BY DEF Listening
  <2> QED  BY <1>7, <2>1, <2>2, <2>3, <2>4, ListenPhase
<1> HIDE DEF b
<1>9. Fields \subseteq DOMAIN b /\ Radio(b) /\ Signals(b) /\ Quiet(a, b) /\ b.phase = "D_RX" /\ b.on = "off"
  BY <1>8 DEF Moved
<1>10. /\ Fields \subseteq DOMAIN t /\ SameModems(b, t) /\ SameTalk(b, t) /\ SameDoc(b, t)
       /\ t.buffer = b.buffer /\ t.on = b.on /\ t.tx_end = b.tx_end
       /\ t.retries = b.retries /\ t.current_status = b.current_status /\ t.timer_t0_t1 = b.timer_t0_t1
       /\ t.far_end_detected = b.far_end_detected
       /\ t.timer_t2_t4 = TRUE /\ t.timer_is_t4 = FALSE /\ t.waited = FALSE
  BY <1>9, T2Started
<1> HIDE DEF t
<1>11. Radio(t) /\ Signals(t)  BY <1>9, <1>10, ModemsKept
<1>12. t.state = "F_POST_DOC_NON_ECM" /\ t.step = 0 /\ Free(t) /\ Empty(t) /\ t.phase = "D_RX" /\ t.hears = "no" /\ t.on = "off"
  BY <1>7, <1>8, <1>9, <1>10 DEF SameTalk, SameModems, Quiet, Free, Empty
<1>13. SameDoc(s, t)  BY <1>3, <1>4, <1>7, <1>9, <1>10 DEF SameDoc, Quiet
<1>14. /\ t.retries = s.retries /\ t.current_status = status /\ t.timer_t0_t1 = s.timer_t0_t1
       /\ t.far_end_detected = s.far_end_detected /\ t.tx_end = r.tx_end
  BY <1>3, <1>4, <1>7, <1>8, <1>9, <1>10 DEF SameMachine, SameCall, Quiet
<1>15. Ready(t)
  <2>1. t.tx_end \in BOOLEAN  BY <1>5, <1>14 DEF Ready
  <2>2. t.far_end_detected \in BOOLEAN /\ t.timer_t0_t1 \in BOOLEAN  BY <1>1, <1>14 DEF Counts
  <2> QED  BY <1>10, <1>11, <1>12, <2>1, <2>2 DEF Ready
<1>16. Whole(t)
  <2>1. t.timer_t2_t4 \in BOOLEAN /\ t.timer_is_t4 \in BOOLEAN /\ t.waited \in BOOLEAN  BY <1>10
  <2>2. t.current_status \in {"OK", "NOCARRIER", "ERROR"}  BY <1>14
  <2> QED  BY <1>1, <1>13, <1>14, <2>1, <2>2 DEF Whole, SameDoc
<1>17. Stands(t)
  <2>1. t.rx_file = TRUE /\ t.ecm = t.ecm_allowed /\ t.retries <= Tries /\ t.page <= Pages
    BY <1>1, <1>13, <1>14 DEF Stands, SameDoc, ReceiveStates, Over
  <2>2. t.timer_t0_t1 = FALSE  BY <1>1, <1>14 DEF Sides, Counts
  <2>3. t.state \notin SendStates  BY <1>12 DEF SendStates
  <2> QED  BY <1>12, <2>1, <2>2, <2>3 DEF Stands
<1>18. t.step \in 0 .. 4 /\ t.next_phase \in Phases \cup {"IDLE"}  BY <1>12 DEF Free
<1>19. Sides(t) /\ Counts(t)  BY <1>15, <1>16, <1>17, <1>18, Joined
<1>20. t.ecm = FALSE /\ t.timer_is_t4 = FALSE  BY <1>10, <1>13 DEF SameDoc
<1>21. Mode(t)
  <2>1. InF_POST_DOC_NON_ECM(t)  BY <1>12, <1>20 DEF InF_POST_DOC_NON_ECM
  <2> QED  BY <1>12, <2>1 DEF Mode, States
<1>22. Carries(t)  BY <1>12 DEF Carries, Empty, NoFrame
<1>23. EndInv(t)  BY <1>10, <1>11, <1>19, <1>21, <1>22 DEF EndInv
<1> QED  BY <1>12, <1>13, <1>23 DEF t, b, a, r, d

\* An end whose status alone changes.
LEMMA StatusEnd ==
  ASSUME NEW s, NEW t, EndInv(s), Fields \subseteq DOMAIN t, SameMachine(s, t), SameDoc(s, t), t.retries = s.retries,
         t.current_status \in {"OK", "NOCARRIER", "ERROR"}
  PROVE  EndInv(t)
<1>1. Radio(s) /\ Signals(s) /\ Mode(s) /\ Sides(s) /\ Counts(s) /\ Carries(s)  BY DEF EndInv
<1>2. SameModems(s, t) /\ SameTalk(s, t) /\ t.buffer = s.buffer /\ t.on = s.on /\ t.tx_end = s.tx_end
      /\ t.far_end_detected = s.far_end_detected /\ t.timer_t0_t1 = s.timer_t0_t1 /\ SameTimers(s, t)
  BY DEF SameMachine
<1>3. Radio(t) /\ Signals(t)  BY <1>1, <1>2, ModemsKept
<1>4. Mode(t)
  <2>1. SameMode(s, t)  BY <1>2 DEF SameMode, SameModems, SameTalk, SameTimers, SameDoc
  <2> QED  BY <1>1, <1>2, <2>1, ModeKept
<1>5. Sides(t)  BY <1>1, <1>2, SidesKept DEF SameTalk
<1>6. Counts(t)  BY <1>1, <1>2 DEF Counts, SameTalk, SameDoc, SameTimers
<1>7. Carries(t)  BY <1>1, <1>2 DEF Carries, SameTalk, SameDoc, FcdFrame, PpsFrame
<1> QED  BY <1>3, <1>4, <1>5, <1>6, <1>7 DEF EndInv

\* The carrier goes down in any state that may have heard one.
LEMMA SilencedEnd ==
  ASSUME NEW s, NEW bits \in BOOLEAN, NEW good \in BOOLEAN, EndInv(s), s.hears # "no",
         bits <=> s.hears # "v21" /\ ~s.rx_hdlc
  PROVE  Silenced(s, CarrierDown(s, bits, good))
<1> DEFINE r == Deaf(s)
           t == CarrierDown(s, bits, good)
           ok == IF s.current_status = "NOCARRIER" THEN "OK" ELSE s.current_status
<1>1. EndInv(s) /\ Mode(s) /\ Signals(s) /\ Sides(s) /\ Counts(s)  BY DEF EndInv
<1>2. /\ Fields \subseteq DOMAIN r /\ r.hears = "no" /\ r.phase = s.phase /\ SameTalk(s, r) /\ SameDoc(s, r)
      /\ SameCall(s, r) /\ r.buffer = s.buffer /\ r.on = "off"
  BY DeafFacts
<1>3. s.rx_hdlc \in BOOLEAN /\ s.hears \in {"v21", "fast", "noise"}
  BY <1>1, HearerWaits DEF Signals
<1>4. ASSUME NEW u, EndInv(u), u.state = s.state, u.buffer = s.buffer, u.timer_t2_t4 = s.timer_t2_t4, SameDoc(s, u),
             u.hears = "no", u.on = "off"
      PROVE  Silenced(s, u)
  BY <1>4 DEF Silenced, SameDoc
<1>5. CASE ~bits /\ Free(s)
  <2>1. r.next_phase = "IDLE"  BY <1>2, <1>5 DEF SameTalk, Free
  <2>2. t = r  BY <1>5, <2>1 DEF CarrierDown, NextPhase, Deaf
  <2>3. EndInv(r)  BY <1>1, <1>5, DeafEnd
  <2>4. Silenced(s, r)
    <3>1. r.state = s.state /\ r.timer_t2_t4 = s.timer_t2_t4  BY <1>2 DEF SameTalk, SameCall, SameTimers
    <3> HIDE DEF r
    <3> QED  BY <1>2, <1>4, <2>3, <3>1
  <2> QED  BY <2>2, <2>4
<1>6. CASE ~Free(s)
  <2>1. ~bits  BY <1>3, <1>6, BitsStates
  <2>2. t = NextPhase(r)  BY <2>1 DEF CarrierDown, Deaf
  <2>3. Enters(s, NextPhase(r))  BY <1>1, <1>6, DeafEnters
  <2> HIDE DEF r, t
  <2>4. Enters(s, t)  BY <2>2, <2>3
  <2>5. EndInv(t)  BY <1>1, <1>6, <2>4, EntersEnd
  <2>6. t.state = s.state /\ t.buffer = s.buffer /\ t.timer_t2_t4 = s.timer_t2_t4 /\ SameDoc(s, t)
        /\ t.hears = "no" /\ t.on = "off"
    BY <2>4 DEF Enters, SameRest, SameTimers, Ready
  <2>7. Silenced(s, t)  BY <1>4, <2>5, <2>6
  <2> QED  BY <2>7 DEF t
<1>7. CASE bits /\ Free(s)
  <2>1. /\ s.hears \in {"fast", "noise"} /\ s.rx_hdlc = FALSE /\ s.phase = "C_NON_ECM_RX"
        /\ s.state = "F_TCF" \/ (s.state = "F_DOC" /\ s.ecm = FALSE)
    BY <1>3, <1>7, BitsStates
  <2>2. s.rx_trained = (s.hears = "fast")  BY <1>1, <1>3 DEF Signals
  <2>3. CASE s.state = "F_TCF" /\ s.hears = "fast"
    <3> DEFINE u == IF good THEN TrainingGood(r) ELSE TrainingBad(r)
    <3>1. Silenced(s, u) /\ Free(u)  BY <1>1, <2>3, TrainingDown
    <3>2. t = NextPhase(u)  BY <1>7, <2>2, <2>3 DEF CarrierDown, Deaf
    <3> HIDE DEF u
    <3>3. t = u  BY <3>1, <3>2 DEF NextPhase, Free
    <3> QED  BY <3>1, <3>3
  <2>4. CASE s.state = "F_TCF" /\ s.hears = "noise"
    <3>1. r.next_phase = "IDLE"  BY <1>2, <1>7 DEF SameTalk, Free
    <3>2. t = r  BY <1>7, <2>2, <2>4, <3>1 DEF CarrierDown, NextPhase, Deaf
    <3>3. EndInv(r)  BY <1>1, <1>7, DeafEnd
    <3>4. r.state = s.state /\ r.timer_t2_t4 = s.timer_t2_t4  BY <1>2 DEF SameTalk, SameCall, SameTimers
    <3> HIDE DEF r, t
    <3>5. Silenced(s, r)  BY <1>2, <1>4, <3>3, <3>4
    <3> QED  BY <3>2, <3>5 DEF t
  <2>5. CASE s.state = "F_DOC" /\ s.hears = "fast"
    <3> DEFINE c == [r EXCEPT !.current_status = ok]
               u == StartT2(SetPhase(SetState(c, "F_POST_DOC_NON_ECM"), "D_RX"))
    <3>1. ok \in {"OK", "NOCARRIER", "ERROR"}  BY <1>1 DEF Counts
    <3>2. t = NextPhase(u)  BY <1>7, <2>2, <2>5 DEF CarrierDown, Deaf
    <3> HIDE DEF ok
    <3>3. EndInv(u) /\ u.state = "F_POST_DOC_NON_ECM" /\ u.hears = "no" /\ u.on = "off" /\ SameDoc(s, u) /\ Free(u)
      BY <1>1, <2>1, <2>5, <3>1, PageDown
    <3> HIDE DEF u, t
    <3>4. t = u  BY <3>2, <3>3 DEF NextPhase, Free
    <3>5. Silenced(s, u)  BY <2>1, <2>5, <3>3 DEF Silenced, SameDoc
    <3> QED  BY <3>4, <3>5 DEF t
  <2>6. CASE s.state = "F_DOC" /\ s.hears = "noise"
    <3> DEFINE c == [r EXCEPT !.current_status = "NOCARRIER"]
    <3>1. t = NextPhase(c)  BY <1>7, <2>2, <2>6 DEF CarrierDown, Deaf
    <3>2. EndInv(r)  BY <1>1, <1>7, DeafEnd
    <3>3. r.next_phase = "IDLE" /\ r.state = s.state /\ r.timer_t2_t4 = s.timer_t2_t4
      BY <1>2, <1>7 DEF SameTalk, SameCall, SameTimers, Free
    <3> HIDE DEF r
    <3>4. Fields \subseteq DOMAIN c /\ SameMachine(r, c) /\ SameDoc(r, c) /\ c.retries = r.retries
          /\ c.current_status = "NOCARRIER"
      BY <1>2, StatusSet
    <3> HIDE DEF c, t
    <3>5. EndInv(c)  BY <3>2, <3>4, StatusEnd
    <3>6. c.state = s.state /\ c.buffer = s.buffer /\ c.timer_t2_t4 = s.timer_t2_t4 /\ SameDoc(s, c)
          /\ c.hears = "no" /\ c.on = "off" /\ c.next_phase = "IDLE"
      BY <1>2, <3>3, <3>4 DEF SameMachine, SameModems, SameTalk, SameTimers, SameDoc
    <3>7. t = c  BY <3>1, <3>6 DEF NextPhase
    <3>8. Silenced(s, c)  BY <1>4, <3>5, <3>6
    <3> QED  BY <3>7, <3>8 DEF t
  <2> QED  BY <2>1, <2>3, <2>4, <2>5, <2>6
<1> QED  BY <1>5, <1>6, <1>7

\* The signal that an end heard has ended.
LEMMA CarrierCall ==
  ASSUME NEW p, NEW q, NEW t, Call(p, q), Silenced(p, t), p.hears # "no", q.on = "off"
  PROVE  Call(t, q) /\ t.state # "ANSWERING" /\ t.tx_file = p.tx_file
<1>1. EndInv(p) /\ EndInv(q) /\ Match(p, q) /\ Pair(p, q) /\ Pair(q, p)  BY DEF Call
<1>2. p.on = "off" /\ p.phase \in Hearing /\ p.state # "ANSWERING"  BY <1>1, HearerWaits
<1>3. EndInv(t) /\ t.hears = "no" /\ t.on = "off" /\ t.tx_file = p.tx_file /\ t.ecm_allowed = p.ecm_allowed
      /\ t.ecm = p.ecm
  BY DEF Silenced
<1>4. \/ t.state = p.state /\ t.buffer = p.buffer /\ t.timer_t2_t4 = p.timer_t2_t4
      \/ p.state = "F_TCF" /\ p.hears = "fast" /\ t.state \in {"F_CFR", "F_FTT"}
      \/ p.state = "F_DOC" /\ p.ecm = FALSE /\ t.state = "F_POST_DOC_NON_ECM"
  BY DEF Silenced
<1>5. p.state = "F_DOC" => p.ecm = p.ecm_allowed  BY <1>1 DEF EndInv, Sides, ReceiveStates
<1>6. p.state = "F_TCF" /\ p.hears = "fast" => q.state \notin {"D", "D_TCF"}
  BY <1>1 DEF Pair, Training
<1>7. ~Ended(p)  BY <1>2 DEF Ended
<1>8. Alone(p, q, t)
  <2>1. t.state \in Taking => t.state = p.state \/ q.state \notin {"D", "D_TCF"}
    BY <1>4, <1>6 DEF Taking
  <2>2. p.state = "F_DOC" /\ p.ecm_allowed = TRUE => t.state = "F_DOC" \/ Restarted(t)
    BY <1>4, <1>5
  <2>3. (Restarted(p) => Restarted(t)) /\ (Unbegun(p) => Unbegun(t))
    BY <1>4 DEF Restarted, Unbegun, Over
  <2>4. t.state \in {"D", "D_TCF", "ANSWERING", "T", "R"} => t.state = p.state  BY <1>4
  <2> QED  BY <1>2, <1>3, <1>7, <2>1, <2>2, <2>3, <2>4 DEF Alone
<1>9. Turns(t, q)  BY <1>3 DEF Turns
<1>10. Continues(t, q)
  <2>1. Continues(p, q)  BY <1>1 DEF Pair
  <2>2. t.state \in {"IV_CTC", "C"} => t.state = p.state /\ t.buffer = p.buffer /\ t.timer_t2_t4 = p.timer_t2_t4
    BY <1>4
  <2> QED  BY <2>1, <2>2 DEF Continues, NoTimer
<1>11. t.state # "ANSWERING"  BY <1>2, <1>4
<1> QED  BY <1>3, <1>8, <1>9, <1>10, <1>11, AloneCall

\* What waits changes nothing else.
LEMMA WaitedCall ==
  ASSUME NEW p, NEW q, NEW waited \in BOOLEAN, Call(p, q)
  PROVE  LET t == [q EXCEPT !.waited = waited] IN
         Call(p, t) /\ t.state = q.state /\ t.phase = q.phase /\ t.tx_file = q.tx_file
<1> DEFINE t == [q EXCEPT !.waited = waited]
<1>1. EndInv(p) /\ EndInv(q) /\ Match(p, q) /\ Pair(p, q) /\ Pair(q, p)  BY DEF Call
<1>2. Fields \subseteq DOMAIN q /\ Radio(q) /\ Signals(q) /\ Mode(q) /\ Sides(q) /\ Counts(q) /\ Carries(q)
  BY <1>1 DEF EndInv
<1>3. Fields \subseteq DOMAIN t /\ SameModems(q, t) /\ SameTalk(q, t) /\ SameDoc(q, t)
  BY <1>2 DEF Fields, SameModems, SameTalk, SameDoc
<1>4. /\ t.buffer = q.buffer /\ t.on = q.on /\ t.tx_end = q.tx_end /\ t.retries = q.retries
      /\ t.current_status = q.current_status /\ t.timer_t0_t1 = q.timer_t0_t1
      /\ t.far_end_detected = q.far_end_detected /\ t.timer_t2_t4 = q.timer_t2_t4
      /\ t.timer_is_t4 = q.timer_is_t4 /\ t.waited = waited
  BY <1>2 DEF Fields
<1> HIDE DEF t
<1>5. Radio(t) /\ Signals(t)  BY <1>2, <1>3, <1>4, ModemsKept
<1>6. Mode(t)
  <2>1. SameMode(q, t)  BY <1>3, <1>4 DEF SameMode, SameModems, SameTalk, SameDoc
  <2> QED  BY <1>2, <1>4, <2>1, ModeKept
<1>7. Sides(t)  BY <1>2, <1>3, <1>4, SidesKept DEF SameTalk
<1>8. Counts(t)  BY <1>2, <1>3, <1>4 DEF Counts, SameTalk, SameDoc
<1>9. Carries(t)  BY <1>2, <1>3, <1>4 DEF Carries, SameTalk, SameDoc, FcdFrame, PpsFrame
<1>10. EndInv(t)  BY <1>3, <1>5, <1>6, <1>7, <1>8, <1>9 DEF EndInv
<1>11. /\ t.state = q.state /\ t.hears = q.hears /\ t.next_phase = q.next_phase
       /\ t.ecm_allowed = q.ecm_allowed /\ t.tx_file = q.tx_file /\ t.phase = q.phase
       /\ t.ecm_len = q.ecm_len /\ t.ecm_current_frame = q.ecm_current_frame
  BY <1>3 DEF SameModems, SameTalk, SameDoc
<1>12. Match(p, t)  BY <1>1, <1>11 DEF Match
<1>13. Turns(t, p) /\ Turns(p, t)  BY <1>1, <1>4, <1>11 DEF Pair, Turns, Spent, Empty, NoTimer
<1>14. BlockSent(t, p) /\ BlockSent(p, t)  BY <1>1, <1>4, <1>11 DEF Pair, BlockSent, RestSent
<1>15. Continues(t, p) /\ Continues(p, t)
  BY <1>1, <1>4, <1>11 DEF Pair, Continues, Restarted, NoTimer, Ended, Empty
<1>16. Training(t, p) /\ Training(p, t)  BY <1>1, <1>4, <1>11 DEF Pair, Training
<1>17. Opening(t, p) /\ Opening(p, t)  BY <1>1, <1>11 DEF Pair, Opening
<1> QED  BY <1>1, <1>10, <1>11, <1>12, <1>13, <1>14, <1>15, <1>16, <1>17 DEF Call, Pair, t

-----------------------------------------------------------------------------
(* T4                                                                       *)

\* An end that sends flags has nothing to say yet.
LEMMA FlagsState ==
  ASSUME NEW s, EndInv(s), s.on # "off", ~Sending(s)
  PROVE  s.state \in {"T", "CALL_FINISHED"} /\ s.tx_end = FALSE /\ s.on = "frames" /\ Empty(s)
<1>1. Mode(s) /\ Radio(s) /\ Signals(s) /\ Counts(s)  BY DEF EndInv
<1>2. s.tx \in {"v21", "fast"} /\ s.transmit = TRUE  BY <1>1 DEF Signals, Radio
<1>3. s.tx_hdlc /\ s.on = "frames" /\ Empty(s) /\ ~s.tx_end  BY <1>2 DEF Sending, Empty
<1>4. s.tx_end = FALSE  BY <1>1, <1>3 DEF Counts
<1>5. s.buffer.type = "none" /\ \A type : type # "none" => s.buffer # Simple(type)
  BY <1>3 DEF Empty, NoFrame, Simple
<1>6. ~Ended(s)  BY <1>4 DEF Ended
<1>7. s.phase \in {"B_TX", "D_TX", "C_ECM_TX"}
  BY <1>1, <1>2, <1>3 DEF Radio, Tuned, Modems, Listening, Talking, Phases, TxPhases
<1>8. s.state \notin {"ANSWERING", "D_TCF", "D_POST_TCF", "I", "IV_CTC", "F_TCF", "F_DOC", "F_POST_DOC_NON_ECM", "B"}
  BY <1>1, <1>7 DEF Mode, InAnswering, InD_TCF, InD_POST_TCF, InI, InIV_CTC, InF_TCF, InF_DOC,
     InF_POST_DOC_NON_ECM, InB, Listening
<1>9. s.state # "F_POST_DOC_ECM"  BY <1>1, <1>7 DEF Mode, InF_POST_DOC_ECM
<1>10. s.state \notin {"R", "D"}
  <2>1. s.buffer # DisFrame(s) /\ s.buffer # DcsFrame(s)
    BY <1>5 DEF DisFrame, DcsFrame
  <2> QED  BY <1>1, <1>5, <1>6, <1>7, <2>1 DEF Mode, InR, InD, Listening
<1>11. \A phase, types : "none" \notin types => ~Command(s, phase, types)  BY <1>5, <1>6 DEF Command
<1>12. \A types : "none" \notin types => ~Answer(s, types)
  BY <1>5, <1>7, <1>11 DEF Answer, Hearing, Listening, Receiving
<1>13. \A phase : phase \in Listening => ~Asked(s, phase)  BY <1>7 DEF Asked, Listening
<1>14. s.state \notin {"II_Q", "IV_PPS_NULL", "IV_PPS_Q", "F_CFR", "F_FTT"}
  <2>1. CheckNextTxStep(s) # "none"  BY DEF CheckNextTxStep
  <2> QED  BY <1>1, <1>11, <1>13, <2>1 DEF Mode, InII_Q, InIV_PPS, InF_CFR, InF_FTT, Listening
<1>15. s.state # "IV"
  BY <1>1, <1>5, <1>7, <1>11 DEF Mode, InIV, Listening
<1>16. s.state \notin {"F_POST_RCP_MCF", "F_POST_RCP_PPR", "III_Q_MCF", "III_Q_RTP", "III_Q_RTN", "C"}
  BY <1>1, <1>12 DEF Mode, InIII, InC
<1>17. s.state \in {"T", "CALL_FINISHED"}
  BY <1>1, <1>8, <1>9, <1>10, <1>14, <1>15, <1>16 DEF Mode, States
<1> QED  BY <1>3, <1>4, <1>17

\* An end that waits with T4.
LEMMA T4States ==
  ASSUME NEW s, EndInv(s), ~Finished(s), ~Sending(s), s.timer_t2_t4 = TRUE, s.timer_is_t4 = TRUE
  PROVE  /\ s.on = "off" /\ s.phase \in Hearing
         /\ \/ s.state = "R" /\ s.phase = "B_RX" /\ Free(s) /\ Empty(s) /\ s.step = 3
            \/ s.state = "D" /\ s.phase = "B_RX" /\ Free(s) /\ s.step = 2 /\ s.buffer = Simple("TSI")
            \/ s.state = "D_POST_TCF" /\ s.phase = "B_RX" /\ Free(s) /\ Empty(s) /\ s.step = 0
            \/ s.state = "F_FTT" /\ Asked(s, "B_RX")
            \/ s.state \in {"II_Q", "IV_PPS_NULL", "IV_PPS_Q"} /\ Asked(s, "D_RX")
            \/ s.state = "IV_CTC" /\ s.phase = "D_RX" /\ Free(s) /\ s.step = 0 /\ s.buffer = Simple("CTC")
            \/ s.state = "C" /\ Held(s, "D_TX") /\ s.step = 0 /\ s.buffer.type \in {"DCN", "TSI", "CTC"}
<1>1. Mode(s) /\ Radio(s) /\ Signals(s) /\ Counts(s)  BY DEF EndInv
<1>2. s.phase \notin Talking \/ (s.tx_end = FALSE /\ Empty(s))
  <2>1. SUFFICES ASSUME s.phase \in Talking PROVE s.tx_end = FALSE /\ Empty(s)  OBVIOUS
  <2>2. s.tx = "v21" /\ s.transmit = TRUE  BY <1>1, <2>1 DEF Radio, Tuned, Modems
  <2>3. s.on # "off"  BY <2>2 DEF Sending
  <2> QED  BY <2>3, FlagsState
<1>3. ~NoTimer(s)  BY DEF NoTimer
<1>4. s.state \notin {"ANSWERING", "T", "D_TCF", "I", "IV", "F_TCF", "F_CFR", "F_DOC", "F_POST_DOC_NON_ECM",
                      "F_POST_DOC_ECM", "B"}
  BY <1>1, <1>3 DEF Mode, InAnswering, InT, InD_TCF, InI, InIV, InF_TCF, InF_CFR, InF_DOC, InF_POST_DOC_NON_ECM,
     InF_POST_DOC_ECM, InB
<1>5. s.state \notin {"F_POST_RCP_MCF", "F_POST_RCP_PPR", "III_Q_MCF", "III_Q_RTP", "III_Q_RTN"}
  BY <1>1, <1>3 DEF Mode, InIII
<1>6. s.state \in {"R", "D", "D_POST_TCF", "F_FTT", "II_Q", "IV_PPS_NULL", "IV_PPS_Q", "IV_CTC", "C"}
  BY <1>1, <1>4, <1>5 DEF Mode, States, Finished
<1>7. s.state = "D" => s.phase = "B_RX" /\ Free(s) /\ s.step = 2 /\ s.buffer = Simple("TSI")
  BY <1>1, <1>3 DEF Mode, InD
<1>8. s.state \in {"II_Q", "IV_PPS_NULL", "IV_PPS_Q"} => Asked(s, "D_RX")
  BY <1>1, <1>3 DEF Mode, InII_Q, InIV_PPS
<1>9. s.state = "F_FTT" => Asked(s, "B_RX")
  BY <1>1, <1>3 DEF Mode, InF_FTT
<1>10. s.phase \notin Talking
  <2>1. s.state \in {"R", "C"} => s.phase \notin Talking
    <3>1. SUFFICES ASSUME s.state \in {"R", "C"}, s.phase \in Talking PROVE FALSE  OBVIOUS
    <3>2. s.tx = "v21" /\ s.transmit = TRUE  BY <1>1, <3>1 DEF Radio, Tuned, Modems
    <3>3. s.on # "off"  BY <3>2 DEF Sending
    <3> QED  BY <3>1, <3>3, FlagsState
  <2> QED  BY <1>1, <1>6, <1>7, <1>8, <1>9, <2>1 DEF Mode, InD_POST_TCF, InIV_CTC, Asked, Talking
<1>11. s.state = "R" => s.phase = "B_RX" /\ Free(s) /\ Empty(s) /\ s.step = 3
  BY <1>1, <1>3, <1>10 DEF Mode, InR, Talking
<1>12. s.state = "C" => /\ Held(s, "D_TX") /\ s.step = 0 /\ s.buffer.type \in {"DCN", "TSI", "CTC"}
                        /\ s.phase \in Hearing
  BY <1>1, <1>10 DEF Mode, InC, Answer, Command, Talking
<1>13. s.state = "D_POST_TCF" => s.phase = "B_RX" /\ Free(s) /\ Empty(s) /\ s.step = 0
  BY <1>1 DEF Mode, InD_POST_TCF
<1>14. s.state = "IV_CTC" => s.phase = "D_RX" /\ Free(s) /\ s.step = 0 /\ s.buffer = Simple("CTC")
  BY <1>1 DEF Mode, InIV_CTC
<1>15. s.phase \in Hearing
  BY <1>6, <1>7, <1>8, <1>9, <1>11, <1>12, <1>13, <1>14 DEF Asked, Hearing, Listening
<1>16. s.on = "off"
  BY <1>1, <1>15 DEF Radio, Tuned, Modems, Signals, Hearing, Listening, Receiving
<1> QED  BY <1>6, <1>7, <1>8, <1>9, <1>11, <1>12, <1>13, <1>14, <1>15, <1>16

\* A receiver, or an end that might be one, that says who it is.
LEMMA ReceiverOpens ==
  ASSUME NEW s, Ready(s), Whole(s), s.phase = "B_TX", Free(s), s.buffer = NoFrame, s.hears = "no",
         s.retries <= Tries, s.page <= Pages, s.page = 1, s.ppr_count <= 3
  PROVE  LET t == SendDis(SetState(s, "R")) IN
         /\ EndInv(t) /\ SameDoc(s, t) /\ t.state = "R" /\ t.on = "off" /\ t.hears = "no"
         /\ t.phase = "B_TX" /\ t.retries = s.retries
<1> DEFINE t == SendDis(SetState(s, "R"))
<1>1. t = Introduction(s, "R", Simple("CSI"), 1)  BY DEF SendDis, Introduction
<1> HIDE DEF t
<1>2. /\ Ready(t) /\ SameModems(s, t) /\ SameCall(s, t) /\ SameDoc(s, t) /\ t.next_phase = s.next_phase
      /\ t.state = "R" /\ t.step = 1 /\ t.buffer = Simple("CSI") /\ t.tx_end = FALSE
  <2>1. Introduces(s, Introduction(s, "R", Simple("CSI"), 1), "R", Simple("CSI"), 1)  BY Introduced
  <2> QED  BY <1>1, <2>1 DEF Introduces
<1>3. t.phase = "B_TX" /\ t.hears = "no" /\ Free(t)  BY <1>2 DEF SameModems, Free
<1>4. SameRest(s, t)  BY <1>2 DEF SameRest, SameCall
<1>5. Whole(t)  BY <1>4, WholeKept
<1>6. t.retries <= Tries /\ t.page <= Pages /\ t.page = 1 /\ t.ppr_count <= 3
  BY <1>4 DEF SameRest, SameDoc
<1>7. Stands(t)  BY <1>2, <1>6 DEF Stands, SendStates, ReceiveStates, AnswerStates
<1>8. Sides(t) /\ Counts(t)
  <2>1. t.step \in 0 .. 4 /\ t.next_phase \in Phases \cup {"IDLE"}  BY <1>2, <1>3 DEF Free
  <2> QED  BY <1>2, <1>5, <1>7, <2>1, Joined
<1>9. Mode(t)
  <2>1. InR(t)  BY <1>2, <1>3 DEF InR
  <2> QED  BY <1>2, <2>1 DEF Mode, States
<1>10. Carries(t)  BY <1>2, <1>6 DEF Carries, Simple
<1>11. EndInv(t)  BY <1>2, <1>8, <1>9, <1>10 DEF EndInv, Ready
<1>12. t.on = "off"  BY <1>2 DEF Ready
<1>13. t.retries = s.retries  BY <1>4 DEF SameRest
<1> QED  BY <1>2, <1>3, <1>11, <1>12, <1>13 DEF t

\* The timer has run out.
Rung(s) == [s EXCEPT !.timer_t2_t4 = FALSE]
RungFacts(s, r) ==
  /\ Fields \subseteq DOMAIN r /\ Ready(r) /\ SameModems(s, r) /\ SameTalk(s, r) /\ SameDoc(s, r)
  /\ r.buffer = s.buffer /\ r.on = "off" /\ r.tx_end = s.tx_end
  /\ r.current_status = s.current_status /\ r.timer_t0_t1 = s.timer_t0_t1
  /\ r.far_end_detected = s.far_end_detected
  /\ NoTimer(r) /\ r.timer_is_t4 = s.timer_is_t4 /\ r.waited = s.waited
Counted(s) == [s EXCEPT !.retries = @ + 1]

\* T2 rings: the timer is off, and the rest is as it was.
LEMMA TimerRings ==
  ASSUME NEW s, EndInv(s), s.on = "off"
  PROVE  RungFacts(s, Rung(s)) /\ Rung(s).retries = s.retries
<1> DEFINE r == Rung(s)
<1>1. Fields \subseteq DOMAIN s /\ Radio(s) /\ Signals(s) /\ Counts(s)  BY DEF EndInv
<1>2. /\ Fields \subseteq DOMAIN r /\ SameModems(s, r) /\ SameTalk(s, r)
      /\ r.buffer = s.buffer /\ r.on = "off" /\ r.tx_end = s.tx_end
  BY <1>1 DEF Rung, Fields, SameModems, SameTalk
<1>3. /\ r.current_status = s.current_status /\ r.timer_t0_t1 = s.timer_t0_t1
      /\ r.far_end_detected = s.far_end_detected
      /\ NoTimer(r) /\ r.timer_is_t4 = s.timer_is_t4 /\ r.waited = s.waited /\ r.retries = s.retries
  BY <1>1 DEF Rung, Fields, NoTimer
<1>4. SameDoc(s, r)  BY <1>1 DEF Rung, Fields, SameDoc
<1> HIDE DEF r
<1>5. Radio(r) /\ Signals(r)  BY <1>1, <1>2, ModemsKept
<1>6. Ready(r)  BY <1>1, <1>2, <1>3, <1>5 DEF Ready, Counts
<1>7. RungFacts(s, r)  BY <1>2, <1>3, <1>4, <1>6 DEF RungFacts
<1> QED  BY <1>3, <1>7 DEF r

\* T4 rings, and one more retry is counted.
LEMMA T4Rings ==
  ASSUME NEW s, EndInv(s), s.on = "off"
  PROVE  RungFacts(s, Counted(Rung(s))) /\ Counted(Rung(s)).retries = s.retries + 1
<1> DEFINE a == Rung(s)
           r == Counted(a)
<1>1. RungFacts(s, a) /\ a.retries = s.retries  BY TimerRings
<1> HIDE DEF a
<1>2. Fields \subseteq DOMAIN a /\ Ready(a)  BY <1>1 DEF RungFacts
<1>3. Fields \subseteq DOMAIN r /\ SameMachine(a, r)
  BY <1>2 DEF Counted, Fields, SameMachine, SameModems, SameTalk, SameTimers
<1>4. SameDoc(a, r) /\ r.retries = s.retries + 1 /\ r.current_status = a.current_status
  BY <1>1, <1>2 DEF Counted, Fields, SameDoc
<1> HIDE DEF r
<1>5. Ready(r)  BY <1>2, <1>3, MachineKept
<1>6. RungFacts(s, r)
  BY <1>1, <1>3, <1>4, <1>5 DEF RungFacts, SameMachine, SameModems, SameTalk, SameTimers, SameDoc, NoTimer
<1> QED  BY <1>4, <1>6 DEF r, a

\* An end whose timer has rung keeps its side and its counts, the retries among them.
LEMMA RungWhole ==
  ASSUME NEW s, NEW r, EndInv(s), RungFacts(s, r), r.retries \in 0 .. Tries + 1
  PROVE  Whole(r)
<1>1. Whole(s)  BY Parts DEF EndInv
<1>2. SameDoc(s, r) /\ r.current_status = s.current_status /\ r.timer_is_t4 = s.timer_is_t4 /\ r.waited = s.waited
      /\ r.timer_t2_t4 = FALSE
  BY DEF RungFacts, NoTimer
<1> QED  BY <1>1, <1>2 DEF Whole, SameDoc

\* The end has given up, says its last command again, or waits on.
Again(s, t) ==
  /\ EndInv(t) /\ t.on = "off" /\ SameDoc(s, t) /\ NoTimer(t)
  /\ \/ t.state = s.state /\ t.buffer = s.buffer /\ t.hears = s.hears /\ t.next_phase = s.next_phase
        /\ t.timer_is_t4 = TRUE /\ t.retries <= Tries
     \/ t.state = s.state /\ t.hears = "no" /\ t.buffer.type \in {"CSI", "MPS", "EOP", "PPS", "FTT"} /\ s.state # "C"
     \/ /\ t.state = "C" /\ (t.hears = s.hears \/ t.hears = "no")
        /\ t.timer_is_t4 = TRUE
        /\ t.buffer = IF s.buffer = NoFrame THEN Simple("DCN") ELSE s.buffer

\* What can be said again.
Repeats(s) == s.state \in {"R", "D", "D_POST_TCF", "F_FTT", "II_Q", "IV_PPS_NULL", "IV_PPS_Q", "IV_CTC", "C"}

\* After the last retry the end sends DCN.
LEMMA T4GivesUp ==
  ASSUME NEW s, EndInv(s), ~Finished(s), ~Sending(s), s.timer_t2_t4 = TRUE, s.timer_is_t4 = TRUE, s.retries <= Tries
  PROVE  Again(s, SendDcn(Fail(Counted(Rung(s)))))
<1> DEFINE r == Counted(Rung(s))
           f == Fail(r)
           t == SendDcn(f)
<1>1. Mode(s) /\ Signals(s) /\ Counts(s)  BY DEF EndInv
<1>2. /\ s.on = "off" /\ s.phase \in Hearing
      /\ s.buffer = NoFrame \/ s.buffer.type \in {"DCN", "TSI", "CTC"}
      /\ s.state = "C" => s.step = 0
      /\ s.rx_signal_present = TRUE => s.hears = "v21"
  <2>1. s.on = "off" /\ s.phase \in Hearing  BY T4States
  <2>2. s.buffer = NoFrame \/ s.buffer.type \in {"DCN", "TSI", "CTC"}
    <3>1. Simple("TSI").type = "TSI" /\ Simple("CTC").type = "CTC"  BY DEF Simple
    <3>2. \/ s.buffer = NoFrame \/ s.buffer = Simple("TSI") \/ s.buffer = Simple("CTC")
          \/ s.buffer.type \in {"DCN", "TSI", "CTC"}
      BY T4States DEF Empty, Asked
    <3> QED  BY <3>1, <3>2
  <2>3. s.state = "C" => s.step = 0  BY T4States
  <2>4. s.rx_signal_present = TRUE => s.hears = "v21"
    <3>1. s.phase \in Listening \/ s.hears = "v21"  BY T4States DEF Asked, Held, Listening
    <3>2. s.phase \in Listening => s.rx = "v21"  BY <1>1 DEF EndInv, Radio, Tuned, Modems
    <3> QED  BY <1>1, <3>1, <3>2 DEF Signals
  <2> QED  BY <2>1, <2>2, <2>3, <2>4
<1>3. RungFacts(s, r) /\ r.retries = s.retries + 1  BY <1>2, T4Rings
<1> HIDE DEF r
<1>4. Whole(r)
  <2>1. r.retries \in 0 .. Tries + 1
    <3>1. s.retries \in Nat /\ Tries \in Nat  BY <1>1, T30Assumption DEF Counts
    <3> QED  BY <1>3, <3>1
  <2> QED  BY <1>3, <2>1, RungWhole
<1>5. Fields \subseteq DOMAIN r /\ Ready(r)  BY <1>3 DEF RungFacts
<1>6. /\ Fields \subseteq DOMAIN f /\ SameMachine(r, f) /\ SameDoc(r, f) /\ f.retries = r.retries
      /\ f.current_status = "ERROR"
  BY <1>5, FailFacts
<1> HIDE DEF f
<1>7. Ready(f) /\ Whole(f)
  <2>1. Ready(f)  BY <1>5, <1>6, MachineKept
  <2>2. SameTimers(r, f)  BY <1>6 DEF SameMachine
  <2> QED  BY <1>4, <1>6, <2>1, <2>2, WholeFailed
<1>8. /\ f.phase = s.phase /\ f.hears = s.hears /\ f.rx_signal_present = s.rx_signal_present
      /\ f.state = s.state /\ f.step = s.step /\ f.buffer = s.buffer
      /\ NoTimer(f) /\ f.timer_is_t4 = TRUE
  BY <1>3, <1>6 DEF RungFacts, SameMachine, SameModems, SameTalk, SameTimers, NoTimer
<1>9. /\ EndInv(t) /\ SameRest(f, t) /\ t.state = "C" /\ t.on = "off" /\ Turned(f, t, "D_TX")
      /\ t.buffer = IF f.buffer = NoFrame THEN Simple("DCN") ELSE f.buffer
  BY <1>2, <1>7, <1>8, DcnSent
<1> HIDE DEF t
<1>10. NoTimer(t) /\ t.timer_is_t4 = TRUE  BY <1>8, <1>9 DEF SameRest, SameTimers, NoTimer
<1>11. SameDoc(s, t)  BY <1>3, <1>6, <1>9 DEF RungFacts, SameRest, SameDoc
<1>12. t.hears = s.hears \/ t.hears = "no"  BY <1>8, <1>9 DEF Turned
<1> QED  BY <1>8, <1>9, <1>10, <1>11, <1>12 DEF Again, t, f, r

\* The states in which nothing is said again.
LEMMA T4Waits ==
  ASSUME NEW s, NEW r, EndInv(s), ~Finished(s), ~Sending(s), s.timer_t2_t4 = TRUE, s.timer_is_t4 = TRUE,
         RungFacts(s, r), r.retries \in 0 .. Tries, s.state \in {"D", "D_POST_TCF", "IV_CTC", "C"}
  PROVE  Again(s, r)
<1>1. Mode(s) /\ Stands(s) /\ Sides(s) /\ Counts(s) /\ Carries(s)  BY Parts DEF EndInv
<1>2. /\ Fields \subseteq DOMAIN r /\ Ready(r) /\ SameModems(s, r) /\ SameTalk(s, r) /\ SameDoc(s, r)
      /\ r.buffer = s.buffer /\ r.on = "off" /\ r.timer_t0_t1 = s.timer_t0_t1
      /\ NoTimer(r) /\ r.timer_is_t4 = TRUE
  BY DEF RungFacts
<1>3. /\ r.state = s.state /\ r.step = s.step /\ r.next_phase = s.next_phase /\ r.phase = s.phase
      /\ r.hears = s.hears /\ r.rx_signal_present = s.rx_signal_present /\ r.ecm = s.ecm
  BY <1>2 DEF SameModems, SameTalk, SameDoc
<1>4. r.retries <= Tries /\ r.retries \in 0 .. Tries + 1
  <2>1. Tries \in Nat  BY T30Assumption
  <2> QED  BY <2>1
<1>5. Whole(r)  BY <1>4, RungWhole
<1>6. Stands(r)  BY <1>1, <1>2, <1>3, <1>4 DEF Stands, SameDoc
<1>7. Sides(r) /\ Counts(r)
  <2>1. r.step \in 0 .. 4 /\ r.next_phase \in Phases \cup {"IDLE"}  BY <1>1, <1>3 DEF Counts
  <2> QED  BY <1>2, <1>5, <1>6, <2>1, Joined
<1>8. Mode(r)
  <2>1. s.state = "D" => InD(r)
    <3>1. s.state = "D" => s.phase = "B_RX" /\ Free(s) /\ s.step = 2 /\ s.buffer = Simple("TSI")  BY T4States
    <3> QED  BY <1>2, <1>3, <3>1 DEF InD, Free
  <2>2. s.state = "D_POST_TCF" => InD_POST_TCF(r)
    BY <1>1, <1>2, <1>3 DEF Mode, InD_POST_TCF, Free, Empty
  <2>3. s.state = "IV_CTC" => InIV_CTC(r)
    BY <1>1, <1>2, <1>3 DEF Mode, InIV_CTC, Free
  <2>4. s.state = "C" => InC(r)
    <3>1. s.state = "C" => /\ Held(s, "D_TX") /\ s.step = 0 /\ s.buffer.type \in {"DCN", "TSI", "CTC"}
                           /\ s.phase \in Hearing
      BY T4States
    <3> QED  BY <1>2, <1>3, <3>1 DEF InC, Answer, Held
  <2> QED  BY <1>3, <2>1, <2>2, <2>3, <2>4 DEF Mode, States
<1>9. Carries(r)  BY <1>1, <1>2, <1>3 DEF Carries, SameDoc, FcdFrame, PpsFrame
<1>10. EndInv(r)  BY <1>2, <1>7, <1>8, <1>9 DEF EndInv, Ready
<1> QED  BY <1>2, <1>3, <1>4, <1>10 DEF Again

\* An end says its command again.
LEMMA T4Speaks ==
  ASSUME NEW s, NEW r, NEW phase, NEW f, EndInv(s), ~Finished(s), ~Sending(s), s.timer_t2_t4 = TRUE,
         s.timer_is_t4 = TRUE, RungFacts(s, r), r.retries \in 0 .. Tries,
         \/ s.state = "F_FTT" /\ phase = "B_TX" /\ f = Simple("FTT")
         \/ s.state = "II_Q" /\ phase = "D_TX" /\ f = Simple(r.next_tx_step)
         \/ s.state \in {"IV_PPS_NULL", "IV_PPS_Q"} /\ phase = "D_TX" /\ f = PpsFrame(r)
  PROVE  Again(s, SendFrame(SetPhase(r, phase), f))
<1> DEFINE a == SetPhase(r, phase)
           t == SendFrame(a, f)
<1>1. Mode(s) /\ Stands(s) /\ Sides(s) /\ Counts(s) /\ Carries(s)  BY Parts DEF EndInv
<1>2. /\ Fields \subseteq DOMAIN r /\ Ready(r) /\ SameModems(s, r) /\ SameTalk(s, r) /\ SameDoc(s, r)
      /\ r.buffer = s.buffer /\ r.on = "off" /\ r.timer_t0_t1 = s.timer_t0_t1
      /\ NoTimer(r) /\ r.timer_is_t4 = TRUE
  BY DEF RungFacts
<1>3. s.phase \in Listening /\ Free(s) /\ Empty(s) /\ s.step = 1  BY T4States DEF Asked, Listening
<1>4. r.state = s.state /\ r.step = 1 /\ r.next_phase = "IDLE" /\ r.phase = s.phase /\ r.buffer = NoFrame
  BY <1>2, <1>3 DEF SameModems, SameTalk, Free, Empty
<1>5. r.retries <= Tries /\ r.retries \in 0 .. Tries + 1
  <2>1. Tries \in Nat  BY T30Assumption
  <2> QED  BY <2>1
<1>6. Whole(r)  BY <1>5, RungWhole
<1>7. Moved(r, a, phase) /\ SameTimers(r, a) /\ a.hears = "no" /\ a.tx_end = FALSE
      /\ a.far_end_detected = (r.far_end_detected \/ r.timer_t0_t1)
  <2>1. phase \in Talking  BY DEF Talking
  <2>2. r.phase \in Hearing /\ r.phase \notin Calling
    BY <1>3, <1>4 DEF Hearing, Listening, Calling
  <2>3. Tuned(r) /\ Signals(r) /\ r.tx_end \in BOOLEAN /\ r.timer_t0_t1 \in BOOLEAN  BY <1>2 DEF Ready, Radio
  <2> QED  BY <1>2, <2>1, <2>2, <2>3, TalkPhase
<1> HIDE DEF a
<1>8. Fields \subseteq DOMAIN a /\ Radio(a) /\ Signals(a) /\ Quiet(r, a) /\ a.phase = phase /\ a.on = "off"
  BY <1>7 DEF Moved
<1>9. a.buffer = NoFrame  BY <1>4, <1>8 DEF Quiet
<1>10. /\ Fields \subseteq DOMAIN t /\ t.tx_end = FALSE /\ t.buffer = f
       /\ SameModems(a, t) /\ SameTalk(a, t) /\ SameCall(a, t) /\ SameDoc(a, t) /\ t.on = a.on
  BY <1>8, <1>9, FrameTaken
<1> HIDE DEF t
<1>11. Radio(t) /\ Signals(t)  BY <1>8, <1>10, ModemsKept
<1>12. SameDoc(r, t)  BY <1>8, <1>10 DEF Quiet, SameDoc
<1>13. SameRest(r, t)
  BY <1>7, <1>8, <1>10, <1>12 DEF SameRest, SameCall, SameTimers, Quiet
<1>14. t.state = s.state /\ t.step = 1 /\ Free(t) /\ t.phase = phase /\ t.hears = "no" /\ t.on = "off"
  BY <1>4, <1>7, <1>8, <1>10 DEF Quiet, SameTalk, SameModems, Free
<1>15. NoTimer(t) /\ t.timer_t0_t1 = r.timer_t0_t1  BY <1>2, <1>13 DEF SameRest, SameTimers, NoTimer
<1>16. SameDoc(s, t)  BY <1>2, <1>12 DEF SameDoc
<1>17. Ready(t)
  <2>1. a.far_end_detected \in BOOLEAN  BY <1>2, <1>7 DEF Ready
  <2>2. t.far_end_detected = a.far_end_detected  BY <1>10 DEF SameCall
  <2>3. t.tx_end \in BOOLEAN /\ t.timer_t0_t1 \in BOOLEAN  BY <1>2, <1>10, <1>15 DEF Ready
  <2> QED  BY <1>10, <1>11, <1>14, <2>1, <2>2, <2>3 DEF Ready
<1>18. Whole(t)  BY <1>6, <1>13, WholeKept
<1>19. Stands(t)
  BY <1>1, <1>2, <1>5, <1>13, <1>14, <1>15, <1>16 DEF Stands, SameDoc, SameRest
<1>20. Sides(t) /\ Counts(t)
  <2>1. t.step \in 0 .. 4 /\ t.next_phase \in Phases \cup {"IDLE"}  BY <1>14 DEF Free
  <2> QED  BY <1>17, <1>18, <1>19, <2>1, Joined
<1>21. t.next_tx_step = s.next_tx_step /\ r.next_tx_step = s.next_tx_step /\ t.ecm = s.ecm
       /\ t.ecm_at_page_end = s.ecm_at_page_end /\ r.ecm_at_page_end = s.ecm_at_page_end
       /\ CheckNextTxStep(t) = CheckNextTxStep(s)
  BY <1>2, <1>16 DEF SameDoc, CheckNextTxStep
<1>22. \A type : t.buffer.type = type => Command(t, phase, {type})
  BY <1>10, <1>14 DEF Command
<1>23. CASE s.state = "F_FTT"
  <2>1. t.buffer = Simple("FTT") /\ phase = "B_TX"  BY <1>10, <1>23
  <2>2. t.buffer.type = "FTT"  BY <2>1 DEF Simple
  <2>3. InF_FTT(t)  BY <1>15, <1>22, <2>1, <2>2 DEF InF_FTT
  <2>4. Mode(t)  BY <1>14, <1>23, <2>3 DEF Mode, States
  <2>5. Carries(t)  BY <1>14, <1>23, <2>2 DEF Carries
  <2>6. EndInv(t)  BY <1>10, <1>11, <1>20, <2>4, <2>5 DEF EndInv
  <2> QED  BY <1>14, <1>15, <1>16, <1>23, <2>2, <2>6 DEF Again, t, a
<1>24. CASE s.state = "II_Q"
  <2>1. t.buffer = Simple(s.next_tx_step) /\ phase = "D_TX"  BY <1>10, <1>21, <1>24
  <2>2. t.buffer.type = s.next_tx_step  BY <2>1 DEF Simple
  <2>3. s.ecm = FALSE /\ s.next_tx_step = CheckNextTxStep(s)  BY <1>1, <1>24 DEF Mode, InII_Q
  <2>4. InII_Q(t)  BY <1>15, <1>21, <1>22, <2>1, <2>2, <2>3 DEF InII_Q
  <2>5. Mode(t)  BY <1>14, <1>24, <2>4 DEF Mode, States
  <2>6. t.buffer.type \in {"MPS", "EOP"}  BY <2>2, <2>3 DEF CheckNextTxStep
  <2>7. Carries(t)  BY <1>14, <1>24, <2>6 DEF Carries
  <2>8. EndInv(t)  BY <1>10, <1>11, <1>20, <2>5, <2>7 DEF EndInv
  <2> QED  BY <1>14, <1>15, <1>16, <1>24, <2>6, <2>8 DEF Again, t, a
<1>25. CASE s.state \in {"IV_PPS_NULL", "IV_PPS_Q"}
  <2>1. t.buffer = PpsFrame(r) /\ phase = "D_TX"  BY <1>10, <1>25
  <2>2. t.buffer = PpsFrame(t) /\ t.buffer.type = "PPS"  BY <1>21, <2>1 DEF PpsFrame
  <2>3. /\ s.ecm = TRUE /\ s.next_tx_step = CheckNextTxStep(s)
        /\ s.state = "IV_PPS_Q" => s.ecm_at_page_end = TRUE
        /\ s.state = "IV_PPS_NULL" => s.ecm_at_page_end = FALSE
    BY <1>1, <1>25 DEF Mode, InIV_PPS
  <2>4. InIV_PPS(t)  BY <1>14, <1>15, <1>21, <1>22, <2>1, <2>2, <2>3 DEF InIV_PPS
  <2>5. Mode(t)  BY <1>14, <1>25, <2>4 DEF Mode, States
  <2>6. t.ecm_allowed = TRUE  BY <1>1, <1>16, <2>3 DEF Sides, SameDoc
  <2>7. t.next_tx_step \in {"MPS", "EOP"}  BY <1>21, <2>3 DEF CheckNextTxStep
  <2>8. Carries(t)  BY <1>14, <1>25, <2>2, <2>6, <2>7 DEF Carries
  <2>9. EndInv(t)  BY <1>10, <1>11, <1>20, <2>5, <2>8 DEF EndInv
  <2> QED  BY <1>14, <1>15, <1>16, <1>25, <2>2, <2>9 DEF Again, t, a
<1> QED  BY <1>23, <1>24, <1>25

\* A receiver introduces itself again.
LEMMA T4Opens ==
  ASSUME NEW s, NEW r, EndInv(s), ~Finished(s), ~Sending(s), s.timer_t2_t4 = TRUE,
         s.timer_is_t4 = TRUE, RungFacts(s, r), r.retries \in 0 .. Tries, s.state = "R"
  PROVE  Again(s, SendDis(SetPhase(r, "B_TX")))
<1> DEFINE a == SetPhase(r, "B_TX")
           t == SendDis(a)
<1>1. Carries(s)  BY DEF EndInv
<1>2. /\ Fields \subseteq DOMAIN r /\ Ready(r) /\ SameModems(s, r) /\ SameTalk(s, r) /\ SameDoc(s, r)
      /\ r.buffer = s.buffer /\ r.on = "off" /\ NoTimer(r) /\ r.timer_is_t4 = TRUE
  BY DEF RungFacts
<1>3. s.phase = "B_RX" /\ Free(s) /\ Empty(s)  BY T4States
<1>4. r.state = "R" /\ r.next_phase = "IDLE" /\ r.phase = "B_RX" /\ r.buffer = NoFrame
  BY <1>2, <1>3 DEF SameModems, SameTalk, Free, Empty
<1>5. r.retries <= Tries /\ r.retries \in 0 .. Tries + 1
  <2>1. Tries \in Nat  BY T30Assumption
  <2> QED  BY <2>1
<1>6. Whole(r)  BY <1>5, RungWhole
<1>7. Moved(r, a, "B_TX") /\ SameTimers(r, a) /\ a.hears = "no" /\ a.tx_end = FALSE
      /\ a.far_end_detected = (r.far_end_detected \/ r.timer_t0_t1)
  <2>1. "B_TX" \in Talking  BY DEF Talking
  <2>2. r.phase \in Hearing /\ r.phase \notin Calling
    BY <1>4 DEF Hearing, Listening, Calling
  <2>3. Tuned(r) /\ Signals(r) /\ r.tx_end \in BOOLEAN /\ r.timer_t0_t1 \in BOOLEAN  BY <1>2 DEF Ready, Radio
  <2> QED  BY <1>2, <2>1, <2>2, <2>3, TalkPhase
<1> HIDE DEF a
<1>8. Fields \subseteq DOMAIN a /\ Radio(a) /\ Signals(a) /\ Quiet(r, a) /\ a.phase = "B_TX" /\ a.on = "off"
  BY <1>7 DEF Moved
<1>9. a.state = "R" /\ a.buffer = NoFrame /\ Free(a)  BY <1>4, <1>8 DEF Quiet, Free
<1>10. SameRest(r, a)  BY <1>7, <1>8 DEF SameRest, Quiet
<1>11. Ready(a)
  <2>1. a.far_end_detected \in BOOLEAN  BY <1>2, <1>7 DEF Ready
  <2>2. a.tx_end \in BOOLEAN  BY <1>7
  <2>3. a.timer_t0_t1 \in BOOLEAN  BY <1>2, <1>10 DEF Ready, SameRest
  <2> QED  BY <1>8, <2>1, <2>2, <2>3 DEF Ready
<1>12. Whole(a)  BY <1>6, <1>10, WholeKept
<1>13. a.page = 1 /\ a.ppr_count <= 3 /\ a.page <= Pages
  <2>1. s.page = 1 /\ s.ppr_count <= 3  BY <1>1 DEF Carries
  <2>2. Pages \in Nat \ {0}  BY T30Assumption
  <2>3. a.page = s.page /\ a.ppr_count = s.ppr_count  BY <1>2, <1>10 DEF SameRest, SameDoc
  <2> QED  BY <2>1, <2>2, <2>3
<1>14. a.retries <= Tries  BY <1>5, <1>10 DEF SameRest
<1> DEFINE b == SendDis(SetState(a, "R"))
<1>15. t = b  BY <1>9 DEF SetState
<1>16. /\ EndInv(b) /\ SameDoc(a, b) /\ b.state = "R" /\ b.on = "off" /\ b.hears = "no"
       /\ b.phase = "B_TX" /\ b.retries = a.retries
  BY <1>7, <1>8, <1>9, <1>11, <1>12, <1>13, <1>14, ReceiverOpens
<1>17. b.buffer = Simple("CSI") /\ b.timer_t2_t4 = a.timer_t2_t4
  <2>1. Introduces(a, Introduction(a, "R", Simple("CSI"), 1), "R", Simple("CSI"), 1)  BY <1>9, <1>11, Introduced
  <2>2. b = Introduction(a, "R", Simple("CSI"), 1)  BY DEF SendDis, Introduction
  <2> QED  BY <2>1, <2>2 DEF Introduces, SameCall, SameTimers
<1> HIDE DEF b
<1>18. NoTimer(b)  BY <1>2, <1>10, <1>17 DEF NoTimer, SameRest, SameTimers
<1>19. SameDoc(s, b)  BY <1>2, <1>10, <1>16 DEF SameRest, SameDoc
<1>20. b.buffer.type = "CSI"  BY <1>17 DEF Simple
<1>21. Again(s, b)  BY <1>16, <1>18, <1>19, <1>20 DEF Again
<1> QED  BY <1>15, <1>21 DEF t, a

\* Before that it repeats its command, or gives up, as its state asks.
LEMMA T4Repeats ==
  ASSUME NEW s, EndInv(s), ~Finished(s), ~Sending(s), s.timer_t2_t4 = TRUE, s.timer_is_t4 = TRUE,
         s.retries <= Tries
  PROVE  Again(s, T4Expired(Rung(s)))
<1> DEFINE r == Counted(Rung(s))
           t == T4Expired(Rung(s))
<1>1. Counts(s)  BY DEF EndInv
<1>2. s.on = "off"  BY T4States
<1>3. RungFacts(s, r) /\ r.retries = s.retries + 1  BY <1>2, T4Rings
<1>4. t = IF r.retries > Tries THEN SendDcn(Fail(r)) ELSE RepeatLastCommand(r)  BY DEF T4Expired, Counted
<1>5. CASE r.retries > Tries
  <2>1. Again(s, SendDcn(Fail(r)))  BY T4GivesUp
  <2> HIDE DEF r
  <2> QED  BY <1>4, <1>5, <2>1
<1>6. CASE ~(r.retries > Tries)
  <2> HIDE DEF r
  <2>1. r.retries \in 0 .. Tries
    <3>1. s.retries \in Nat /\ Tries \in Nat  BY <1>1, T30Assumption DEF Counts
    <3> QED  BY <1>3, <1>6, <3>1
  <2>2. t = RepeatLastCommand(r)  BY <1>4, <1>6
  <2>3. r.state = s.state  BY <1>3 DEF RungFacts, SameTalk
  <2>4. CASE s.state = "R"
    <3>1. t = SendDis(SetPhase(r, "B_TX"))  BY <2>2, <2>3, <2>4 DEF RepeatLastCommand
    <3> HIDE DEF t
    <3>2. Again(s, SendDis(SetPhase(r, "B_TX")))  BY <1>3, <2>1, <2>4, T4Opens
    <3> QED  BY <3>1, <3>2 DEF t
  <2>5. CASE s.state = "F_FTT"
    <3>1. t = SendFrame(SetPhase(r, "B_TX"), Simple("FTT"))  BY <2>2, <2>3, <2>5 DEF RepeatLastCommand
    <3> HIDE DEF t
    <3>2. Again(s, SendFrame(SetPhase(r, "B_TX"), Simple("FTT")))  BY <1>3, <2>1, <2>5, T4Speaks
    <3> QED  BY <3>1, <3>2 DEF t
  <2>6. CASE s.state = "II_Q"
    <3>1. t = SendFrame(SetPhase(r, "D_TX"), Simple(r.next_tx_step))  BY <2>2, <2>3, <2>6 DEF RepeatLastCommand
    <3> HIDE DEF t
    <3>2. Again(s, SendFrame(SetPhase(r, "D_TX"), Simple(r.next_tx_step)))  BY <1>3, <2>1, <2>6, T4Speaks
    <3> QED  BY <3>1, <3>2 DEF t
  <2>7. CASE s.state \in {"IV_PPS_NULL", "IV_PPS_Q"}
    <3>1. t = SendFrame(SetPhase(r, "D_TX"), PpsFrame(r))  BY <2>2, <2>3, <2>7 DEF RepeatLastCommand
    <3> HIDE DEF t
    <3>2. Again(s, SendFrame(SetPhase(r, "D_TX"), PpsFrame(r)))  BY <1>3, <2>1, <2>7, T4Speaks
    <3> QED  BY <3>1, <3>2 DEF t
  <2>8. CASE s.state \in {"D_POST_TCF", "IV_CTC", "C"}
    <3>1. t = r  BY <2>2, <2>3, <2>8 DEF RepeatLastCommand
    <3> HIDE DEF t
    <3>2. Again(s, r)  BY <1>3, <2>1, <2>8, T4Waits
    <3> QED  BY <3>1, <3>2 DEF t
  <2>9. CASE s.state = "D"
    <3> DEFINE b == SendDcs(r)
    <3>1. t = b  BY <2>2, <2>3, <2>9 DEF RepeatLastCommand
    <3>2. r.step = 2 /\ r.buffer = Simple("TSI") /\ r.buffer # NoFrame
      <4>1. s.step = 2 /\ s.buffer = Simple("TSI")  BY <2>9, T4States
      <4>2. Simple("TSI") # NoFrame  BY DEF Simple, NoFrame
      <4> QED  BY <1>3, <4>1, <4>2 DEF RungFacts, SameTalk
    <3>3. Fields \subseteq DOMAIN r  BY <1>3 DEF RungFacts
    <3>4. Fields \subseteq DOMAIN b /\ SameMachine(r, b)
      BY <3>2, <3>3 DEF SendDcs, SendFrame, Fields, SameMachine, SameModems, SameTalk, SameTimers
    <3>5. SameDoc(r, b) /\ b.retries = r.retries /\ b.current_status = r.current_status
      BY <3>2, <3>3 DEF SendDcs, SendFrame, Fields, SameDoc
    <3> HIDE DEF b, t
    <3>6. RungFacts(s, b)
      <4>1. Ready(b)  BY <1>3, <3>4, MachineKept DEF RungFacts
      <4> QED  BY <1>3, <3>4, <3>5, <4>1 DEF RungFacts, SameMachine, SameModems, SameTalk, SameTimers, SameDoc, NoTimer
    <3>7. Again(s, b)  BY <2>1, <2>9, <3>5, <3>6, T4Waits
    <3> QED  BY <3>1, <3>7 DEF t
  <2> QED  BY <2>4, <2>5, <2>6, <2>7, <2>8, <2>9, T4States
<1> QED  BY <1>5, <1>6

\* T4 runs out in the states that wait for an answer, and in no other.
LEMMA T4Names ==
  ASSUME NEW s, EndInv(s), ~Finished(s), ~Sending(s), s.timer_t2_t4 = TRUE, s.timer_is_t4 = TRUE
  PROVE  s.state \in {"R", "D", "D_POST_TCF", "F_FTT", "II_Q", "IV_PPS_NULL", "IV_PPS_Q", "IV_CTC", "C"}
BY T4States

\* T4 runs out.
LEMMA T4Call ==
  ASSUME NEW p, NEW q, Call(p, q), ~Finished(p), ~Sending(p), p.timer_t2_t4 = TRUE, p.timer_is_t4 = TRUE,
         p.hears = "no" \/ (q.on # "off" /\ ~Sending(q)), q.hears = "no" \/ p.on # "off"
  PROVE  LET a == T4Expired(Rung(p)) IN
         Call(a, q) /\ a.state # "ANSWERING" /\ a.tx_file = p.tx_file /\ Again(p, a)
<1> DEFINE a == T4Expired(Rung(p))
<1>1. EndInv(p) /\ EndInv(q) /\ Match(p, q) /\ Pair(p, q) /\ Pair(q, p)  BY DEF Call
<1>2. p.on = "off" /\ q.hears = "no"  BY <1>1, T4States
<1>3. p.hears = "v21" => q.state = "T" \/ q.state = "CALL_FINISHED"
  BY <1>1, FlagsState
<1>4. p.hears = "v21" => q.state = "T"
  <2>1. q.state = "CALL_FINISHED" => q.on = "off"
    BY <1>1 DEF EndInv, Mode, InFinished, Radio, Tuned, Modems, Signals
  <2> QED  BY <1>3, <2>1
<1>5. p.hears = "v21" => ~Spent(q)
  <2>1. SUFFICES ASSUME p.hears = "v21", Spent(q) PROVE FALSE  OBVIOUS
  <2>2. q.on # "off" /\ q.tx_end = FALSE  BY <1>1, <2>1, FlagsState
  <2> QED  BY <2>1, <2>2 DEF Spent
<1>6. p.retries <= Tries
  <2>1. p.state \notin Over => p.retries <= Tries  BY <1>1 DEF EndInv, Counts
  <2>2. p.state = "C" => p.retries <= Tries
    <3>1. p.state = "C" => p.hears = "v21"  BY <1>1, T4States DEF Held
    <3>2. Turns(p, q)  BY <1>1 DEF Pair
    <3> QED  BY <1>5, <3>1, <3>2 DEF Turns, NoTimer
  <2>3. p.state \notin {"B", "CALL_FINISHED"}  BY <1>1, T4States
  <2> QED  BY <2>1, <2>2, <2>3 DEF Over
<1>7. Again(p, a)  BY <1>1, <1>6, T4Repeats
<1> HIDE DEF a
<1>8. EndInv(a) /\ a.on = "off" /\ SameDoc(p, a) /\ NoTimer(a)  BY <1>7 DEF Again
<1>9. \/ a.state = p.state /\ a.buffer = p.buffer /\ a.hears = p.hears /\ a.next_phase = p.next_phase
         /\ a.timer_is_t4 = TRUE /\ a.retries <= Tries
      \/ a.state = p.state /\ a.hears = "no" /\ a.buffer.type # "CTC" /\ p.state # "C"
      \/ /\ a.state = "C" /\ (a.hears = p.hears \/ a.hears = "no")
         /\ a.timer_is_t4 = TRUE
         /\ a.buffer = IF p.buffer = NoFrame THEN Simple("DCN") ELSE p.buffer
  BY <1>7 DEF Again
<1>10. p.state \in {"R", "D", "D_POST_TCF", "F_FTT", "II_Q", "IV_PPS_NULL", "IV_PPS_Q", "IV_CTC", "C"}
  BY <1>1, T4Names
<1>11. a.state = p.state \/ a.state = "C"  BY <1>9
<1>12. Alone(p, q, a)
  <2>1. a.tx_file = p.tx_file /\ a.ecm_allowed = p.ecm_allowed  BY <1>8 DEF SameDoc
  <2>2. a.state \notin {"F_TCF", "F_POST_DOC_ECM", "D_TCF"} \cup Taking  BY <1>10, <1>11 DEF Taking
  <2>3. (Restarted(p) => Restarted(a)) /\ (Unbegun(p) => Unbegun(a))
    BY <1>11 DEF Restarted, Unbegun, Over
  <2> QED  BY <1>2, <1>8, <1>10, <1>11, <2>1, <2>2, <2>3 DEF Alone
<1>13. p.next_phase # "IDLE" => p.state = "C"
  BY <1>1, T4States DEF Free, Asked
<1>14. Turns(a, q)
  <2>1. a.hears = "v21" => p.hears = "v21"  BY <1>9
  <2>2. a.hears = "v21" /\ a.state # "C" => a.next_phase = "IDLE"  BY <1>9, <1>13
  <2>3. a.hears = "v21" /\ a.state = "C" => a.timer_is_t4 = TRUE /\ q.state = "T" /\ NoTimer(a)
    BY <1>4, <1>8, <1>9, <2>1
  <2> QED  BY <2>2, <2>3 DEF Turns
<1>15. Continues(a, q)
  <2>1. p.state = "IV_CTC" => Restarted(q)
    BY <1>1 DEF Pair, Continues, NoTimer
  <2>2. p.state = "C" /\ p.buffer.type = "CTC" => Restarted(q)
    BY <1>1 DEF Pair, Continues
  <2>3. a.state = "C" /\ a.buffer.type = "CTC" => p.state \in {"C", "IV_CTC"} /\ p.buffer.type = "CTC"
    <3>1. SUFFICES ASSUME a.state = "C", a.buffer.type = "CTC" PROVE p.state \in {"C", "IV_CTC"} /\ p.buffer.type = "CTC"
      OBVIOUS
    <3>2. a.buffer = p.buffer \/ a.buffer = Simple("DCN")  BY <1>9, <3>1
    <3>3. Simple("DCN").type # "CTC"  BY DEF Simple
    <3>4. p.buffer.type = "CTC"  BY <3>1, <3>2, <3>3
    <3>5. p.state \notin {"R", "D_POST_TCF", "F_FTT", "II_Q", "IV_PPS_NULL", "IV_PPS_Q"}
      <4>1. p.buffer # NoFrame  BY <3>4 DEF NoFrame
      <4> QED  BY <1>1, <4>1, T4States DEF Asked, Empty
    <3>6. p.state # "D"
      <4>1. Simple("TSI").type # "CTC"  BY DEF Simple
      <4> QED  BY <1>1, <3>4, <4>1, T4States
    <3> QED  BY <1>10, <3>4, <3>5, <3>6
  <2>4. a.state = "IV_CTC" => p.state = "IV_CTC"  BY <1>11
  <2> QED  BY <2>1, <2>2, <2>3, <2>4 DEF Continues
<1>16. Call(a, q)  BY <1>12, <1>14, <1>15, AloneCall
<1>17. a.state # "ANSWERING" /\ a.tx_file = p.tx_file  BY <1>8, <1>10, <1>11 DEF SameDoc
<1> QED  BY <1>7, <1>16, <1>17 DEF a

-----------------------------------------------------------------------------
(* T2                                                                       *)

\* An end that waits with T2.
LEMMA T2States ==
  ASSUME NEW s, EndInv(s), ~Finished(s), ~Sending(s), s.timer_t2_t4 = TRUE, s.timer_is_t4 = FALSE
  PROVE  /\ s.on = "off" /\ s.phase \in Hearing /\ Empty(s)
         /\ \/ s.state = "T" /\ Free(s)
            \/ s.state \in {"F_TCF", "F_DOC", "F_POST_DOC_NON_ECM"} /\ Free(s)
            \/ s.state = "F_POST_DOC_ECM" /\ (Free(s) \/ s.hears = "fast")
<1>1. Mode(s) /\ Radio(s) /\ Signals(s)  BY DEF EndInv
<1>2. ~NoTimer(s)  BY DEF NoTimer
<1>3. \A phase : ~Asked(s, phase)  BY DEF Asked
<1>4. s.state \notin {"ANSWERING", "D_TCF", "D_POST_TCF", "I", "IV", "IV_CTC", "F_CFR", "B"}
  BY <1>1, <1>2 DEF Mode, InAnswering, InD_TCF, InD_POST_TCF, InI, InIV, InIV_CTC, InF_CFR, InB
<1>5. s.state \notin {"D", "II_Q", "IV_PPS_NULL", "IV_PPS_Q", "F_FTT", "C"}
  BY <1>1, <1>2, <1>3 DEF Mode, InD, InII_Q, InIV_PPS, InF_FTT, InC
<1>6. s.state \notin {"F_POST_RCP_MCF", "F_POST_RCP_PPR", "III_Q_MCF", "III_Q_RTP", "III_Q_RTN"}
  BY <1>1, <1>2 DEF Mode, InIII
<1>7. s.state # "R"
  <2>1. SUFFICES ASSUME s.state = "R" PROVE FALSE  OBVIOUS
  <2>2. s.phase = "B_TX"  BY <1>1, <1>2, <2>1 DEF Mode, InR
  <2>3. s.tx = "v21" /\ s.transmit = TRUE  BY <1>1, <2>2 DEF Radio, Tuned, Modems, Talking
  <2>4. s.on # "off"  BY <2>3 DEF Sending
  <2> QED  BY <2>1, <2>4, FlagsState
<1>8. s.state \in {"T", "F_TCF", "F_DOC", "F_POST_DOC_NON_ECM", "F_POST_DOC_ECM"}
  BY <1>1, <1>4, <1>5, <1>6, <1>7 DEF Mode, States, Finished
<1>9. CASE s.state = "T"
  <2>1. Free(s) /\ Empty(s) /\ s.phase = "B_RX"  BY <1>1, <1>2, <1>9 DEF Mode, InT
  <2>2. s.phase \in Hearing  BY <2>1 DEF Hearing, Listening
  <2>3. s.on = "off"  BY <1>1, <2>1 DEF Radio, Tuned, Modems, Signals, Listening
  <2> QED  BY <1>9, <2>1, <2>2, <2>3
<1>10. CASE s.state \in {"F_TCF", "F_DOC", "F_POST_DOC_NON_ECM"}
  <2>1. Free(s) /\ Empty(s) /\ s.phase \in {"C_NON_ECM_RX", "C_ECM_RX", "D_RX"}
    BY <1>1, <1>10 DEF Mode, InF_TCF, InF_DOC, InF_POST_DOC_NON_ECM
  <2>2. s.phase \in Hearing  BY <2>1 DEF Hearing, Listening, Receiving
  <2>3. s.on = "off"  BY <1>1, <2>1 DEF Radio, Tuned, Modems, Signals, Listening
  <2> QED  BY <1>10, <2>1, <2>2, <2>3
<1>11. CASE s.state = "F_POST_DOC_ECM"
  <2>1. Empty(s) /\ s.phase \in {"C_ECM_RX", "D_RX"} /\ (Free(s) \/ s.hears = "fast")
    BY <1>1, <1>11 DEF Mode, InF_POST_DOC_ECM
  <2>2. s.phase \in Hearing  BY <2>1 DEF Hearing, Listening, Receiving
  <2>3. s.on = "off"  BY <1>1, <2>1 DEF Radio, Tuned, Modems, Signals, Listening
  <2> QED  BY <1>11, <2>1, <2>2, <2>3
<1> QED  BY <1>8, <1>9, <1>10, <1>11

\* The caller offers what it has, or the receiver starts again.
LEMMA T2Starts ==
  ASSUME NEW s, EndInv(s), ~Finished(s), ~Sending(s), s.timer_t2_t4 = TRUE, s.timer_is_t4 = FALSE, Free(s)
  PROVE  LET t == T2Expired(Rung(s)) IN
         /\ EndInv(t) /\ t.hears = "no" /\ SameDoc(s, t) /\ t.on = "off"
         /\ (t.state = "R" /\ s.rx_file = TRUE) \/ (t.state = "T" /\ s.state = "T")
<1> DEFINE r == Rung(s)
           f == IF r.state \in {"F_DOC", "F_POST_DOC_NON_ECM", "R"} THEN Fail(r) ELSE r
           a == SetPhase(f, "B_TX")
           t == T2Expired(r)
<1>1. Mode(s) /\ Whole(s) /\ Stands(s) /\ Sides(s) /\ Counts(s) /\ Carries(s) /\ Signals(s)  BY Parts DEF EndInv
<1>2. /\ s.on = "off" /\ s.phase \in Hearing /\ Empty(s)
      /\ s.state \in {"T", "F_TCF", "F_DOC", "F_POST_DOC_NON_ECM", "F_POST_DOC_ECM"}
  BY T2States
<1>3. RungFacts(s, r) /\ r.retries = s.retries  BY <1>2, TimerRings
<1>4. t = StartReceiving(a)  BY DEF T2Expired
<1> HIDE DEF r
<1>5. Fields \subseteq DOMAIN r /\ Ready(r) /\ r.retries \in 0 .. Tries + 1
  BY <1>1, <1>3 DEF RungFacts, Counts
<1>6. Whole(r)  BY <1>3, <1>5, RungWhole
<1>7. Fields \subseteq DOMAIN f /\ SameMachine(r, f) /\ SameDoc(r, f) /\ f.retries = r.retries /\ Whole(f)
  <2>1. CASE f = r
    BY <1>5, <1>6, <2>1 DEF SameMachine, SameModems, SameTalk, SameTimers, SameDoc
  <2>2. CASE f = Fail(r)
    <3> HIDE DEF f
    <3>1. /\ Fields \subseteq DOMAIN f /\ SameMachine(r, f) /\ SameDoc(r, f) /\ f.retries = r.retries
          /\ f.current_status = "ERROR"
      BY <1>5, <2>2, FailFacts
    <3>2. SameTimers(r, f)  BY <3>1 DEF SameMachine
    <3> QED  BY <1>6, <3>1, <3>2, WholeFailed
  <2> QED  BY <2>1, <2>2
<1> HIDE DEF f
<1>8. Ready(f)  BY <1>5, <1>7, MachineKept
<1>9. /\ f.phase = s.phase /\ f.state = s.state /\ f.step = s.step /\ f.next_phase = "IDLE" /\ f.buffer = NoFrame
      /\ f.timer_t0_t1 = s.timer_t0_t1 /\ f.timer_is_t4 = FALSE /\ NoTimer(f) /\ f.retries = s.retries
      /\ SameDoc(s, f)
  BY <1>2, <1>3, <1>7 DEF RungFacts, SameMachine, SameModems, SameTalk, SameTimers, SameDoc, Free, Empty, NoTimer
<1>10. Moved(f, a, "B_TX") /\ SameTimers(f, a) /\ a.hears = "no" /\ a.tx_end = FALSE
       /\ a.far_end_detected = (f.far_end_detected \/ f.timer_t0_t1)
  <2>1. "B_TX" \in Talking  BY DEF Talking
  <2>2. f.phase \in Hearing /\ f.phase \notin Calling
    BY <1>2, <1>9 DEF Hearing, Listening, Receiving, Calling
  <2>3. Tuned(f) /\ Signals(f) /\ f.tx_end \in BOOLEAN /\ f.timer_t0_t1 \in BOOLEAN  BY <1>8 DEF Ready, Radio
  <2> QED  BY <1>7, <2>1, <2>2, <2>3, TalkPhase
<1> HIDE DEF a
<1>11. Fields \subseteq DOMAIN a /\ Radio(a) /\ Signals(a) /\ Quiet(f, a) /\ a.phase = "B_TX" /\ a.on = "off"
       /\ a.rx_signal_present = FALSE
  BY <1>10 DEF Moved
<1>12. a.state = s.state /\ a.step = s.step /\ a.buffer = NoFrame /\ Free(a) /\ a.retries = s.retries
       /\ a.timer_t0_t1 = s.timer_t0_t1 /\ SameDoc(s, a)
  BY <1>9, <1>11 DEF Quiet, Free, SameDoc
<1>13. SameRest(f, a)  BY <1>10, <1>11 DEF SameRest, Quiet
<1>14. Ready(a)
  <2>1. a.far_end_detected \in BOOLEAN  BY <1>8, <1>10 DEF Ready
  <2>2. a.tx_end \in BOOLEAN  BY <1>10
  <2>3. a.timer_t0_t1 \in BOOLEAN  BY <1>8, <1>13 DEF Ready, SameRest
  <2> QED  BY <1>11, <2>1, <2>2, <2>3 DEF Ready
<1>15. Whole(a)  BY <1>7, <1>13, WholeKept
<1>16. a.rx_file = s.rx_file /\ a.tx_file = s.tx_file  BY <1>12 DEF SameDoc
<1>17. a.retries <= Tries
  <2>1. s.state \notin Over  BY <1>2 DEF Over
  <2> QED  BY <1>1, <1>12, <2>1 DEF Stands
<1>18. CASE s.rx_file = TRUE
  <2> DEFINE b == [a EXCEPT !.next_phase = "IDLE"]
             c == SendDis(SetState(b, "R"))
  <2>1. t = c
    <3>1. QueuePhase(a, "B_TX") = b  BY <1>11 DEF QueuePhase, SetPhase
    <3> QED  BY <1>4, <1>16, <1>18, <3>1 DEF StartReceiving
  <2>2. Fields \subseteq DOMAIN b /\ SameMachine(a, b)
    BY <1>11, <1>12 DEF Fields, SameMachine, SameModems, SameTalk, SameTimers, Free
  <2>3. SameDoc(a, b) /\ b.retries = a.retries /\ b.current_status = a.current_status
    BY <1>11 DEF Fields, SameDoc
  <2> HIDE DEF b
  <2>4. Ready(b)  BY <1>14, <2>2, MachineKept
  <2>5. Whole(b)
    <3>1. SameRest(a, b)  BY <2>2, <2>3 DEF SameRest, SameMachine
    <3> QED  BY <1>15, <3>1, WholeKept
  <2>6. b.phase = "B_TX" /\ Free(b) /\ b.buffer = NoFrame /\ b.hears = "no"
    BY <1>10, <1>11, <1>12, <2>2 DEF SameMachine, SameModems, SameTalk, Free
  <2>7. b.retries <= Tries /\ b.page = 1 /\ b.ppr_count <= 3 /\ b.page <= Pages
    <3>1. b.page = s.page /\ b.ppr_count = s.ppr_count  BY <1>12, <2>3 DEF SameDoc
    <3>2. s.page = 1 /\ s.ppr_count = 0  BY <1>1, <1>18 DEF Sides
    <3>3. Pages \in Nat \ {0}  BY T30Assumption
    <3> QED  BY <1>17, <2>3, <3>1, <3>2, <3>3
  <2>8. EndInv(c) /\ SameDoc(b, c) /\ c.state = "R" /\ c.on = "off" /\ c.hears = "no"
    BY <2>4, <2>5, <2>6, <2>7, ReceiverOpens
  <2> HIDE DEF c, t
  <2>9. SameDoc(s, t)  BY <1>12, <2>1, <2>3, <2>8 DEF SameDoc
  <2> QED  BY <1>18, <2>1, <2>8, <2>9 DEF t, r
<1>19. CASE s.rx_file = FALSE
  <2>1. t = a  BY <1>4, <1>16, <1>19 DEF StartReceiving
  <2>2. s.state = "T"  BY <1>1, <1>2, <1>19 DEF Sides, ReceiveStates
  <2>3. a.tx_file = TRUE  BY <1>1, <1>16, <1>19 DEF Sides
  <2>4. s.timer_t0_t1 = TRUE /\ s.step = 0  BY <1>1, <2>2 DEF Mode, InT
  <2>5. NoTimer(a) /\ a.timer_is_t4 = FALSE  BY <1>9, <1>10 DEF SameTimers, NoTimer
  <2>6. InT(a)  BY <1>10, <1>11, <1>12, <2>3, <2>4, <2>5 DEF InT, Empty
  <2>7. Mode(a)  BY <1>12, <2>2, <2>6 DEF Mode, States
  <2>8. Stands(a)
    <3>1. a.page = s.page  BY <1>12 DEF SameDoc
    <3> QED  BY <1>1, <1>12, <1>17, <2>2, <3>1 DEF Stands, Over, SendStates, ReceiveStates, AnswerStates
  <2>9. Sides(a) /\ Counts(a)
    <3>1. a.step \in 0 .. 4 /\ a.next_phase \in Phases \cup {"IDLE"}  BY <1>12, <2>4 DEF Free
    <3> QED  BY <1>14, <1>15, <2>8, <3>1, Joined
  <2>10. Carries(a)
    <3>1. a.buffer.type = "none"  BY <1>12 DEF NoFrame
    <3>2. s.page = 1 /\ s.ppr_count <= 3  BY <1>1, <2>2 DEF Carries
    <3> QED  BY <1>12, <3>1, <3>2 DEF Carries, SameDoc
  <2>11. EndInv(a)  BY <1>11, <2>7, <2>9, <2>10 DEF EndInv
  <2> HIDE DEF t
  <2> QED  BY <1>10, <1>11, <1>12, <2>1, <2>2, <2>11 DEF t, r
<1> QED  BY <1>1, <1>18, <1>19 DEF Sides

\* What becomes of an end when T2 runs out.
Reopens(s, t) ==
  SameDoc(s, t) /\ t.hears = "no" /\ ((t.state = "R" /\ s.rx_file = TRUE) \/ (t.state = "T" /\ s.state = "T"))
  /\ s.state \in {"T", "F_TCF", "F_DOC", "F_POST_DOC_NON_ECM", "F_POST_DOC_ECM"}

\* T2 runs out.
LEMMA T2Call ==
  ASSUME NEW p, NEW q, Call(p, q), ~Finished(p), ~Sending(p), p.timer_t2_t4 = TRUE, p.timer_is_t4 = FALSE,
         p.hears = "no" \/ (q.on # "off" /\ ~Sending(q)), q.hears = "no" \/ p.on # "off"
  PROVE  LET a == T2Expired(Rung(p)) IN
         Call(a, q) /\ a.state # "ANSWERING" /\ a.tx_file = p.tx_file /\ Reopens(p, a)
<1> DEFINE a == T2Expired(Rung(p))
<1>1. EndInv(p) /\ EndInv(q) /\ Match(p, q) /\ Pair(p, q) /\ Pair(q, p)  BY DEF Call
<1>2. p.on = "off" /\ q.hears = "no"  BY <1>1, T2States
<1>3. Free(p)
  <2>1. SUFFICES ASSUME ~Free(p) PROVE FALSE  OBVIOUS
  <2>2. p.state = "F_POST_DOC_ECM" /\ p.hears = "fast"  BY <1>1, <2>1, T2States
  <2>3. q.on # "off" /\ q.state \in {"T", "CALL_FINISHED"}  BY <1>1, <2>2, FlagsState
  <2>4. BlockSent(p, q)  BY <1>1 DEF Pair
  <2> QED  BY <2>2, <2>3, <2>4 DEF BlockSent
<1>4. /\ EndInv(a) /\ a.hears = "no" /\ SameDoc(p, a) /\ a.on = "off"
      /\ (a.state = "R" /\ p.rx_file = TRUE) \/ (a.state = "T" /\ p.state = "T")
  BY <1>1, <1>3, T2Starts
<1> HIDE DEF a
<1>5. p.rx_file # p.tx_file  BY <1>1 DEF EndInv, Sides
<1>6. p.state \in {"T", "F_TCF", "F_DOC", "F_POST_DOC_NON_ECM", "F_POST_DOC_ECM"}  BY <1>1, T2States
<1>7. a.tx_file = p.tx_file /\ a.ecm_allowed = p.ecm_allowed  BY <1>4 DEF SameDoc
<1>8. Alone(p, q, a)
  <2>1. a.state \notin {"F_TCF", "F_POST_DOC_ECM", "D", "D_TCF"} \cup Taking  BY <1>4 DEF Taking
  <2>2. p.state = "F_DOC" => Restarted(a)  BY <1>4 DEF Restarted
  <2>3. ~Restarted(p)  BY <1>6 DEF Restarted, Over
  <2>4. Unbegun(a)  BY <1>4 DEF Unbegun
  <2>5. a.tx_file = TRUE => a.state = p.state  BY <1>4, <1>5, <1>7
  <2> QED  BY <1>2, <1>4, <1>6, <1>7, <2>1, <2>2, <2>3, <2>4, <2>5 DEF Alone
<1>9. Turns(a, q)  BY <1>4 DEF Turns
<1>10. Continues(a, q)  BY <1>4 DEF Continues
<1>11. Call(a, q)  BY <1>8, <1>9, <1>10, AloneCall
<1>12. Reopens(p, a)  BY <1>4, <1>6 DEF Reopens
<1> QED  BY <1>4, <1>7, <1>11, <1>12 DEF a

-----------------------------------------------------------------------------
(* T0 and T1, and hanging up                                                *)

\* An end that may leave the call, and what becomes of it.
MayLeave(s, f) ==
  /\ EndInv(s) /\ Fields \subseteq DOMAIN f /\ Tuned(f) /\ Signals(f) /\ Sides(f) /\ Counts(f)
  /\ f.phase \notin {"E", "CALL_FINISHED"} /\ (f.phase \in Calling => f.rx_signal_present = FALSE)
  /\ SameDoc(s, f) /\ f.buffer = s.buffer
Left(s, t) ==
  /\ EndInv(t) /\ SameDoc(s, t) /\ t.state = "B" /\ t.hears = "no" /\ t.on = "off" /\ t.phase = "E"
  /\ t.buffer = s.buffer

\* disconnect from a state that may leave ends in phase E, or at its end.
LEMMA Leaves ==
  ASSUME NEW s, NEW f, MayLeave(s, f)
  PROVE  Left(s, Disconnect(f))
<1> DEFINE t == Disconnect(f)
<1>1. /\ Fields \subseteq DOMAIN t /\ Radio(t) /\ Signals(t) /\ Mode(t) /\ Sides(t) /\ Counts(t)
      /\ SameDoc(f, t) /\ t.state = "B" /\ t.hears = "no" /\ t.buffer = f.buffer /\ t.on = "off"
      /\ t.phase = "E"
  BY DisconnectFacts DEF MayLeave
<1> HIDE DEF t
<1>2. SameDoc(s, t) /\ t.buffer = s.buffer  BY <1>1 DEF SameDoc, MayLeave
<1>3. Carries(s)  BY DEF EndInv, MayLeave
<1>4. Carries(t)  BY <1>1, <1>2, <1>3 DEF Carries, SameDoc, FcdFrame, PpsFrame
<1>5. EndInv(t)  BY <1>1, <1>4 DEF EndInv
<1>6. Left(s, t)  BY <1>1, <1>2, <1>5 DEF Left
<1> QED  BY <1>6 DEF t

Unset(s) == [s EXCEPT !.timer_t0_t1 = FALSE]
CallTimerRung(s, r) ==
  /\ Fields \subseteq DOMAIN r /\ SameModems(s, r) /\ SameTalk(s, r) /\ SameDoc(s, r) /\ SameTimers(s, r)
  /\ r.buffer = s.buffer /\ r.on = s.on /\ r.tx_end = s.tx_end /\ r.retries = s.retries
  /\ r.current_status = "ERROR" /\ r.far_end_detected = s.far_end_detected /\ r.timer_t0_t1 = FALSE

\* T0 or T1 runs out with the status of an error.
LEMMA CallTimerRings ==
  ASSUME NEW s, Fields \subseteq DOMAIN s
  PROVE  CallTimerRung(s, Fail(Unset(s)))
<1> DEFINE r == Unset(s)
           f == Fail(r)
<1>1. /\ Fields \subseteq DOMAIN r /\ SameModems(s, r) /\ SameTalk(s, r) /\ SameTimers(s, r)
      /\ r.buffer = s.buffer /\ r.on = s.on /\ r.tx_end = s.tx_end /\ r.retries = s.retries
      /\ r.far_end_detected = s.far_end_detected /\ r.timer_t0_t1 = FALSE
  BY DEF Unset, Fields, SameModems, SameTalk, SameTimers
<1>2. SameDoc(s, r)  BY DEF Unset, Fields, SameDoc
<1> HIDE DEF r
<1>3. /\ Fields \subseteq DOMAIN f /\ SameMachine(r, f) /\ SameDoc(r, f) /\ f.retries = r.retries
      /\ f.current_status = "ERROR"
  BY <1>1, FailFacts
<1> HIDE DEF f
<1>4. CallTimerRung(s, f)
  BY <1>1, <1>2, <1>3 DEF CallTimerRung, SameMachine, SameModems, SameTalk, SameTimers, SameDoc
<1> QED  BY <1>4 DEF f, r

\* It is the end that was, but for the timer and the status.
LEMMA CallTimerEnd ==
  ASSUME NEW s, NEW f, EndInv(s), CallTimerRung(s, f)
  PROVE  /\ Fields \subseteq DOMAIN f /\ Radio(f) /\ Signals(f) /\ Sides(f) /\ Counts(f) /\ Whole(f) /\ Carries(f)
<1>1. Radio(s) /\ Signals(s) /\ Sides(s) /\ Counts(s) /\ Carries(s)  BY DEF EndInv
<1>2. Fields \subseteq DOMAIN f /\ SameModems(s, f) /\ SameTalk(s, f) /\ SameDoc(s, f) /\ SameTimers(s, f)
      /\ f.buffer = s.buffer /\ f.on = s.on /\ f.tx_end = s.tx_end /\ f.retries = s.retries
      /\ f.current_status = "ERROR" /\ f.far_end_detected = s.far_end_detected /\ f.timer_t0_t1 = FALSE
  BY DEF CallTimerRung
<1>3. Radio(f) /\ Signals(f)  BY <1>1, <1>2, ModemsKept
<1>4. Sides(f)  BY <1>1, <1>2 DEF Sides, SameDoc, SameTalk
<1>5. Counts(f)  BY <1>1, <1>2 DEF Counts, SameDoc, SameTalk, SameTimers
<1>6. Carries(f)  BY <1>1, <1>2 DEF Carries, SameTalk, SameDoc, FcdFrame, PpsFrame
<1> QED  BY <1>2, <1>3, <1>4, <1>5, <1>6, Parts

\* Which states the timers of the call run in.
LEMMA CallTimerStates ==
  ASSUME NEW s, EndInv(s), ~Finished(s), ~Sending(s), s.timer_t0_t1 = TRUE
  PROVE  /\ s.phase \notin {"E", "CALL_FINISHED"} /\ (s.phase \in Calling => s.rx_signal_present = FALSE)
         /\ s.phase = "A_CNG" => s.state = "T"
         /\ \/ s.state = "T"
            \/ s.state = "ANSWERING" /\ s.on = "off" /\ InAnswering(s)
            \/ /\ s.state = "R" /\ s.on = "off" /\ s.phase = "B_RX" /\ Free(s) /\ Empty(s) /\ s.timer_is_t4 = TRUE
            \/ s.state = "C" /\ s.on = "off" /\ InC(s)
<1>1. Mode(s) /\ Radio(s) /\ Signals(s) /\ Sides(s)  BY DEF EndInv
<1>2. s.state \in {"ANSWERING", "T", "R", "C"}  BY <1>1 DEF Sides, Finished
<1>3. s.on = "off" \/ s.state = "T"  BY <1>2, FlagsState DEF Finished
<1>4. CASE s.state = "ANSWERING"
  <2>1. InAnswering(s)  BY <1>1, <1>4 DEF Mode
  <2>2. s.phase = "A_CED" /\ s.hears = "no"  BY <2>1 DEF InAnswering
  <2> QED  BY <1>1, <1>3, <1>4, <2>1, <2>2 DEF Signals
<1>5. CASE s.state = "T"
  <2>1. s.phase \in {"A_CNG", "B_RX", "B_TX"} /\ (s.phase = "A_CNG" => s.hears = "no")
    BY <1>1, <1>5 DEF Mode, InT
  <2> QED  BY <1>1, <1>5, <2>1 DEF Signals, Calling
<1>6. CASE s.state = "R"
  <2>1. s.phase # "B_TX"
    <3>1. SUFFICES ASSUME s.phase = "B_TX" PROVE FALSE  OBVIOUS
    <3>2. s.tx = "v21" /\ s.transmit = TRUE  BY <1>1, <3>1 DEF Radio, Tuned, Modems, Talking
    <3> QED  BY <1>3, <1>6, <3>2 DEF Sending
  <2>2. s.phase = "B_RX" /\ Free(s) /\ Empty(s) /\ s.timer_is_t4 = TRUE
    BY <1>1, <1>6, <2>1 DEF Mode, InR
  <2> QED  BY <1>3, <1>6, <2>2 DEF Calling
<1>7. CASE s.state = "C"
  <2>1. InC(s)  BY <1>1, <1>7 DEF Mode
  <2>2. s.phase \in Hearing \cup {"D_TX"}  BY <2>1 DEF InC, Answer, Command
  <2> QED  BY <1>3, <1>7, <2>1, <2>2 DEF Hearing, Listening, Receiving, Calling
<1> QED  BY <1>2, <1>4, <1>5, <1>6, <1>7

\* What becomes of an end when T0 or T1 runs out.
CallTimerExpired(s) == IF s.far_end_detected THEN T1Expired(Unset(s)) ELSE T0Expired(Unset(s))

\* The document is as it was, and the end has left the call or stands where it stood.
Stays(s, t) ==
  /\ SameDoc(s, t)
  /\ t.state \in Over \/ (t.state = s.state /\ t.buffer = s.buffer /\ t.hears = s.hears)

\* The call, after T0 or T1 ran out at one end of it.
LEMMA CallTimerCall ==
  ASSUME NEW p, NEW q, Call(p, q), ~Finished(p), ~Sending(p), p.timer_t0_t1 = TRUE
  PROVE  LET a == CallTimerExpired(p) IN
         /\ Call(a, q) /\ a.tx_file = p.tx_file
         /\ a.state # "ANSWERING" \/ (a.state = p.state /\ a.phase = p.phase)
         /\ p.phase \in {"A_CNG", "E", "CALL_FINISHED"} => a.phase = "E"
         /\ Stays(p, a)
<1> DEFINE r == Unset(p)
           w == Fail(r)
           d == Disconnect(w)
           a == CallTimerExpired(p)
<1>1. EndInv(p) /\ EndInv(q) /\ Match(p, q) /\ Pair(p, q) /\ Pair(q, p)  BY DEF Call
<1>2. Fields \subseteq DOMAIN p /\ Mode(p) /\ Stands(p) /\ Sides(p) /\ Counts(p)  BY <1>1, Parts DEF EndInv
<1>3. CallTimerRung(p, w)  BY <1>2, CallTimerRings
<1>4. r.state = p.state  BY <1>2 DEF Unset, Fields
<1> HIDE DEF r, w
<1>5. /\ Fields \subseteq DOMAIN w /\ SameModems(p, w) /\ SameTalk(p, w) /\ SameDoc(p, w) /\ SameTimers(p, w)
      /\ w.buffer = p.buffer /\ w.on = p.on /\ w.tx_end = p.tx_end /\ w.retries = p.retries
      /\ w.current_status = "ERROR" /\ w.far_end_detected = p.far_end_detected /\ w.timer_t0_t1 = FALSE
  BY <1>3 DEF CallTimerRung
<1>6. Radio(w) /\ Signals(w) /\ Sides(w) /\ Counts(w) /\ Whole(w) /\ Carries(w)  BY <1>1, <1>3, CallTimerEnd
<1>7. /\ p.phase \notin {"E", "CALL_FINISHED"} /\ (p.phase \in Calling => p.rx_signal_present = FALSE)
      /\ p.phase = "A_CNG" => p.state = "T"
  BY <1>1, CallTimerStates
<1>8. /\ EndInv(d) /\ SameDoc(p, d) /\ d.state = "B" /\ d.hears = "no" /\ d.on = "off" /\ d.phase = "E"
  <2>1. w.phase = p.phase /\ w.rx_signal_present = p.rx_signal_present  BY <1>5 DEF SameModems
  <2>2. Tuned(w)  BY <1>6 DEF Radio
  <2>3. w.phase \notin {"E", "CALL_FINISHED"}  BY <1>7, <2>1
  <2>4. w.phase \in Calling => w.rx_signal_present = FALSE  BY <1>7, <2>1
  <2>5. Fields \subseteq DOMAIN w /\ SameDoc(p, w) /\ w.buffer = p.buffer  BY <1>5
  <2>6. Signals(w) /\ Sides(w) /\ Counts(w)  BY <1>6
  <2>7. EndInv(p)  BY <1>1
  <2>8. MayLeave(p, w)
    <3> HIDE DEF d, a
    <3> QED  BY <2>2, <2>3, <2>4, <2>5, <2>6, <2>7 DEF MayLeave
  <2>9. Left(p, d)  BY <2>8, Leaves
  <2> HIDE DEF d
  <2> QED  BY <2>9 DEF Left
<1> HIDE DEF d
<1>9. ASSUME a = d
      PROVE  Call(a, q) /\ a.tx_file = p.tx_file /\ a.state # "ANSWERING" /\ a.phase = "E" /\ Stays(p, a)
  <2>1. d.tx_file = p.tx_file /\ d.ecm_allowed = p.ecm_allowed  BY <1>8 DEF SameDoc
  <2>2. Call(d, q)  BY <1>8, <2>1, OverCall
  <2>3. Stays(p, d)  BY <1>8 DEF Stays, Over
  <2> HIDE DEF a
  <2> QED  BY <1>8, <1>9, <2>1, <2>2, <2>3
<1>10. w = Fail(r) /\ d = Disconnect(w)  BY DEF w, d
<1>11. p.far_end_detected \in BOOLEAN  BY <1>2 DEF Counts
<1>12. CASE p.far_end_detected = FALSE \/ p.state = "T"
  <2>1. a = d  BY <1>4, <1>10, <1>12 DEF CallTimerExpired, T0Expired, T1Expired, r
  <2> HIDE DEF a
  <2> QED  BY <1>9, <2>1 DEF a
<1>13. CASE p.far_end_detected = TRUE /\ p.state = "R"
  <2> DEFINE t == SendDcn(w)
  <2>1. a = t  BY <1>4, <1>10, <1>13 DEF CallTimerExpired, T1Expired, r
  <2>2. p.on = "off" /\ p.phase = "B_RX" /\ Free(p) /\ Empty(p) /\ p.timer_is_t4 = TRUE
    BY <1>1, <1>13, CallTimerStates
  <2>3. Ready(w)
    <3>1. w.tx_end \in BOOLEAN /\ w.far_end_detected \in BOOLEAN /\ w.timer_t0_t1 \in BOOLEAN
      BY <1>2, <1>5 DEF Counts
    <3> QED  BY <1>5, <1>6, <2>2, <3>1 DEF Ready
  <2>4. w.phase = "B_RX" /\ w.buffer = NoFrame /\ w.state = "R" /\ w.timer_is_t4 = TRUE
    BY <1>5, <1>13, <2>2 DEF SameModems, SameTalk, SameTimers, Empty
  <2>5. w.rx_signal_present = TRUE => w.hears = "v21"
    BY <1>6, <2>4 DEF Radio, Tuned, Modems, Signals, Listening
  <2>6. w.phase \in Hearing  BY <2>4 DEF Hearing, Listening
  <2>7. /\ EndInv(t) /\ SameRest(w, t) /\ t.state = "C" /\ t.on = "off" /\ Turned(w, t, "D_TX")
        /\ t.buffer = IF w.buffer = NoFrame THEN Simple("DCN") ELSE w.buffer
    BY <1>6, <2>3, <2>4, <2>5, <2>6, DcnSent
  <2> HIDE DEF t
  <2>8. t.buffer.type = "DCN"  BY <2>4, <2>7 DEF Simple
  <2>9. t.tx_file = p.tx_file /\ t.ecm_allowed = p.ecm_allowed  BY <1>5, <2>7 DEF SameRest, SameDoc
  <2>10. t.timer_is_t4 = TRUE /\ t.retries <= Tries
    <3>1. p.retries <= Tries  BY <1>2, <1>13 DEF Stands, Over
    <3> QED  BY <1>5, <2>4, <2>7, <3>1 DEF SameRest, SameTimers
  <2>11. Alone(p, q, t)
    <3>1. t.state \notin Taking  BY <2>7 DEF Taking
    <3>2. Restarted(t) /\ Unbegun(t)  BY <2>7 DEF Restarted, Unbegun, Over
    <3> QED  BY <1>13, <2>7, <2>9, <3>1, <3>2 DEF Alone
  <2>12. Turns(t, q)  BY <2>7, <2>10 DEF Turns
  <2>13. Continues(t, q)  BY <2>7, <2>8 DEF Continues
  <2>14. Call(t, q)  BY <2>11, <2>12, <2>13, AloneCall
  <2>15. p.phase \notin {"A_CNG", "E", "CALL_FINISHED"}  BY <2>2
  <2>16. Stays(p, t)  BY <1>5, <2>7 DEF Stays, Over, SameRest, SameDoc
  <2> HIDE DEF a
  <2> QED  BY <2>1, <2>7, <2>9, <2>14, <2>15, <2>16 DEF a
<1>14. CASE p.far_end_detected = TRUE /\ p.state \in {"ANSWERING", "C"}
  <2>1. a = w  BY <1>4, <1>10, <1>14 DEF CallTimerExpired, T1Expired, r
  <2>2. /\ w.phase = p.phase /\ w.state = p.state /\ w.hears = p.hears /\ w.step = p.step
        /\ w.next_phase = p.next_phase /\ w.rx_signal_present = p.rx_signal_present
        /\ w.timer_is_t4 = p.timer_is_t4 /\ w.timer_t2_t4 = p.timer_t2_t4
    BY <1>5 DEF SameModems, SameTalk, SameTimers
  <2>3. p.on = "off" /\ (p.state = "ANSWERING" => InAnswering(p)) /\ (p.state = "C" => InC(p))
    BY <1>1, <1>14, CallTimerStates
  <2>4. p.state = "ANSWERING" => InAnswering(w)
    BY <1>5, <2>2, <2>3 DEF InAnswering, Free, Empty, NoTimer
  <2>5. p.state = "C" => InC(w)
    BY <1>5, <2>2, <2>3 DEF InC, Answer, Held, Command, Ended, Free, Empty, NoTimer
  <2>6. Mode(w)  BY <1>14, <2>2, <2>4, <2>5 DEF Mode, States
  <2>7. EndInv(w)  BY <1>5, <1>6, <2>6 DEF EndInv
  <2>8. w.tx_file = p.tx_file /\ w.ecm_allowed = p.ecm_allowed  BY <1>5 DEF SameDoc
  <2>9. Alone(p, q, w)
    <3>1. w.state \notin Taking  BY <1>14, <2>2 DEF Taking
    <3>2. Restarted(p) => Restarted(w)  BY <2>2 DEF Restarted
    <3>3. Unbegun(p) => Unbegun(w)  BY <2>2 DEF Unbegun
    <3> QED  BY <1>5, <1>14, <2>2, <2>3, <2>7, <2>8, <3>1, <3>2, <3>3 DEF Alone
  <2>10. Turns(w, q)  BY <1>1, <1>5, <2>2 DEF Pair, Turns, NoTimer
  <2>11. Continues(w, q)  BY <1>1, <1>5, <2>2 DEF Pair, Continues, NoTimer
  <2>12. Call(w, q)  BY <2>9, <2>10, <2>11, AloneCall
  <2>13. p.phase \notin {"A_CNG", "E", "CALL_FINISHED"}  BY <1>7, <1>14
  <2>14. Stays(p, w)  BY <1>5, <2>2 DEF Stays
  <2> HIDE DEF a
  <2> QED  BY <2>1, <2>2, <2>8, <2>12, <2>13, <2>14 DEF a
<1> QED
  <2>1. p.state \in {"ANSWERING", "T", "R", "C"}  BY <1>1, CallTimerStates
  <2> QED  BY <1>11, <1>12, <1>13, <1>14, <2>1

\* What is left when the application hangs up.
HungUp(s) == SetPhase(SetState(s, "CALL_FINISHED"), "CALL_FINISHED")

\* The end of a call silences the end, whatever it was doing.
LEMMA HangsUp ==
  ASSUME NEW s, NEW r, Fields \subseteq DOMAIN r, Radio(r), Signals(r), Whole(r), r.phase # "CALL_FINISHED",
         r.state # "CALL_FINISHED",
         r.phase \in Calling => r.rx_signal_present = FALSE, r.tx_end \in BOOLEAN, r.far_end_detected \in BOOLEAN,
         r.timer_t0_t1 \in BOOLEAN, r.next_phase \in Phases \cup {"IDLE"}, SameDoc(s, r), r.buffer = s.buffer,
         Carries(s)
  PROVE  LET t == HungUp(r) IN
         /\ EndInv(t) /\ SameDoc(s, t) /\ t.state = "CALL_FINISHED" /\ t.hears = "no" /\ t.on = "off"
         /\ t.phase = "CALL_FINISHED"
<1> DEFINE a == SetState(r, "CALL_FINISHED")
           t == SetPhase(a, "CALL_FINISHED")
<1>1. /\ Fields \subseteq DOMAIN a /\ a.state = "CALL_FINISHED" /\ a.step = 0
      /\ SameModems(r, a) /\ SameCall(r, a) /\ SameDoc(r, a)
      /\ a.buffer = r.buffer /\ a.next_phase = r.next_phase /\ a.on = r.on /\ a.tx_end = r.tx_end
  BY StateSet
<1> HIDE DEF a
<1>2. Radio(a) /\ Signals(a)  BY <1>1, ModemsKept
<1>3. a.phase = r.phase /\ a.rx_signal_present = r.rx_signal_present  BY <1>1 DEF SameModems
<1>4. Moved(a, t, "CALL_FINISHED") /\ SameTimers(a, t) /\ t.hears = "no" /\ t.tx_end = a.tx_end
      /\ t.far_end_detected = a.far_end_detected
  <2>1. Tuned(a)  BY <1>2 DEF Radio
  <2> QED  BY <1>1, <1>2, <1>3, <2>1, FinishPhase
<1> HIDE DEF t
<1>5. Fields \subseteq DOMAIN t /\ Radio(t) /\ Signals(t) /\ Quiet(a, t) /\ t.phase = "CALL_FINISHED" /\ t.on = "off"
  BY <1>4 DEF Moved
<1>6. SameDoc(s, t) /\ t.state = "CALL_FINISHED" /\ t.buffer = s.buffer /\ t.step = 0 /\ t.next_phase = r.next_phase
  BY <1>1, <1>5 DEF Quiet, SameDoc
<1>7. SameRest(r, t)
  BY <1>1, <1>4, <1>5 DEF SameRest, SameCall, SameTimers, Quiet, SameDoc
<1>8. Whole(t)  BY <1>7, WholeKept
<1>9. Stands(t)
  BY <1>6 DEF Stands, SendStates, ReceiveStates, AnswerStates, Over
<1>10. Ready(t)
  <2>1. t.far_end_detected = r.far_end_detected /\ t.tx_end = r.tx_end /\ t.timer_t0_t1 = r.timer_t0_t1
    BY <1>1, <1>4, <1>7 DEF SameCall, SameRest
  <2> QED  BY <1>5, <2>1 DEF Ready
<1>11. t.step \in 0 .. 4  BY <1>6
<1>12. Sides(t) /\ Counts(t)  BY <1>6, <1>8, <1>9, <1>10, <1>11, Joined
<1>13. Mode(t)
  <2>1. InFinished(t)  BY <1>5 DEF InFinished
  <2> QED  BY <1>6, <2>1 DEF Mode, States
<1>14. Carries(t)  BY <1>6 DEF Carries, SameDoc, FcdFrame, PpsFrame
<1>15. EndInv(t)  BY <1>5, <1>12, <1>13, <1>14 DEF EndInv
<1> QED  BY <1>4, <1>5, <1>6, <1>15 DEF HungUp, t, a

Terminated(s) == HungUp(CASE s.state = "C" -> Disconnect(s) [] s.state = "B" -> s [] OTHER -> Fail(s))

\* The call, after one end of it hung up.
LEMMA TerminateCall ==
  ASSUME NEW p, NEW q, Call(p, q), p.phase # "CALL_FINISHED"
  PROVE  LET a == Terminated(p) IN
         Call(a, q) /\ a.tx_file = p.tx_file /\ a.state # "ANSWERING" /\ a.phase = "CALL_FINISHED" /\ Stays(p, a)
<1> DEFINE r == CASE p.state = "C" -> Disconnect(p) [] p.state = "B" -> p [] OTHER -> Fail(p)
           a == HungUp(r)
<1>1. EndInv(p)  BY DEF Call
<1>2. Fields \subseteq DOMAIN p /\ Radio(p) /\ Signals(p) /\ Mode(p) /\ Sides(p) /\ Counts(p) /\ Whole(p) /\ Carries(p)
  BY <1>1, Parts DEF EndInv
<1>3. p.state # "CALL_FINISHED"  BY <1>2 DEF Mode, InFinished
<1>4. p.phase \in Calling => p.rx_signal_present = FALSE
  <2>1. p.phase \in Calling => p.hears = "no"  BY <1>1, HearerWaits DEF Calling, Hearing, Listening, Receiving
  <2> QED  BY <1>2, <2>1 DEF Signals
<1>5. /\ Fields \subseteq DOMAIN r /\ Radio(r) /\ Signals(r) /\ Whole(r) /\ r.phase # "CALL_FINISHED"
      /\ r.state # "CALL_FINISHED"
      /\ r.phase \in Calling => r.rx_signal_present = FALSE
      /\ r.tx_end \in BOOLEAN /\ r.far_end_detected \in BOOLEAN
      /\ r.timer_t0_t1 \in BOOLEAN /\ r.next_phase \in Phases \cup {"IDLE"} /\ SameDoc(p, r) /\ r.buffer = p.buffer
  <2>1. CASE p.state = "C"
    <3> DEFINE d == Disconnect(p)
    <3>1. r = d  BY <2>1
    <3>2. p.phase \notin {"E", "CALL_FINISHED"}
      <4>1. p.phase \in Hearing \cup {"D_TX"}  BY <1>2, <2>1 DEF Mode, InC, Answer, Command
      <4> QED  BY <4>1 DEF Hearing, Listening, Receiving
    <3>3. Tuned(p)  BY <1>2 DEF Radio
    <3>4. SameDoc(p, p)  BY DEF SameDoc
    <3>5. MayLeave(p, p)
      <4> HIDE DEF d, r, a
      <4> QED  BY <1>1, <1>2, <1>4, <3>2, <3>3, <3>4 DEF MayLeave
    <3>6. Left(p, d)  BY <3>5, Leaves
    <3> HIDE DEF d
    <3>7. /\ EndInv(d) /\ SameDoc(p, d) /\ d.state = "B" /\ d.phase = "E" /\ d.buffer = p.buffer  BY <3>6 DEF Left
    <3>8. Fields \subseteq DOMAIN d /\ Radio(d) /\ Signals(d) /\ Whole(d) /\ Counts(d)  BY <3>7, Parts DEF EndInv
    <3>9. d.phase \notin Calling  BY <3>7 DEF Calling
    <3>10. d.tx_end \in BOOLEAN /\ d.far_end_detected \in BOOLEAN /\ d.timer_t0_t1 \in BOOLEAN
          /\ d.next_phase \in Phases \cup {"IDLE"}
      BY <3>8 DEF Counts
    <3> HIDE DEF r
    <3> QED  BY <3>1, <3>7, <3>8, <3>9, <3>10
  <2>2. CASE p.state = "B"
    <3>1. r = p  BY <2>2
    <3>2. SameDoc(p, p)  BY DEF SameDoc
    <3> HIDE DEF r
    <3> QED  BY <1>2, <1>3, <1>4, <3>1, <3>2 DEF Counts
  <2>3. CASE p.state \notin {"B", "C"}
    <3> DEFINE f == Fail(p)
    <3>1. r = f  BY <2>3
    <3>2. /\ Fields \subseteq DOMAIN f /\ SameMachine(p, f) /\ SameDoc(p, f) /\ f.retries = p.retries
          /\ f.current_status = "ERROR"
      BY <1>2, FailFacts
    <3> HIDE DEF f, r
    <3>3. SameModems(p, f) /\ SameTalk(p, f) /\ f.buffer = p.buffer /\ f.on = p.on /\ f.tx_end = p.tx_end
          /\ f.far_end_detected = p.far_end_detected /\ f.timer_t0_t1 = p.timer_t0_t1 /\ SameTimers(p, f)
      BY <3>2 DEF SameMachine
    <3>4. Radio(f) /\ Signals(f)  BY <1>2, <3>3, ModemsKept
    <3>5. Whole(f)  BY <1>2, <3>2, <3>3, WholeFailed
    <3>6. f.phase = p.phase /\ f.rx_signal_present = p.rx_signal_present /\ f.state = p.state
          /\ f.next_phase = p.next_phase
      BY <3>3 DEF SameModems, SameTalk
    <3>7. f.tx_end \in BOOLEAN /\ f.far_end_detected \in BOOLEAN /\ f.timer_t0_t1 \in BOOLEAN
          /\ f.next_phase \in Phases \cup {"IDLE"}
      BY <1>2, <3>3, <3>6 DEF Counts
    <3> QED  BY <1>3, <1>4, <3>1, <3>2, <3>3, <3>4, <3>5, <3>6, <3>7
  <2> QED  BY <2>1, <2>2, <2>3
<1> HIDE DEF r
<1>6. /\ EndInv(a) /\ SameDoc(p, a) /\ a.state = "CALL_FINISHED" /\ a.hears = "no" /\ a.on = "off"
      /\ a.phase = "CALL_FINISHED"
  BY <1>2, <1>5, HangsUp
<1> HIDE DEF a
<1>7. a.tx_file = p.tx_file /\ a.ecm_allowed = p.ecm_allowed  BY <1>6 DEF SameDoc
<1>8. Call(a, q)  BY <1>6, <1>7, OverCall
<1>9. a = Terminated(p)  BY DEF Terminated, a, r
<1>10. Stays(p, a)  BY <1>6 DEF Stays, Over
<1> QED  BY <1>6, <1>7, <1>8, <1>9, <1>10

-----------------------------------------------------------------------------
(* The call                                                                 *)

Quieted == {"A_CNG", "E", "CALL_FINISHED"}

\* The invariant, seen from one of the ends.
LEMMA CallOf ==
  ASSUME CallInv, NEW p \in Peer
  PROVE  /\ Call(end[p], end[Other(p)]) /\ Other(p) \in Peer /\ Other(p) # p /\ Other(Other(p)) = p
<1>1. Caller # Answerer  BY T30Assumption
<1>2. Other(p) \in Peer /\ Other(p) # p /\ Other(Other(p)) = p  BY <1>1 DEF Peer, Other
<1>3. EndInv(end[p]) /\ EndInv(end[Other(p)])  BY <1>2 DEF CallInv, Ends
<1>4. Match(end[p], end[Other(p)])
  <2>1. CASE p = Caller  BY <1>1, <2>1 DEF CallInv, Matched, Match, Other
  <2>2. CASE p = Answerer  BY <1>1, <2>2 DEF CallInv, Matched, Match, Other
  <2> QED  BY <2>1, <2>2 DEF Peer
<1>5. \A o \in Peer : Pair(end[o], end[Other(o)])  BY DEF CallInv, Exchange, Pair
<1>6. Pair(end[p], end[Other(p)]) /\ Pair(end[Other(p)], end[p])  BY <1>2, <1>5
<1> QED  BY <1>2, <1>3, <1>4, <1>6 DEF Call

\* The answerer sends its tone, and hears nothing.
LEMMA AnsweringTone ==
  ASSUME NEW s, EndInv(s), s.state = "ANSWERING"
  PROVE  Tone(s) /\ s.on = "off" /\ s.hears = "no"
<1>1. InAnswering(s) /\ Radio(s) /\ Signals(s)  BY DEF EndInv, Mode
<1>2. s.tx = "ced" /\ s.hears = "no"  BY <1>1 DEF InAnswering, Radio, Tuned, Modems
<1>3. s.transmit = TRUE  BY <1>1, <1>2 DEF Radio
<1>4. s.on = "off"  BY <1>1, <1>2 DEF Signals
<1> QED  BY <1>2, <1>3, <1>4 DEF Tone

\* Nothing else is on the line in the meantime.
LEMMA ToneAlone ==
  ASSUME CallInv, NEW p \in Peer, end[Other(p)].state = "ANSWERING"
  PROVE  /\ p = Caller /\ end[p].phase \in Quieted
         /\ end[p].on = "off" /\ end[p].hears = "no" /\ end[p].tx \notin {"v21", "fast"} /\ end[p].tx_hdlc = FALSE
<1>1. p = Caller /\ Other(p) = Answerer /\ end[p].phase \in Quieted
  BY T30Assumption DEF CallInv, ToneFirst, Peer, Other, Quieted
<1>2. EndInv(end[p])  BY CallOf DEF Call
<1>3. Radio(end[p]) /\ Signals(end[p])  BY <1>2 DEF EndInv
<1>4. end[p].tx \in {"cng", "pause", "done"} /\ end[p].tx_hdlc = FALSE
  BY <1>1, <1>3 DEF Quieted, Radio, Tuned, Modems
<1>5. end[p].on = "off"  BY <1>3, <1>4 DEF Signals
<1>6. end[p].hears = "no"
  <2>1. CASE end[p].phase = "A_CNG"  BY <1>2, <2>1, HearerWaits DEF Calling, Hearing, Listening, Receiving
  <2>2. CASE end[p].phase \in {"E", "CALL_FINISHED"}
    <3>1. end[p].rx \in {"none", "done"}  BY <1>3, <2>2 DEF Radio, Tuned, Modems
    <3> QED  BY <1>3, <3>1 DEF Signals
  <2> QED  BY <1>1, <2>1, <2>2 DEF Quieted
<1> QED  BY <1>1, <1>4, <1>5, <1>6

\* Both ends have taken a step.
LEMMA BothStep ==
  ASSUME CallInv, NEW p \in Peer, NEW a, NEW b, end' = [end EXCEPT ![p] = a, ![Other(p)] = b],
         mishaps' \in 0 .. Mishaps, Call(a, b), a.state # "ANSWERING", b.state # "ANSWERING"
  PROVE  CallInv'
<1> DEFINE q == Other(p)
<1>1. q \in Peer /\ q # p /\ Other(q) = p  BY CallOf
<1>2. DOMAIN end = Peer  BY DEF CallInv, Ends
<1>3. end'[p] = a /\ end'[q] = b /\ DOMAIN end' = Peer /\ end' = [o \in Peer |-> end'[o]]
  BY <1>1, <1>2
<1>4. Peer = {p, q} /\ Caller \in Peer /\ Answerer \in Peer /\ Caller # Answerer
  BY <1>1, T30Assumption DEF Peer, Other
<1>5. EndInv(a) /\ EndInv(b) /\ Match(a, b) /\ Pair(a, b) /\ Pair(b, a)  BY DEF Call
<1> HIDE DEF q
<1>6. Ends'
  <2>1. \A o \in Peer : EndInv(end'[o])  BY <1>3, <1>4, <1>5
  <2> QED  BY <1>3, <2>1 DEF Ends
<1>7. Matched'
  <2>1. (Caller = p /\ Answerer = q) \/ (Caller = q /\ Answerer = p)  BY <1>4
  <2> QED  BY <1>3, <1>5, <2>1 DEF Matched, Match
<1>8. Exchange'
  <2>1. \A o \in Peer : Pair(end'[o], end'[Other(o)])
    <3>1. Other(p) = q /\ Other(q) = p  BY <1>1 DEF q
    <3> QED  BY <1>3, <1>4, <1>5, <3>1
  <2> QED  BY <2>1 DEF Exchange, Pair
<1>9. ToneFirst'
  <2>1. \A o \in Peer : end'[o].state # "ANSWERING"  BY <1>3, <1>4
  <2> QED  BY <1>4, <2>1 DEF ToneFirst
<1> QED  BY <1>6, <1>7, <1>8, <1>9 DEF CallInv

\* One end has taken a step.
LEMMA OneStep ==
  ASSUME CallInv, NEW p \in Peer, NEW a, Becomes(p, a), mishaps' \in 0 .. Mishaps, Call(a, end[Other(p)]),
         \/ a.state # "ANSWERING" /\ end[Other(p)].state # "ANSWERING"
         \/ a.state = end[p].state /\ a.phase = end[p].phase
         \/ a.state # "ANSWERING" /\ a.phase \in Quieted
  PROVE  CallInv'
<1> DEFINE q == Other(p)
           b == end[q]
<1>1. q \in Peer /\ q # p /\ Other(q) = p  BY CallOf
<1>2. DOMAIN end = Peer  BY DEF CallInv, Ends
<1>3. end'[p] = a /\ end'[q] = b /\ DOMAIN end' = Peer /\ end' = [o \in Peer |-> end'[o]]
  BY <1>1, <1>2 DEF Becomes
<1>4. Peer = {p, q} /\ Caller \in Peer /\ Answerer \in Peer /\ Caller # Answerer
  BY <1>1, T30Assumption DEF Peer, Other
<1>5. EndInv(a) /\ EndInv(b) /\ Match(a, b) /\ Pair(a, b) /\ Pair(b, a)  BY DEF Call
<1>9. ToneFirst'
  <2>1. (Caller = p /\ Answerer = q) \/ (Caller = q /\ Answerer = p)  BY <1>4
  <2>2. ToneFirst  BY DEF CallInv
  <2>3. \/ a.state # "ANSWERING" /\ b.state # "ANSWERING"
        \/ a.state = end[p].state /\ a.phase = end[p].phase
        \/ a.state # "ANSWERING" /\ a.phase \in Quieted
    OBVIOUS
  <2>4. b.state = end[q].state /\ b.phase = end[q].phase  OBVIOUS
  <2> HIDE DEF q, b
  <2>5. CASE Caller = p /\ Answerer = q
    <3>1. end[p].state # "ANSWERING" /\ (end[q].state = "ANSWERING" => end[p].phase \in Quieted)
      BY <2>2, <2>5 DEF ToneFirst, Quieted
    <3>2. a.state # "ANSWERING" /\ (b.state = "ANSWERING" => a.phase \in Quieted)  BY <2>3, <2>4, <3>1
    <3> QED  BY <1>3, <2>5, <3>2 DEF ToneFirst, Quieted
  <2>6. CASE Caller = q /\ Answerer = p
    <3>1. end[q].state # "ANSWERING" /\ (end[p].state = "ANSWERING" => end[q].phase \in Quieted)
      BY <2>2, <2>6 DEF ToneFirst, Quieted
    <3>2. b.state # "ANSWERING" /\ (a.state = "ANSWERING" => b.phase \in Quieted)  BY <2>3, <2>4, <3>1
    <3> QED  BY <1>3, <2>6, <3>2 DEF ToneFirst, Quieted
  <2> QED  BY <2>1, <2>5, <2>6
<1> HIDE DEF q, b
<1>6. Ends'
  <2>1. \A o \in Peer : EndInv(end'[o])  BY <1>3, <1>4, <1>5
  <2> QED  BY <1>3, <2>1 DEF Ends
<1>7. Matched'
  <2>1. (Caller = p /\ Answerer = q) \/ (Caller = q /\ Answerer = p)  BY <1>4
  <2> QED  BY <1>3, <1>5, <2>1 DEF Matched, Match
<1>8. Exchange'
  <2>1. \A o \in Peer : Pair(end'[o], end'[Other(o)])
    <3>1. Other(p) = q /\ Other(q) = p  BY <1>1 DEF q
    <3> QED  BY <1>3, <1>4, <1>5, <3>1
  <2> QED  BY <2>1 DEF Exchange, Pair
<1> QED  BY <1>6, <1>7, <1>8, <1>9 DEF CallInv

\* Whether a modem carries frames is always known.
LEMMA HdlcKnown ==
  ASSUME NEW s, EndInv(s)
  PROVE  s.tx_hdlc \in BOOLEAN /\ s.rx_hdlc \in BOOLEAN
<1>1. Tuned(s)  BY DEF EndInv, Radio
<1>2. s.phase \in Calling \cup Listening \cup Talking \cup Receiving \cup {"C_NON_ECM_TX", "C_ECM_TX", "E", "CALL_FINISHED"}
  BY <1>1 DEF Tuned, Phases, TxPhases, Calling, Listening, Talking, Receiving
<1> QED  BY <1>1, <1>2 DEF Tuned, Modems, Calling, Listening, Talking, Receiving

\* The line has no more mishaps than it is given.
LEMMA MishapRange ==
  ASSUME CallInv, NEW b, Mishap(b)
  PROVE  mishaps' \in 0 .. Mishaps
<1>1. mishaps \in 0 .. Mishaps /\ Mishaps \in Nat  BY T30Assumption DEF CallInv
<1> QED  BY <1>1 DEF Mishap

-----------------------------------------------------------------------------
(* The call begins as the invariant says, and every step keeps it           *)

\* A signal starts, or is missed.
LEMMA StartKeeps ==
  ASSUME CallInv, NEW p \in Peer, Start(p) \/ Miss(p)
  PROVE  CallInv'
<1> DEFINE s == end[p]
           q == Other(p)
<1>1. Call(s, end[q]) /\ DOMAIN end = Peer  BY CallOf DEF CallInv, Ends
<1>2. mishaps' \in 0 .. Mishaps  BY MishapRange DEF Start, Miss, CallInv
<1>3. s.on # "frames" /\ s.tx \in {"v21", "fast"} /\ end[q].hears = "no"
  BY DEF Start, Miss, Sending, Unheard, CanHear
<1>4. PICK on \in {"preamble", "missed"} : Becomes(p, [s EXCEPT !.on = on])
  BY <1>1 DEF Start, Miss, Becomes
<1> DEFINE t == [s EXCEPT !.on = on]
<1>5. Call(t, end[q]) /\ t.state = s.state /\ t.phase = s.phase  BY <1>1, <1>3, BeginsCall
<1> HIDE DEF t
<1>6. Becomes(p, t)  BY <1>4 DEF t
<1> QED  BY <1>2, <1>5, <1>6, OneStep

\* A signal is heard, or the fast modem fails to train on it.
LEMMA HearKeeps ==
  ASSUME CallInv, NEW q \in Peer, Hear(q) \/ FailToTrain(q)
  PROVE  CallInv'
<1> DEFINE s == end[q]
           p == Other(q)
           e == end[p]
<1>1. p \in Peer /\ Other(p) = q /\ Call(e, s)  BY CallOf
<1>2. mishaps' \in 0 .. Mishaps  BY MishapRange DEF Hear, FailToTrain, CallInv
<1>3. e.on = "preamble" /\ s.hears = "no" /\ CanHear(s, e.tx)  BY <1>1 DEF Hear, FailToTrain, Unheard
<1>4. s.state # "ANSWERING" /\ e.state # "ANSWERING"
  <2>1. s.state # "ANSWERING"  BY <1>1, <1>3, ToneAlone
  <2>2. e.state # "ANSWERING"  BY <1>1, <1>3, AnsweringTone DEF Call
  <2> QED  BY <2>1, <2>2
<1>5. EndInv(s)  BY <1>1 DEF Call
<1>6. /\ s.early \in BOOLEAN
      /\ \/ e.tx = "v21" /\ (s.rx = "v21" \/ (s.rx = "fast" /\ s.early = TRUE))
         \/ e.tx = "fast" /\ s.rx = "fast"
  <2>1. s.early \in BOOLEAN  BY <1>5 DEF EndInv, Signals
  <2> QED  BY <1>3, <2>1 DEF CanHear
<1>7. Hears(s)  BY <1>3, <1>4, <1>5, <1>6 DEF Hears
<1>8. \E t : /\ Becomes(q, t) /\ EndInv(t) /\ Listens(s, t) /\ t.hears \in {"v21", "fast", "noise"}
             /\ t.hears = "fast" => e.tx = "fast"
  <2> DEFINE c == Carried(e)
             v == FramingOk(CarrierUp(s))
             w == FramingOk(Trained(s, c))
             u == Trained(s, c)
             n == TrainingFailed(s)
  <2>1. CASE Hear(q)
    <3>1. CASE e.tx = "v21"
      <4>1. EndInv(v) /\ Listens(s, v) /\ v.hears = "v21"  BY <1>6, <1>7, <3>1, CarrierHeard
      <4>2. Becomes(q, v)  BY <2>1, <3>1 DEF Hear
      <4> HIDE DEF v
      <4> QED  BY <4>1, <4>2
    <3>2. CASE e.tx = "fast" /\ e.tx_hdlc /\ s.rx_hdlc
      <4>0. s.rx_hdlc = TRUE
        <5>1. s.rx_hdlc \in BOOLEAN  BY <1>5, HdlcKnown
        <5> QED  BY <3>2, <5>1
      <4>1. EndInv(w) /\ Listens(s, w) /\ w.hears = "fast"  BY <1>6, <1>7, <3>2, <4>0, FramesHeard
      <4>2. Becomes(q, w)  BY <2>1, <3>2 DEF Hear
      <4> HIDE DEF w
      <4> QED  BY <3>2, <4>1, <4>2
    <3>3. CASE e.tx = "fast" /\ ~(e.tx_hdlc /\ s.rx_hdlc)
      <4>1. EndInv(u) /\ Listens(s, u) /\ u.hears = "fast"  BY <1>6, <1>7, <3>3, TrainedHeard
      <4>2. Becomes(q, u)  BY <2>1, <3>3 DEF Hear
      <4> HIDE DEF u
      <4> QED  BY <3>3, <4>1, <4>2
    <3> QED  BY <1>6, <3>1, <3>2, <3>3
  <2>2. CASE FailToTrain(q)
    <3>1. EndInv(n) /\ Listens(s, n) /\ n.hears = "noise"
      BY <1>6, <1>7, <2>2, NoiseHeard DEF FailToTrain
    <3>2. Becomes(q, n)  BY <2>2 DEF FailToTrain
    <3> HIDE DEF n
    <3> QED  BY <3>1, <3>2
  <2> QED  BY <2>1, <2>2
<1>9. PICK t : /\ Becomes(q, t) /\ EndInv(t) /\ Listens(s, t) /\ t.hears \in {"v21", "fast", "noise"}
               /\ t.hears = "fast" => e.tx = "fast"
  BY <1>8
<1>10. Call(e, t) /\ t.state # "ANSWERING"  BY <1>1, <1>3, <1>7, <1>9, HeardCall
<1>11. Call(t, end[Other(q)])  BY <1>10 DEF Call, Match
<1> QED  BY <1>2, <1>4, <1>9, <1>10, <1>11, OneStep

\* The carrier is lost, or ends.
LEMMA LoseKeeps ==
  ASSUME CallInv, NEW q \in Peer, LoseCarrier(q)
  PROVE  CallInv'
<1> DEFINE s == end[q]
           bits == s.hears # "v21" /\ ~s.rx_hdlc
<1>1. Call(s, end[Other(q)])  BY CallOf
<1>2. mishaps' \in 0 .. Mishaps  BY MishapRange DEF LoseCarrier
<1>3. PICK good \in BOOLEAN : Becomes(q, CarrierDown(s, bits, good))  BY DEF LoseCarrier
<1>4. s.hears # "no" /\ end[Other(q)].on = "off"  BY DEF LoseCarrier
<1> DEFINE t == CarrierDown(s, bits, good)
<1>5. Silenced(s, t)
  <2>1. EndInv(s) /\ bits \in BOOLEAN  BY <1>1 DEF Call
  <2>2. bits <=> s.hears # "v21" /\ ~s.rx_hdlc  OBVIOUS
  <2> HIDE DEF bits
  <2> QED  BY <1>4, <2>1, <2>2, SilencedEnd
<1>6. Becomes(q, t)  BY <1>3
<1> HIDE DEF t
<1>7. Call(t, end[Other(q)]) /\ t.state # "ANSWERING"  BY <1>1, <1>4, <1>5, CarrierCall
<1>8. end[Other(q)].state # "ANSWERING"  BY <1>4, ToneAlone
<1> QED  BY <1>2, <1>6, <1>7, <1>8, OneStep

\* The transmitter has no frame left.
LEMMA UnderflowKeeps ==
  ASSUME CallInv, NEW p \in Peer, Underflow(p)
  PROVE  CallInv'
<1> DEFINE s == end[p]
           a == SendComplete([s EXCEPT !.on = "frames"])
<1>1. Call(s, end[Other(p)])  BY CallOf
<1>2. mishaps' \in 0 .. Mishaps  BY DEF Underflow, CallInv
<1>3. s.on \in {"preamble", "missed"} /\ s.tx_hdlc /\ s.buffer = NoFrame  BY DEF Underflow
<1>4. Call(a, end[Other(p)]) /\ a.state # "ANSWERING"  BY <1>1, <1>3, UnderflowCall
<1>5. Becomes(p, a)  BY DEF Underflow
<1>6. end[Other(p)].state # "ANSWERING"  BY <1>3, ToneAlone
<1> HIDE DEF a
<1> QED  BY <1>2, <1>4, <1>5, <1>6, OneStep

\* The signal ends: of the fast modem without frames, or of any after its last frame.
LEMMA EndSignalKeeps ==
  ASSUME CallInv, NEW p \in Peer, EndSignal(p)
  PROVE  CallInv'
<1> DEFINE s == end[p]
           a == SendComplete(Stops(s))
<1>1. Call(s, end[Other(p)])  BY CallOf
<1>2. mishaps' \in 0 .. Mishaps  BY DEF EndSignal, CallInv
<1>3. \/ s.tx = "fast" /\ ~s.tx_hdlc
      \/ s.tx_hdlc /\ s.on = "frames" /\ s.buffer = NoFrame /\ s.tx_end
  BY DEF EndSignal
<1>4. Call(a, end[Other(p)]) /\ a.state # "ANSWERING"  BY <1>1, <1>3, SignalCall
<1>5. Becomes(p, a)  BY DEF EndSignal, Stops
<1>6. end[Other(p)].state # "ANSWERING"  BY <1>3, ToneAlone
<1> HIDE DEF a
<1> QED  BY <1>2, <1>4, <1>5, <1>6, OneStep

\* CED, CNG or a pause ends.
LEMMA EndToneKeeps ==
  ASSUME CallInv, NEW p \in Peer, EndTone(p)
  PROVE  CallInv'
<1> DEFINE s == end[p]
           a == SendComplete([s EXCEPT !.transmit = FALSE])
<1>1. Call(s, end[Other(p)])  BY CallOf
<1>2. mishaps' \in 0 .. Mishaps  BY DEF EndTone, CallInv
<1>3. Tone(s) /\ Becomes(p, a)  BY DEF EndTone
<1>4. Call(a, end[Other(p)]) /\ a.state # "ANSWERING" /\ (s.state = "ANSWERING" \/ a.phase = "CALL_FINISHED")
  BY <1>1, <1>3, ToneCall
<1>5. s.state = "ANSWERING" => end[Other(p)].state # "ANSWERING"
  BY ToneAlone DEF CallInv, ToneFirst
<1> HIDE DEF a
<1> QED  BY <1>2, <1>3, <1>4, <1>5, OneStep DEF Quieted

\* A frame is lost on the line.
LEMMA LostKeeps ==
  ASSUME CallInv, NEW p \in Peer, Lost(p)
  PROVE  CallInv'
<1> DEFINE s == end[p]
           a == SendComplete(Wants(s))
<1>1. Call(s, end[Other(p)])  BY CallOf
<1>2. mishaps' \in 0 .. Mishaps  BY MishapRange DEF Lost
<1>3. s.on # "off" /\ s.buffer # NoFrame /\ s.tx_hdlc  BY DEF Lost
<1>4. s.tx_hdlc = TRUE
  <2>1. s.tx_hdlc \in BOOLEAN  BY <1>1, HdlcKnown DEF Call
  <2> QED  BY <1>3, <2>1
<1>5. Call(a, end[Other(p)]) /\ a.state # "ANSWERING"  BY <1>1, <1>3, <1>4, LostCall
<1>6. Becomes(p, a)  BY DEF Lost, Wants
<1>7. end[Other(p)].state # "ANSWERING"  BY <1>3, ToneAlone
<1> HIDE DEF a
<1> QED  BY <1>2, <1>5, <1>6, <1>7, OneStep

\* A frame arrives.
LEMMA FrameKeeps ==
  ASSUME CallInv, NEW p \in Peer, Frame(p)
  PROVE  CallInv'
<1> DEFINE s == end[p]
           q == Other(p)
           e == end[q]
           a == SendComplete(Wants(s))
<1>1. Call(s, e)  BY CallOf
<1>2. PICK quality :
        /\ Comes(s.buffer, quality) /\ Mishap(quality # "GOOD")
        /\ end' = [end EXCEPT ![p] = a, ![q] = Accept(e, s.buffer, quality)]
  BY DEF Frame, Wants, Qualities, Comes
<1>3. mishaps' \in 0 .. Mishaps  BY <1>2, MishapRange
<1>4. s.tx_hdlc = TRUE /\ s.buffer # NoFrame /\ s.on # "off" /\ e.hears = s.tx /\ (s.tx = "fast" => e.rx_hdlc = TRUE)
  <2>1. s.tx_hdlc \in BOOLEAN /\ e.rx_hdlc \in BOOLEAN  BY <1>1, HdlcKnown DEF Call
  <2> QED  BY <2>1 DEF Frame, Follows
<1> DEFINE b == Accept(e, s.buffer, quality)
<1>5. Call(a, b) /\ a.state # "ANSWERING" /\ b.state # "ANSWERING"  BY <1>1, <1>2, <1>4, FrameCall
<1>6. end' = [end EXCEPT ![p] = a, ![q] = b]  BY <1>2
<1> HIDE DEF a, b
<1> QED  BY <1>3, <1>5, <1>6, BothStep

\* T4 runs out.
LEMMA ExpireT4Keeps ==
  ASSUME CallInv, NEW p \in Peer, ExpireT4(p)
  PROVE  CallInv'
<1> DEFINE s == end[p]
           q == Other(p)
           e == end[q]
           a == T4Expired(Rung(s))
           w == e.timer_t2_t4 /\ ~e.timer_is_t4
           b == [e EXCEPT !.waited = w]
<1>1. Call(s, e) /\ q \in Peer /\ q # p  BY CallOf
<1>2. mishaps' \in 0 .. Mishaps  BY DEF ExpireT4, CallInv
<1>3. /\ ~Finished(s) /\ ~Sending(s) /\ ~Tone(e)
      /\ s.hears = "no" \/ (e.on # "off" /\ ~Sending(e))
      /\ e.hears = "no" \/ s.on # "off"
  BY DEF ExpireT4, Idle
<1>4. s.timer_t2_t4 = TRUE /\ s.timer_is_t4 = TRUE
  <2>1. s.timer_t2_t4 \in BOOLEAN /\ s.timer_is_t4 \in BOOLEAN
    BY <1>1, Parts DEF Call, EndInv, Counts, Sides
  <2> QED  BY <2>1 DEF ExpireT4
<1>5. Call(a, e) /\ a.state # "ANSWERING"  BY <1>1, <1>3, <1>4, T4Call
<1>6. e.state # "ANSWERING"  BY <1>1, <1>3, AnsweringTone DEF Call
<1>7. end' = [end EXCEPT ![p] = a, ![q] = b]
  <2>1. end' = [end EXCEPT ![p] = a, ![q].waited = w]  BY DEF ExpireT4, Rung
  <2> QED  BY <1>1, <2>1
<1>8. w \in BOOLEAN  OBVIOUS
<1> HIDE DEF a, w
<1>9. Call(a, b) /\ b.state = e.state  BY <1>5, <1>8, WaitedCall
<1> HIDE DEF b
<1> QED  BY <1>2, <1>5, <1>6, <1>7, <1>9, BothStep

\* T2 runs out.
LEMMA ExpireT2Keeps ==
  ASSUME CallInv, NEW p \in Peer, ExpireT2(p)
  PROVE  CallInv'
<1> DEFINE s == end[p]
           e == end[Other(p)]
           a == T2Expired(Rung(s))
<1>1. Call(s, e)  BY CallOf
<1>2. mishaps' \in 0 .. Mishaps  BY DEF ExpireT2, CallInv
<1>3. /\ ~Finished(s) /\ ~Sending(s) /\ ~Tone(e)
      /\ s.hears = "no" \/ (e.on # "off" /\ ~Sending(e))
      /\ e.hears = "no" \/ s.on # "off"
  BY DEF ExpireT2, Idle
<1>4. s.timer_t2_t4 = TRUE /\ s.timer_is_t4 = FALSE
  <2>1. s.timer_t2_t4 \in BOOLEAN /\ s.timer_is_t4 \in BOOLEAN
    BY <1>1, Parts DEF Call, EndInv, Counts, Sides
  <2> QED  BY <2>1 DEF ExpireT2
<1>5. Call(a, e) /\ a.state # "ANSWERING"  BY <1>1, <1>3, <1>4, T2Call
<1>6. e.state # "ANSWERING"  BY <1>1, <1>3, AnsweringTone DEF Call
<1>7. Becomes(p, a)  BY DEF ExpireT2, Rung
<1> HIDE DEF a
<1> QED  BY <1>2, <1>5, <1>6, <1>7, OneStep

\* T0 or T1 runs out.
LEMMA ExpireT0T1Keeps ==
  ASSUME CallInv, NEW p \in Peer, ExpireT0T1(p)
  PROVE  CallInv'
<1> DEFINE s == end[p]
           e == end[Other(p)]
           a == CallTimerExpired(s)
<1>1. Call(s, e)  BY CallOf
<1>2. mishaps' \in 0 .. Mishaps  BY MishapRange DEF ExpireT0T1
<1>3. ~Finished(s) /\ ~Sending(s)  BY DEF ExpireT0T1
<1>4. s.timer_t0_t1 = TRUE
  <2>1. s.timer_t0_t1 \in BOOLEAN  BY <1>1, Parts DEF Call, EndInv, Counts
  <2> QED  BY <2>1 DEF ExpireT0T1
<1>5. /\ Call(a, e)
      /\ a.state # "ANSWERING" \/ (a.state = s.state /\ a.phase = s.phase)
      /\ s.phase \in Quieted => a.phase = "E"
  BY <1>1, <1>3, <1>4, CallTimerCall DEF Quieted
<1>6. Becomes(p, a)  BY DEF ExpireT0T1, CallTimerExpired, Unset
<1>7. e.state = "ANSWERING" => s.phase \in Quieted  BY ToneAlone
<1> HIDE DEF a
<1> QED  BY <1>2, <1>5, <1>6, <1>7, OneStep DEF Quieted

\* An end hangs up.
LEMMA TerminateKeeps ==
  ASSUME CallInv, NEW p \in Peer, Terminate(p)
  PROVE  CallInv'
<1> DEFINE s == end[p]
           e == end[Other(p)]
           a == Terminated(s)
<1>1. Call(s, e)  BY CallOf
<1>2. mishaps' \in 0 .. Mishaps  BY MishapRange DEF Terminate
<1>3. Call(a, e) /\ a.state # "ANSWERING" /\ a.phase = "CALL_FINISHED"
  BY <1>1, TerminateCall DEF Terminate
<1>4. Becomes(p, a)  BY DEF Terminate, Terminated, HungUp
<1> HIDE DEF a
<1> QED  BY <1>2, <1>3, <1>4, OneStep DEF Quieted

\* Every step of the call keeps the invariant.
LEMMA CallStep ==
  ASSUME CallInv, [Next]_vars
  PROVE  CallInv'
<1>1. CASE UNCHANGED vars
  BY <1>1 DEF vars, CallInv, Ends, Matched, Exchange, ToneFirst
<1>2. CASE Next
  <2>1. PICK p \in Peer : Modem(p) \/ Timer(p) \/ Terminate(p)  BY <1>2 DEF Next
  <2>2. CASE Modem(p)
    BY <2>2, StartKeeps, HearKeeps, LoseKeeps, UnderflowKeeps, EndSignalKeeps, EndToneKeeps, LostKeeps, FrameKeeps
    DEF Modem
  <2>3. CASE Timer(p)  BY <2>3, ExpireT4Keeps, ExpireT2Keeps, ExpireT0T1Keeps DEF Timer
  <2>4. CASE Terminate(p)  BY <2>4, TerminateKeeps
  <2> QED  BY <2>1, <2>2, <2>3, <2>4
<1> QED  BY <1>1, <1>2

\* How an end begins.
LEMMA EndBegins ==
  ASSUME NEW p \in Peer, NEW sc \in Scenarios
  PROVE  LET s == EndInit(p, sc) IN
         /\ EndInv(s) /\ s.hears = "no" /\ s.ecm_allowed = sc.ecm /\ s.tx_file = (p = sc.sender)
         /\ s.state = (IF p = Caller THEN "T" ELSE "ANSWERING") /\ (p = Caller => s.phase = "A_CNG")
<1> DEFINE s == EndInit(p, sc)
<1>1. sc \in [compatible : BOOLEAN, ecm : BOOLEAN, sender : {Caller, Answerer}]  BY T30Assumption
<1>2. /\ Fields \subseteq DOMAIN s /\ s.hears = "no" /\ s.ecm_allowed = sc.ecm /\ s.tx_file = (p = sc.sender)
      /\ s.rx_file = (p # sc.sender)
      /\ s.state = (IF p = Caller THEN "T" ELSE "ANSWERING") /\ s.phase = (IF p = Caller THEN "A_CNG" ELSE "A_CED")
      /\ s.tx = (IF p = Caller THEN "cng" ELSE "ced")
  BY DEF EndInit, Fields
<1>3. /\ s.next_phase = "IDLE" /\ s.step = 0 /\ s.current_status = "OK" /\ s.rx_signal_present = FALSE
      /\ s.rx_trained = FALSE /\ s.far_end_detected = FALSE /\ s.timer_t0_t1 = TRUE /\ s.timer_t2_t4 = FALSE
      /\ s.timer_is_t4 = FALSE /\ s.waited = FALSE
  BY DEF EndInit
<1>4. /\ s.retries = 0 /\ s.ppr_count = 0 /\ s.next_tx_step = "none" /\ s.next_rx_step = "none"
      /\ s.compatible = sc.compatible /\ s.ecm = FALSE
  BY DEF EndInit
<1>5. /\ s.page = 1 /\ s.ecm_block = 0 /\ s.ecm_len = {} /\ s.ecm_current_frame = 0 /\ s.ecm_at_page_end = FALSE
      /\ s.in_message = FALSE /\ s.image = <<>> /\ s.got = {}
  BY DEF EndInit
<1>6. /\ s.transmit = TRUE /\ s.tx_hdlc = FALSE /\ s.on = "off" /\ s.buffer = NoFrame /\ s.tx_end = FALSE
      /\ s.rx = "v21" /\ s.rx_hdlc = TRUE /\ s.early = FALSE
  BY DEF EndInit
<1> HIDE DEF s
<1>7. Radio(s) /\ Signals(s)
  <2>1. CASE p = Caller
    BY <1>2, <1>3, <1>6, <2>1 DEF Radio, Signals, Tuned, Modems, Phases, TxPhases, Listening, Talking
  <2>2. CASE p # Caller
    BY <1>2, <1>3, <1>6, <2>2 DEF Radio, Signals, Tuned, Modems, Phases, TxPhases, Listening, Talking
  <2> QED  BY <2>1, <2>2
<1>8. Mode(s)
  <2>1. CASE p = Caller
    <3>1. InT(s)  BY <1>2, <1>3, <1>6, <2>1 DEF InT, Free, Empty, NoTimer
    <3> QED  BY <1>2, <2>1, <3>1 DEF Mode, States
  <2>2. CASE p # Caller
    <3>1. InAnswering(s)  BY <1>2, <1>3, <1>6, <2>2 DEF InAnswering, Free, Empty, NoTimer
    <3> QED  BY <1>2, <2>2, <3>1 DEF Mode, States
  <2> QED  BY <2>1, <2>2
<1>9. Whole(s)
  <2>1. s.tx_file \in BOOLEAN /\ s.rx_file \in BOOLEAN /\ s.rx_file # s.tx_file
    <3>1. CASE p = sc.sender  BY <1>2, <3>1
    <3>2. CASE p # sc.sender  BY <1>2, <3>2
    <3> QED  BY <3>1, <3>2
  <2>2. s.ecm_allowed \in BOOLEAN /\ s.compatible \in BOOLEAN  BY <1>1, <1>2, <1>4
  <2>3. Tries \in Nat /\ Pages \in Nat \ {0} /\ Blocks \in Nat /\ BlockFrames \in Nat /\ ExtraRcp \in Nat  BY T30Assumption
  <2>4. s.retries \in 0 .. Tries + 1 /\ s.page \in 1 .. Pages + 1 /\ s.ecm_block \in 0 .. Blocks
        /\ s.ecm_current_frame \in 0 .. BlockFrames + ExtraRcp + 1 /\ s.ppr_count \in 0 .. 4
    BY <1>4, <1>5, <2>3
  <2> QED  BY <1>3, <1>4, <1>5, <2>1, <2>2, <2>4 DEF Whole, Steps
<1>10. Stands(s)
  <2>1. s.state \in {"T", "ANSWERING"}  BY <1>2
  <2>2. s.retries <= Tries /\ s.page <= Pages  BY <1>4, <1>5, T30Assumption
  <2> QED  BY <2>1, <2>2 DEF Stands, SendStates, ReceiveStates, AnswerStates, Over
<1>11. Sides(s) /\ Counts(s)
  <2>1. Ready(s)  BY <1>2, <1>3, <1>6, <1>7 DEF Ready
  <2> QED  BY <1>3, <1>9, <1>10, <2>1, Joined
<1>12. Carries(s)
  <2>1. s.buffer.type = "none"  BY <1>6 DEF NoFrame
  <2>2. s.page = 1 /\ s.ppr_count <= 3  BY <1>4, <1>5
  <2> QED  BY <2>1, <2>2 DEF Carries
<1>13. EndInv(s)  BY <1>2, <1>7, <1>8, <1>11, <1>12 DEF EndInv
<1> QED  BY <1>2, <1>13 DEF s

\* A call begins within the invariant.
LEMMA CallBegins ==
  ASSUME Init
  PROVE  CallInv
<1>1. PICK sc \in Scenarios : end = [p \in Peer |-> EndInit(p, sc)]  BY DEF Init
<1>2. DOMAIN end = Peer /\ end = [p \in Peer |-> end[p]] /\ \A p \in Peer : end[p] = EndInit(p, sc)
  BY <1>1
<1>3. \A p \in Peer : LET s == end[p] IN
         /\ EndInv(s) /\ s.hears = "no" /\ s.ecm_allowed = sc.ecm /\ s.tx_file = (p = sc.sender)
         /\ s.state = (IF p = Caller THEN "T" ELSE "ANSWERING") /\ (p = Caller => s.phase = "A_CNG")
  BY <1>2, EndBegins
<1>4. Caller # Answerer /\ Mishaps \in Nat /\ sc.sender \in {Caller, Answerer}  BY T30Assumption
<1>5. Caller \in Peer /\ Answerer \in Peer /\ \A p \in Peer : Other(p) \in Peer  BY DEF Peer, Other
<1>6. mishaps \in 0 .. Mishaps  BY <1>4 DEF Init
<1>7. Ends  BY <1>2, <1>3 DEF Ends
<1>8. Matched
  <2>1. end[Caller].tx_file # end[Answerer].tx_file
    <3>1. CASE Caller = sc.sender  BY <1>3, <1>4, <1>5, <3>1
    <3>2. CASE Answerer = sc.sender  BY <1>3, <1>4, <1>5, <3>2
    <3> QED  BY <1>4, <3>1, <3>2
  <2> QED  BY <1>3, <1>5, <2>1 DEF Matched
<1>9. ToneFirst  BY <1>3, <1>4, <1>5 DEF ToneFirst
<1>10. Exchange
  <2>1. SUFFICES ASSUME NEW p \in Peer
                 PROVE  /\ Turns(end[Other(p)], end[p]) /\ BlockSent(end[Other(p)], end[p])
                        /\ Continues(end[p], end[Other(p)]) /\ Training(end[p], end[Other(p)])
                        /\ Opening(end[p], end[Other(p)])
    BY DEF Exchange
  <2> DEFINE q == Other(p)
  <2>2. end[q].hears = "no" /\ end[q].state \in {"T", "ANSWERING"} /\ end[p].state \in {"T", "ANSWERING"}
    BY <1>3, <1>5
  <2> HIDE DEF q
  <2>3. Turns(end[q], end[p]) /\ BlockSent(end[q], end[p])  BY <2>2 DEF Turns, BlockSent
  <2>4. Continues(end[p], end[q]) /\ Training(end[p], end[q]) /\ Opening(end[p], end[q])
    BY <2>2 DEF Continues, Training, Opening
  <2> QED  BY <2>3, <2>4 DEF q
<1> QED  BY <1>6, <1>7, <1>8, <1>9, <1>10 DEF CallInv

-----------------------------------------------------------------------------
(* What the invariant says of the properties                                *)

\* The type of the call follows from the invariant.
LEMMA TypesHold ==
  ASSUME CallInv
  PROVE  TypeOK
<1>1. mishaps \in 0 .. Mishaps  BY DEF CallInv
<1>2. SUFFICES ASSUME NEW p \in Peer
               PROVE  LET s == end[p] IN
       /\ s.state \in States /\ s.phase \in Phases /\ s.next_phase \in Phases \cup {"IDLE"}
       /\ s.step \in 0 .. 4 /\ s.current_status \in {"OK", "NOCARRIER", "ERROR"}
       /\ s.retries \in 0 .. Tries + 1 /\ s.ppr_count \in 0 .. 4
       /\ s.next_tx_step \in Steps /\ s.next_rx_step \in Steps
       /\ s.page \in 1 .. Pages + 1 /\ s.ecm_block \in 0 .. Blocks
       /\ s.ecm_len \subseteq 1 .. BlockFrames
       /\ s.ecm_current_frame \in 0 .. BlockFrames + ExtraRcp + 1
       /\ s.tx \in {"none", "cng", "ced", "v21", "fast", "pause", "done"}
       /\ s.rx \in {"none", "v21", "fast", "done"}
       /\ s.on \in {"off", "preamble", "missed", "frames"}
       /\ s.hears \in {"no", "v21", "fast", "noise"}
       /\ \A b \in {s.rx_signal_present, s.rx_trained, s.far_end_detected, s.timer_t0_t1,
                    s.timer_t2_t4, s.timer_is_t4, s.waited, s.ecm, s.ecm_at_page_end,
                    s.in_message, s.transmit, s.tx_hdlc, s.rx_hdlc, s.tx_end, s.early} : b \in BOOLEAN
  BY <1>1 DEF TypeOK
<1> DEFINE s == end[p]
<1>3. EndInv(s)  BY DEF CallInv, Ends
<1> HIDE DEF s
<1>4. Radio(s) /\ Signals(s) /\ Mode(s) /\ Sides(s) /\ Counts(s)  BY <1>3 DEF EndInv
<1>5. s.phase \in Phases /\ s.tx_hdlc \in BOOLEAN /\ s.rx_hdlc \in BOOLEAN
  BY <1>3, <1>4, HdlcKnown DEF Radio, Tuned
<1>6. s.phase \in Calling \cup Listening \cup Talking \cup Receiving \cup {"C_NON_ECM_TX", "C_ECM_TX", "E", "CALL_FINISHED"}
  BY <1>5 DEF Phases, TxPhases, Calling, Listening, Talking, Receiving
<1>7. s.tx \in {"none", "cng", "ced", "v21", "fast", "pause", "done"} /\ s.rx \in {"none", "v21", "fast", "done"}
  BY <1>4, <1>6 DEF Radio, Tuned, Modems, Calling, Listening, Talking, Receiving
<1>8. s.transmit \in BOOLEAN  BY <1>4, <1>7 DEF Radio, Tuned
<1>9. s.rx_trained \in BOOLEAN /\ s.rx_signal_present \in BOOLEAN /\ s.early \in BOOLEAN
      /\ s.on \in {"off", "preamble", "missed", "frames"} /\ s.hears \in {"no", "v21", "fast", "noise"}
  BY <1>4 DEF Signals
<1>10. /\ s.state \in States /\ s.next_phase \in Phases \cup {"IDLE"}
       /\ s.step \in 0 .. 4 /\ s.current_status \in {"OK", "NOCARRIER", "ERROR"}
       /\ s.retries \in 0 .. Tries + 1 /\ s.ppr_count \in 0 .. 4
       /\ s.next_tx_step \in Steps /\ s.next_rx_step \in Steps
       /\ s.page \in 1 .. Pages + 1 /\ s.ecm_block \in 0 .. Blocks
       /\ s.ecm_len \subseteq 1 .. BlockFrames
       /\ s.ecm_current_frame \in 0 .. BlockFrames + ExtraRcp + 1
  BY <1>4 DEF Mode, Counts
<1>11. /\ s.far_end_detected \in BOOLEAN /\ s.timer_t0_t1 \in BOOLEAN /\ s.timer_t2_t4 \in BOOLEAN
       /\ s.timer_is_t4 \in BOOLEAN /\ s.waited \in BOOLEAN /\ s.ecm \in BOOLEAN /\ s.ecm_at_page_end \in BOOLEAN
       /\ s.in_message \in BOOLEAN /\ s.tx_end \in BOOLEAN
  BY <1>4 DEF Counts, Sides
<1>12. \A b \in {s.rx_signal_present, s.rx_trained, s.far_end_detected, s.timer_t0_t1,
                    s.timer_t2_t4, s.timer_is_t4, s.waited, s.ecm, s.ecm_at_page_end,
                    s.in_message, s.transmit, s.tx_hdlc, s.rx_hdlc, s.tx_end, s.early} : b \in BOOLEAN
  BY <1>5, <1>8, <1>9, <1>11
<1> QED  BY <1>5, <1>7, <1>9, <1>10, <1>12 DEF s

\* An end with something to send sends it.
LEMMA Sends ==
  ASSUME NEW s, EndInv(s),
         \/ s.phase = "C_NON_ECM_TX"
         \/ s.phase \in {"B_TX", "D_TX", "C_ECM_TX"} /\ (s.buffer # NoFrame \/ s.tx_end = TRUE)
  PROVE  Sending(s)
<1>1. Radio(s)  BY DEF EndInv
<1>2. s.tx \in {"v21", "fast"} /\ (s.phase = "C_NON_ECM_TX" => s.tx_hdlc = FALSE)
  BY <1>1 DEF Radio, Tuned, Modems, Talking
<1>3. s.transmit = TRUE  BY <1>1, <1>2 DEF Radio
<1> QED  BY <1>2, <1>3 DEF Sending

\* An end that sends a command has something to do.
LEMMA CommandActs ==
  ASSUME NEW s, EndInv(s), NEW phase \in {"B_TX", "D_TX", "C_ECM_TX"}, NEW types, Command(s, phase, types),
         "none" \notin types
  PROVE  Acts(s)
<1>1. s.phase = phase /\ (s.buffer.type \in types \/ s.tx_end = TRUE)  BY DEF Command, Ended
<1>2. s.buffer # NoFrame \/ s.tx_end = TRUE  BY <1>1 DEF NoFrame
<1> QED  BY <1>1, <1>2, Sends DEF Acts

\* An end in a state that no timer guards is never left with nothing to do.
LEMMA EndActs ==
  ASSUME NEW s, EndInv(s), s.state # "CALL_FINISHED", s.state \notin Sleepy
  PROVE  Acts(s)
<1>2. EndInv(s)  OBVIOUS
<1>4. Mode(s) /\ Radio(s)  BY <1>2 DEF EndInv
<1>5. CASE s.state = "ANSWERING"  BY <1>2, <1>5, AnsweringTone DEF Acts
<1>6. CASE s.state = "T"  BY <1>4, <1>6 DEF Mode, InT, Acts
<1>7. CASE s.state = "R"
  <2>1. InR(s)  BY <1>4, <1>7 DEF Mode
  <2>2. CASE s.phase = "B_TX"
    <3>1. s.buffer # NoFrame \/ s.tx_end = TRUE  BY <2>1, <2>2 DEF InR, Simple, DisFrame, NoFrame, Ended
    <3> QED  BY <1>2, <2>2, <3>1, Sends DEF Acts
  <2>3. CASE s.timer_t2_t4 = TRUE  BY <2>3 DEF Acts
  <2>4. CASE Held(s, "B_TX")  BY <2>4 DEF Acts, Held
  <2> QED  BY <2>1, <2>2, <2>3, <2>4 DEF InR
<1>8. CASE s.state = "D_TCF"
  <2>1. s.phase = "C_NON_ECM_TX"  BY <1>4, <1>8 DEF Mode, InD_TCF
  <2> QED  BY <1>2, <2>1, Sends DEF Acts
<1>9. CASE s.state = "I"
  <2>1. s.phase = "C_NON_ECM_TX" \/ Held(s, "C_NON_ECM_TX")  BY <1>4, <1>9 DEF Mode, InI
  <2> QED  BY <1>2, <2>1, Sends DEF Acts, Held
<1>10. CASE s.state = "II_Q"
  <2>1. s.next_tx_step \in {"MPS", "EOP"} /\ (Asked(s, "D_RX") \/ Command(s, "D_TX", {s.next_tx_step}))
    BY <1>4, <1>10 DEF Mode, InII_Q, CheckNextTxStep
  <2> QED  BY <1>2, <2>1, CommandActs DEF Acts, Asked
<1>11. CASE s.state = "IV"
  <2>1. Held(s, "C_ECM_TX") \/ Command(s, "C_ECM_TX", {"FCD", "RCP"})  BY <1>4, <1>11 DEF Mode, InIV
  <2> QED  BY <1>2, <2>1, CommandActs DEF Acts, Held
<1>12. CASE s.state \in {"IV_PPS_NULL", "IV_PPS_Q"}
  <2>1. Asked(s, "D_RX") \/ Command(s, "D_TX", {"PPS"})  BY <1>4, <1>12 DEF Mode, InIV_PPS
  <2> QED  BY <1>2, <2>1, CommandActs DEF Acts, Asked
<1>13. CASE s.state \in {"F_CFR", "F_FTT"}
  <2>1. Asked(s, "B_RX") \/ Command(s, "B_TX", {"CFR"}) \/ Command(s, "B_TX", {"FTT"})
    BY <1>4, <1>13 DEF Mode, InF_CFR, InF_FTT
  <2> QED  BY <1>2, <2>1, CommandActs DEF Acts, Asked
<1>14. ASSUME NEW types, Answer(s, types), "none" \notin types
       PROVE  Acts(s)
  <2>1. Held(s, "D_TX") \/ Command(s, "D_TX", types)  BY <1>14 DEF Answer
  <2> QED  BY <1>2, <1>14, <2>1, CommandActs DEF Acts, Held
<1>15. CASE s.state \in {"F_POST_RCP_MCF", "F_POST_RCP_PPR", "III_Q_MCF", "III_Q_RTP", "III_Q_RTN", "C"}
  <2>1. \/ Answer(s, {"MCF"}) \/ Answer(s, {"PPR"}) \/ Answer(s, {"RTP"}) \/ Answer(s, {"RTN"})
        \/ Answer(s, {"DCN", "TSI", "CTC"})
    BY <1>4, <1>15 DEF Mode, InIII, InC
  <2> QED  BY <1>14, <2>1
<1>16. CASE s.state = "B"
  <2>1. s.tx = "pause"  BY <1>4, <1>16 DEF Mode, InB, Radio, Tuned, Modems
  <2>2. s.transmit = TRUE  BY <1>4, <2>1 DEF Radio
  <2> QED  BY <2>1, <2>2 DEF Acts, Tone
<1>17. s.state \in States \ (Sleepy \cup {"CALL_FINISHED"})  BY <1>4 DEF Mode
<1> QED
  BY <1>5, <1>6, <1>7, <1>8, <1>9, <1>10, <1>11, <1>12, <1>13, <1>15, <1>16, <1>17 DEF States, Sleepy

\* Nobody waits without a timer, by the mode of each end.
LEMMA WaitsHold ==
  ASSUME CallInv
  PROVE  WaitsAreTimed
<1>1. \A p \in Peer : EndInv(end[p])  BY DEF CallInv, Ends
<1> QED  BY <1>1, EndActs DEF WaitsAreTimed, Finished

\* The invariant of a call holds throughout.
LEMMA CallsKept == Spec => []CallInv
<1>1. Init => CallInv  BY CallBegins
<1>2. CallInv /\ [Next]_vars => CallInv'  BY CallStep
<1> QED  BY <1>1, <1>2, PTL DEF Spec

\* The ends keep to the ranges of their states, phases and counters, whatever
\* the line loses and whichever timers run out (TypeOK).
THEOREM TypesKept == Spec => []TypeOK
<1>1. CallInv => TypeOK  BY TypesHold
<1> QED  BY <1>1, CallsKept, PTL

\* An end that is in the call and neither sends nor hears has a timer that will
\* wake it, but in the states that are named (WaitsAreTimed).
THEOREM WaitsTimed == Spec => []WaitsAreTimed
<1>1. CallInv => WaitsAreTimed  BY WaitsHold
<1> QED  BY <1>1, CallsKept, PTL

-----------------------------------------------------------------------------
(* What the receiver has of the document                                    *)

Setup == {"ANSWERING", "T", "R", "D", "D_TCF", "D_POST_TCF"}
Waiting == {"ANSWERING", "T", "R", "F_TCF", "F_FTT"}

\* A frame of a block, or a page without error correction.
Thing ==
  [type : {"FCD"}, page : Nat, block : Nat, no : Nat] \cup [page : Nat, block : Nat, no : Nat]

Page == Seq(Thing)

\* The places that the sender has done with, and how many follow with what it
\* is sending.
Done(s) ==
  IF s.ecm_allowed THEN ((s.page - 1) * Blocks + (IF s.ecm_block = 0 THEN 0 ELSE s.ecm_block - 1)) * BlockFrames
  ELSE s.page - 1
Unit(s) == IF s.ecm_allowed THEN BlockFrames ELSE 1

\* What it is sending, and the end of it.
Chunk(s) ==
  IF s.ecm_allowed THEN [n \in 1 .. BlockFrames |-> FcdFrame(s.page, s.ecm_block, n)]
  ELSE <<[page |-> s.page, block |-> 0, no |-> 0]>>
EndOf(s) ==
  IF s.ecm_allowed THEN FcdFrame(s.page, s.ecm_block, BlockFrames) ELSE [page |-> s.page, block |-> 0, no |-> 0]

\* The file, and with error correction the page that is being put together.
Draft(r) == IF r.ecm_allowed THEN r.image ELSE <<>>
With(file, page) == IF page = <<>> THEN file ELSE Append(file, page)
Book(file, r) == With(file, Draft(r))

Latest(book) == LET page == book[Len(book)] IN page[Len(page)]
Has(book, n) == \E i \in DOMAIN book : \E j \in DOMAIN book[i] : Place(book[i][j]) = n

\* The last thing in the book is the end of what the sender is sending.
UpToDate(s, book) == book # <<>> /\ Latest(book) = EndOf(s)

\* The document from its beginning to where the sender is, or was before.
Filed(s, book) ==
  /\ InOrder(book)
  /\ book = <<>> => Done(s) = 0
  /\ book # <<>> => Place(Latest(book)) = Done(s) \/ UpToDate(s, book)
  /\ \A n \in 1 .. Done(s) : Has(book, n)

\* The frames of the block that is being sent.
Gathers(s, r) ==
  \A g \in r.got : s.ecm_allowed = TRUE /\ g.no \in 1 .. BlockFrames /\ g = FcdFrame(s.page, s.ecm_block, g.no)

\* Before the first block there is nothing.
Blank(s, r, file) ==
  s.ecm_allowed = TRUE /\ (s.state \in Setup \/ r.state = "F_TCF") => Book(file, r) = <<>> /\ r.got = {}

\* An MCF that is to be sent vouches for what the sender asked about.
Vouches(s, r, file) ==
  r.buffer.type = "MCF" /\ r.state \in {"III_Q_MCF", "F_POST_RCP_MCF"} =>
    /\ UpToDate(s, Book(file, r)) /\ r.got = {}
    /\ \A n \in Done(s) + 1 .. Done(s) + Unit(s) : Has(Book(file, r), n)

\* The page that is being received, or was, is the sender's.
Takings(r) == r.state = "F_POST_DOC_NON_ECM" \/ (r.state = "F_DOC" /\ r.hears = "fast")
Draws(s, r) ==
  s.ecm_allowed = FALSE /\ s.state \in {"I", "II_Q"} /\ Takings(r) => r.image = Chunk(s)

\* The file is not opened again with pages in it.
Unopened(r, file) ==
  r.in_message = FALSE =>
    (file = <<>> /\ r.state \in Waiting) \/ r.state \in Over \/ (r.state \in AnswerStates /\ r.next_rx_step = "EOP")

Typed(r, file) == file \in Seq(Page) /\ r.image \in Page

Kept(s, r, file) ==
  /\ Typed(r, file) /\ Filed(s, Book(file, r)) /\ Gathers(s, r) /\ Blank(s, r, file) /\ Vouches(s, r, file)
  /\ Draws(s, r) /\ Unopened(r, file)

BookInv == \A p \in Peer : end[p].tx_file = TRUE => Kept(end[p], end[Other(p)], stored)

\* A page follows in itself.
Neat(page) == \A j \in 2 .. Len(page) : FollowedBy(page[j - 1], page[j])

\* An end that sends, or may.
OnPage(s) ==
  /\ s.ecm_allowed \in BOOLEAN /\ s.page \in Nat \ {0} /\ s.ecm_block \in Nat
  /\ s.ecm_allowed = TRUE => s.ecm_block # 0

\* The arithmetic of one more page or block.
LEMMA OneMoreTime ==
  ASSUME NEW x \in Nat, NEW y \in Nat
  PROVE  x * y \in Nat /\ (x + 1) * y = x * y + y
OBVIOUS

\* What the sender has done with is a number of places, and it always sends some.
LEMMA DoneRange ==
  ASSUME NEW s, s.ecm_allowed \in BOOLEAN, s.page \in Nat \ {0}, s.ecm_block \in Nat
  PROVE  Done(s) \in Nat /\ Unit(s) \in Nat \ {0}
<1> DEFINE b == IF s.ecm_block = 0 THEN 0 ELSE s.ecm_block - 1
<1>1. Blocks \in Nat \ {0} /\ BlockFrames \in Nat \ {0}  BY T30Assumption
<1>2. b \in Nat /\ s.page - 1 \in Nat  OBVIOUS
<1> HIDE DEF b
<1>3. (s.page - 1) * Blocks \in Nat  BY <1>1, <1>2, OneMoreTime
<1>4. (s.page - 1) * Blocks + b \in Nat  BY <1>2, <1>3
<1>5. ((s.page - 1) * Blocks + b) * BlockFrames \in Nat  BY <1>1, <1>4, OneMoreTime
<1> QED  BY <1>1, <1>2, <1>5 DEF Done, Unit, b

\* What is being sent is a page, or the frames of a block, and ends as EndOf says.
LEMMA ChunkIsPage ==
  ASSUME NEW s, OnPage(s)
  PROVE  /\ Chunk(s) \in Seq(Thing) /\ Len(Chunk(s)) = Unit(s) /\ Unit(s) \in Nat \ {0} /\ Done(s) \in Nat
         /\ Chunk(s)[Unit(s)] = EndOf(s)
<1>1. Blocks \in Nat \ {0} /\ BlockFrames \in Nat \ {0}  BY T30Assumption
<1>2. Unit(s) \in Nat \ {0} /\ Done(s) \in Nat  BY DoneRange DEF OnPage
<1>3. CASE s.ecm_allowed = TRUE
  <2>1. \A n \in 1 .. BlockFrames : FcdFrame(s.page, s.ecm_block, n) \in Thing  BY <1>1 DEF OnPage, Thing, FcdFrame
  <2>2. Chunk(s) = [n \in 1 .. BlockFrames |-> FcdFrame(s.page, s.ecm_block, n)]  BY <1>3 DEF Chunk
  <2>3. Chunk(s) \in [1 .. BlockFrames -> Thing]  BY <2>1, <2>2
  <2>4. Chunk(s) \in Seq(Thing) /\ Len(Chunk(s)) = BlockFrames  BY <1>1, <2>3
  <2>5. Chunk(s)[BlockFrames] = FcdFrame(s.page, s.ecm_block, BlockFrames)  BY <1>1, <2>2
  <2> QED  BY <1>2, <1>3, <2>4, <2>5 DEF Unit, EndOf
<1>4. CASE s.ecm_allowed = FALSE
  <2>1. [page |-> s.page, block |-> 0, no |-> 0] \in Thing  BY DEF OnPage, Thing
  <2> QED  BY <1>2, <1>4, <2>1 DEF Chunk, Unit, EndOf
<1> QED  BY <1>3, <1>4 DEF OnPage

\* It takes the places that follow those that are done with ...
LEMMA ChunkPlaces ==
  ASSUME NEW s, OnPage(s)
  PROVE  \A j \in 1 .. Unit(s) : Place(Chunk(s)[j]) = Done(s) + j
<1>1. Blocks \in Nat \ {0} /\ BlockFrames \in Nat \ {0}  BY T30Assumption
<1>2. Done(s) \in Nat  BY DoneRange DEF OnPage
<1>3. CASE s.ecm_allowed = TRUE
  <2> SUFFICES ASSUME NEW j \in 1 .. BlockFrames
               PROVE  Place(Chunk(s)[j]) = Done(s) + j
    BY <1>3 DEF Unit
  <2>1. Chunk(s)[j] = FcdFrame(s.page, s.ecm_block, j)  BY <1>3 DEF Chunk
  <2>2. Place(Chunk(s)[j]) = ((s.page - 1) * Blocks + s.ecm_block - 1) * BlockFrames + j
    BY <1>3, <2>1 DEF Place, FcdFrame, OnPage
  <2>3. (s.page - 1) * Blocks \in Nat  BY <1>1, OneMoreTime DEF OnPage
  <2>4. ((s.page - 1) * Blocks + s.ecm_block - 1) = ((s.page - 1) * Blocks + (s.ecm_block - 1))  BY <2>3 DEF OnPage
  <2>5. Done(s) = ((s.page - 1) * Blocks + (s.ecm_block - 1)) * BlockFrames  BY <1>3 DEF Done, OnPage
  <2> QED  BY <2>2, <2>4, <2>5
<1>4. CASE s.ecm_allowed = FALSE
  <2>1. Chunk(s)[1] = [page |-> s.page, block |-> 0, no |-> 0] /\ Unit(s) = 1  BY <1>4 DEF Chunk, Unit
  <2>2. Place(Chunk(s)[1]) = s.page /\ Done(s) = s.page - 1  BY <1>4, <2>1 DEF Place, Done
  <2> QED  BY <2>1, <2>2 DEF OnPage
<1> QED  BY <1>3, <1>4 DEF OnPage

\* ... without a gap, and may follow itself when it is sent again.
LEMMA ChunkFollows ==
  ASSUME NEW s, OnPage(s)
  PROVE  Neat(Chunk(s)) /\ BeginsAgain(EndOf(s), Chunk(s)[1]) /\ Place(EndOf(s)) = Done(s) + Unit(s)
<1>1. Unit(s) \in Nat \ {0} /\ Done(s) \in Nat /\ Len(Chunk(s)) = Unit(s) /\ Chunk(s)[Unit(s)] = EndOf(s)  BY ChunkIsPage
<1>2. \A j \in 1 .. Unit(s) : Place(Chunk(s)[j]) = Done(s) + j  BY ChunkPlaces
<1>3. Neat(Chunk(s))
  <2> SUFFICES ASSUME NEW j \in 2 .. Unit(s)
               PROVE  Place(Chunk(s)[j]) = Place(Chunk(s)[j - 1]) + 1
    BY <1>1 DEF Neat, FollowedBy
  <2>1. j \in 1 .. Unit(s) /\ j - 1 \in 1 .. Unit(s)  BY <1>1
  <2>2. Place(Chunk(s)[j]) = Done(s) + j /\ Place(Chunk(s)[j - 1]) = Done(s) + (j - 1)  BY <1>2, <2>1
  <2> QED  BY <1>1, <2>2
<1>4. BeginsAgain(EndOf(s), Chunk(s)[1])
  <2>1. BlockFrames \in Nat \ {0}  BY T30Assumption
  <2>2. CASE s.ecm_allowed = TRUE
    <3>1. Chunk(s)[1] = FcdFrame(s.page, s.ecm_block, 1)  BY <2>1, <2>2 DEF Chunk
    <3>2. EndOf(s) = FcdFrame(s.page, s.ecm_block, BlockFrames)  BY <2>2 DEF EndOf
    <3> QED  BY <3>1, <3>2 DEF BeginsAgain, FcdFrame
  <2>3. CASE s.ecm_allowed = FALSE
    <3>1. Chunk(s)[1] = [page |-> s.page, block |-> 0, no |-> 0]  BY <2>3 DEF Chunk
    <3>2. EndOf(s) = [page |-> s.page, block |-> 0, no |-> 0]  BY <2>3 DEF EndOf
    <3> QED  BY <3>1, <3>2 DEF BeginsAgain
  <2> QED  BY <2>2, <2>3 DEF OnPage
<1>5. Place(EndOf(s)) = Done(s) + Unit(s)  BY <1>1, <1>2
<1> QED  BY <1>3, <1>4, <1>5

\* A page is put at the end of the file, as t4_rx_end_page does, and the rest stays as it is.
LEMMA PagePut ==
  ASSUME NEW file \in Seq(Page), NEW d \in Page
  PROVE  LET a == Append(file, d) IN
         /\ a \in Seq(Page) /\ a # <<>> /\ Len(a) = Len(file) + 1 /\ DOMAIN a = 1 .. Len(file) + 1
         /\ DOMAIN file = 1 .. Len(file) /\ Len(file) \in Nat
         /\ a[Len(file) + 1] = d /\ \A i \in 1 .. Len(file) : a[i] = file[i] /\ file[i] \in Page
BY AppendProperties, LenProperties DEF Page

\* What it takes to be in order, page by page.
LEMMA OrderOf ==
  ASSUME NEW file \in Seq(Page)
  PROVE  InOrder(file) <=>
           /\ \A i \in 1 .. Len(file) : file[i] # <<>> /\ Neat(file[i])
           /\ file # <<>> => Place(file[1][1]) = 1
           /\ \A i \in 2 .. Len(file) : FollowedBy(file[i - 1][Len(file[i - 1])], file[i][1])
BY DEF InOrder, Neat, Page

\* A file in order stays so with a page that is in order and follows.
LEMMA PageAdded ==
  ASSUME NEW file \in Seq(Page), NEW d \in Page, InOrder(file), d # <<>>, Neat(d),
         file = <<>> => Place(d[1]) = 1,
         file # <<>> => FollowedBy(Latest(file), d[1])
  PROVE  InOrder(Append(file, d)) /\ Latest(Append(file, d)) = d[Len(d)]
<1> DEFINE a == Append(file, d)
<1>1. /\ a \in Seq(Page) /\ a # <<>> /\ Len(a) = Len(file) + 1 /\ Len(file) \in Nat
      /\ a[Len(file) + 1] = d /\ \A i \in 1 .. Len(file) : a[i] = file[i]
  BY PagePut
<1>2. /\ \A i \in 1 .. Len(file) : file[i] # <<>> /\ Neat(file[i])
      /\ file # <<>> => Place(file[1][1]) = 1
      /\ \A i \in 2 .. Len(file) : FollowedBy(file[i - 1][Len(file[i - 1])], file[i][1])
  BY OrderOf
<1>0. file = <<>> <=> Len(file) = 0  BY DEF Page
<1> HIDE DEF a
<1>3. \A i \in 1 .. Len(a) : a[i] # <<>> /\ Neat(a[i])
  <2> TAKE i \in 1 .. Len(a)
  <2>1. i \in 1 .. Len(file) \/ i = Len(file) + 1  BY <1>1
  <2> QED  BY <1>1, <1>2, <2>1
<1>4. Place(a[1][1]) = 1
  <2>1. CASE file = <<>>
    <3>1. a[1] = d  BY <1>0, <1>1, <2>1
    <3> QED  BY <2>1, <3>1
  <2>2. CASE file # <<>>
    <3>1. a[1] = file[1]  BY <1>0, <1>1, <2>2
    <3> QED  BY <1>2, <2>2, <3>1
  <2> QED  BY <2>1, <2>2
<1>5. \A i \in 2 .. Len(a) : FollowedBy(a[i - 1][Len(a[i - 1])], a[i][1])
  <2> TAKE i \in 2 .. Len(a)
  <2>1. CASE i = Len(file) + 1
    <3>1. i - 1 = Len(file) /\ Len(file) # 0  BY <1>1, <2>1
    <3>2. a[i] = d /\ a[i - 1] = file[Len(file)]  BY <1>1, <2>1, <3>1
    <3> QED  BY <1>0, <3>1, <3>2 DEF Latest
  <2>2. CASE i # Len(file) + 1
    <3>1. i \in 2 .. Len(file) /\ i - 1 \in 1 .. Len(file) /\ i \in 1 .. Len(file)  BY <1>1, <2>2
    <3>2. a[i] = file[i] /\ a[i - 1] = file[i - 1]  BY <1>1, <3>1
    <3> QED  BY <1>2, <3>1, <3>2
  <2> QED  BY <2>1, <2>2
<1>6. InOrder(a)  BY <1>1, <1>3, <1>4, <1>5, OrderOf
<1>7. Latest(a) = d[Len(d)]  BY <1>1 DEF Latest
<1> QED  BY <1>6, <1>7 DEF a

\* A file with a page at its end is in order only if the file is, and the page.
LEMMA FileAlone ==
  ASSUME NEW file \in Seq(Page), NEW d \in Page, InOrder(Append(file, d))
  PROVE  InOrder(file) /\ d # <<>> /\ Neat(d) /\ (file = <<>> => Place(d[1]) = 1)
         /\ (file # <<>> => FollowedBy(Latest(file), d[1]))
<1> DEFINE a == Append(file, d)
<1>1. /\ a \in Seq(Page) /\ a # <<>> /\ Len(a) = Len(file) + 1 /\ Len(file) \in Nat
      /\ a[Len(file) + 1] = d /\ \A i \in 1 .. Len(file) : a[i] = file[i]
  BY PagePut
<1>0. file = <<>> <=> Len(file) = 0  BY DEF Page
<1>a. InOrder(a)  OBVIOUS
<1> HIDE DEF a
<1>2. /\ \A i \in 1 .. Len(a) : a[i] # <<>> /\ Neat(a[i])
      /\ Place(a[1][1]) = 1
      /\ \A i \in 2 .. Len(a) : FollowedBy(a[i - 1][Len(a[i - 1])], a[i][1])
  BY <1>a, <1>1, OrderOf
<1>3. \A i \in 1 .. Len(file) : file[i] # <<>> /\ Neat(file[i])
  <2> TAKE i \in 1 .. Len(file)
  <2>1. i \in 1 .. Len(a) /\ a[i] = file[i]  BY <1>1
  <2> QED  BY <1>2, <2>1
<1>4. file # <<>> => Place(file[1][1]) = 1
  <2> HAVE file # <<>>
  <2>1. a[1] = file[1]  BY <1>0, <1>1
  <2> QED  BY <1>2, <2>1
<1>5. \A i \in 2 .. Len(file) : FollowedBy(file[i - 1][Len(file[i - 1])], file[i][1])
  <2> TAKE i \in 2 .. Len(file)
  <2>1. i \in 2 .. Len(a) /\ a[i] = file[i] /\ a[i - 1] = file[i - 1]  BY <1>1
  <2> QED  BY <1>2, <2>1
<1>6. InOrder(file)  BY <1>3, <1>4, <1>5, OrderOf
<1>7. d # <<>> /\ Neat(d)
  <2>1. Len(file) + 1 \in 1 .. Len(a)  BY <1>1
  <2> QED  BY <1>1, <1>2, <2>1
<1>8. file = <<>> => Place(d[1]) = 1
  <2> HAVE file = <<>>
  <2>1. a[1] = d  BY <1>0, <1>1
  <2> QED  BY <1>2, <2>1
<1>9. file # <<>> => FollowedBy(Latest(file), d[1])
  <2> HAVE file # <<>>
  <2> DEFINE i == Len(file) + 1
  <2>1. i \in 2 .. Len(a) /\ a[i] = d /\ i - 1 = Len(file) /\ a[i - 1] = file[Len(file)]  BY <1>0, <1>1
  <2>2. FollowedBy(a[i - 1][Len(a[i - 1])], a[i][1])  BY <1>2, <2>1
  <2> QED  BY <2>1, <2>2 DEF Latest
<1> QED  BY <1>6, <1>7, <1>8, <1>9

\* A block that follows a page is put at its end.
LEMMA PageGrown ==
  ASSUME NEW d \in Page, NEW e \in Page, d # <<>>, e # <<>>, Neat(d), Neat(e), FollowedBy(d[Len(d)], e[1])
  PROVE  LET g == d \o e IN
         /\ g \in Page /\ g # <<>> /\ Neat(g) /\ g[1] = d[1] /\ g[Len(g)] = e[Len(e)]
         /\ Len(g) = Len(d) + Len(e)
         /\ \A j \in 1 .. Len(d) : g[j] = d[j]
         /\ \A j \in 1 .. Len(e) : g[Len(d) + j] = e[j]
<1> DEFINE g == d \o e
<1>1. /\ g \in Page /\ Len(g) = Len(d) + Len(e) /\ Len(d) \in Nat \ {0} /\ Len(e) \in Nat \ {0}
      /\ \A i \in 1 .. Len(d) + Len(e) : g[i] = IF i <= Len(d) THEN d[i] ELSE e[i - Len(d)]
  BY ConcatProperties, EmptySeq DEF Page
<1> HIDE DEF g
<1>2. \A j \in 1 .. Len(d) : g[j] = d[j]
  <2> TAKE j \in 1 .. Len(d)
  <2>1. j \in 1 .. Len(d) + Len(e) /\ j <= Len(d)  BY <1>1
  <2> QED  BY <1>1, <2>1
<1>3. \A j \in 1 .. Len(e) : g[Len(d) + j] = e[j]
  <2> TAKE j \in 1 .. Len(e)
  <2>1. Len(d) + j \in 1 .. Len(d) + Len(e) /\ ~(Len(d) + j <= Len(d)) /\ (Len(d) + j) - Len(d) = j  BY <1>1
  <2> QED  BY <1>1, <2>1
<1>4. Neat(g)
  <2> SUFFICES ASSUME NEW j \in 2 .. Len(d) + Len(e)
               PROVE  FollowedBy(g[j - 1], g[j])
    BY <1>1 DEF Neat
  <2>1. CASE j <= Len(d)
    <3>1. j \in 2 .. Len(d) /\ j \in 1 .. Len(d) /\ j - 1 \in 1 .. Len(d)  BY <1>1, <2>1
    <3>2. g[j] = d[j] /\ g[j - 1] = d[j - 1]  BY <1>2, <3>1
    <3> QED  BY <3>1, <3>2 DEF Neat
  <2>2. CASE j = Len(d) + 1
    <3>1. j - 1 = Len(d) /\ j - 1 \in 1 .. Len(d) /\ 1 \in 1 .. Len(e)  BY <1>1, <2>2
    <3>2. g[j] = e[1]  BY <1>3, <2>2, <3>1
    <3>3. g[j - 1] = d[Len(d)]  BY <1>2, <3>1
    <3> QED  BY <3>2, <3>3
  <2>3. CASE j > Len(d) + 1
    <3> DEFINE k == j - Len(d)
    <3>1. k \in 2 .. Len(e) /\ k \in 1 .. Len(e) /\ k - 1 \in 1 .. Len(e) /\ j = Len(d) + k
          /\ j - 1 = Len(d) + (k - 1)
      BY <1>1, <2>3
    <3> HIDE DEF k
    <3>2. g[j] = e[k] /\ g[j - 1] = e[k - 1]  BY <1>3, <3>1
    <3> QED  BY <3>1, <3>2 DEF Neat
  <2> QED  BY <1>1, <2>1, <2>2, <2>3
<1>5. g # <<>> /\ g[1] = d[1] /\ g[Len(g)] = e[Len(e)]  BY <1>1, <1>2, <1>3
<1> QED  BY <1>1, <1>2, <1>3, <1>4, <1>5 DEF g

\* What a file has when a page is put at its end: what it had, and the page.
LEMMA HasOf ==
  ASSUME NEW file \in Seq(Page), NEW d \in Page, NEW k
  PROVE  Has(Append(file, d), k) <=> Has(file, k) \/ \E j \in 1 .. Len(d) : Place(d[j]) = k
<1> DEFINE a == Append(file, d)
<1>1. /\ Len(file) \in Nat /\ DOMAIN a = 1 .. Len(file) + 1 /\ DOMAIN file = 1 .. Len(file)
      /\ a[Len(file) + 1] = d /\ \A i \in 1 .. Len(file) : a[i] = file[i]
  BY PagePut
<1>2. DOMAIN d = 1 .. Len(d)  BY DEF Page
<1> HIDE DEF a
<1>3. ASSUME Has(a, k)
      PROVE  Has(file, k) \/ \E j \in 1 .. Len(d) : Place(d[j]) = k
  <2>1. PICK i \in 1 .. Len(file) + 1 : \E j \in DOMAIN a[i] : Place(a[i][j]) = k  BY <1>1, <1>3 DEF Has
  <2>2. CASE i \in 1 .. Len(file)  BY <1>1, <2>1, <2>2 DEF Has
  <2>3. CASE i = Len(file) + 1  BY <1>1, <1>2, <2>1, <2>3
  <2> QED  BY <1>1, <2>1, <2>2, <2>3
<1>4. ASSUME Has(file, k)
      PROVE  Has(a, k)
  <2>1. PICK i \in 1 .. Len(file) : \E j \in DOMAIN file[i] : Place(file[i][j]) = k  BY <1>1, <1>4 DEF Has
  <2>2. i \in 1 .. Len(file) + 1 /\ a[i] = file[i]  BY <1>1, <2>1
  <2> QED  BY <1>1, <2>1, <2>2 DEF Has
<1>5. ASSUME NEW j \in 1 .. Len(d), Place(d[j]) = k
      PROVE  Has(a, k)
  <2>1. Len(file) + 1 \in DOMAIN a /\ j \in DOMAIN a[Len(file) + 1]  BY <1>1, <1>2
  <2> QED  BY <1>1, <1>5, <2>1 DEF Has
<1> QED  BY <1>3, <1>4, <1>5 DEF a

\* The book is the file, with the page that is being put together if there is any.
LEMMA WithPage ==
  ASSUME NEW file \in Seq(Page), NEW d \in Page
  PROVE  /\ With(file, d) \in Seq(Page)
         /\ d = <<>> => With(file, d) = file
         /\ d # <<>> => With(file, d) = Append(file, d) /\ With(file, d) # <<>>
BY PagePut DEF With

\* The book grows by the block that follows, also when the block completes the page.
LEMMA BookGrown ==
  ASSUME NEW file \in Seq(Page), NEW d \in Page, NEW c \in Page, c # <<>>, Neat(c), InOrder(With(file, d)),
         With(file, d) = <<>> => Place(c[1]) = 1,
         With(file, d) # <<>> => FollowedBy(Latest(With(file, d)), c[1])
  PROVE  LET g == d \o c
             n == Append(file, g)
         IN /\ g \in Page /\ g # <<>> /\ n \in Seq(Page) /\ n # <<>> /\ InOrder(n) /\ Latest(n) = c[Len(c)]
            /\ \A k : Has(With(file, d), k) => Has(n, k)
            /\ \A j \in 1 .. Len(c) : Has(n, Place(c[j]))
<1> DEFINE g == d \o c
           n == Append(file, g)
<1>1. CASE d = <<>>
  <2>1. g = c /\ With(file, d) = file  BY <1>1, ConcatEmptySeq, WithPage DEF Page
  <2>2. InOrder(Append(file, c)) /\ Latest(Append(file, c)) = c[Len(c)]  BY <2>1, PageAdded
  <2>3. \A k : Has(file, k) => Has(Append(file, c), k)  BY HasOf
  <2>4. \A j \in 1 .. Len(c) : Has(Append(file, c), Place(c[j]))  BY HasOf
  <2>5. Append(file, c) \in Seq(Page) /\ Append(file, c) # <<>>  BY PagePut
  <2> QED  BY <2>1, <2>2, <2>3, <2>4, <2>5
<1>2. CASE d # <<>>
  <2> DEFINE b == Append(file, d)
  <2>1. With(file, d) = b /\ b # <<>> /\ InOrder(b)  BY <1>2, WithPage
  <2>2. /\ InOrder(file) /\ Neat(d) /\ (file = <<>> => Place(d[1]) = 1)
        /\ (file # <<>> => FollowedBy(Latest(file), d[1]))
    BY <2>1, FileAlone
  <2>3. Latest(b) = d[Len(d)]  BY <1>2, <2>2, PageAdded
  <2>4. FollowedBy(d[Len(d)], c[1])  BY <2>1, <2>3
  <2>5. /\ g \in Page /\ g # <<>> /\ Neat(g) /\ g[1] = d[1] /\ g[Len(g)] = c[Len(c)]
        /\ Len(g) = Len(d) + Len(c)
        /\ \A j \in 1 .. Len(d) : g[j] = d[j]
        /\ \A j \in 1 .. Len(c) : g[Len(d) + j] = c[j]
    BY <1>2, <2>2, <2>4, PageGrown
  <2>6. Len(d) \in Nat /\ Len(c) \in Nat  BY DEF Page
  <2> HIDE DEF g
  <2>7. InOrder(n) /\ Latest(n) = c[Len(c)]  BY <2>2, <2>5, PageAdded
  <2>8. n \in Seq(Page) /\ n # <<>>  BY <2>5, PagePut
  <2>9. ASSUME NEW k, Has(b, k)
        PROVE  Has(n, k)
    <3>1. CASE Has(file, k)  BY <2>5, <3>1, HasOf
    <3>2. CASE \E j \in 1 .. Len(d) : Place(d[j]) = k
      <4>1. PICK j \in 1 .. Len(d) : Place(d[j]) = k  BY <3>2
      <4>2. j \in 1 .. Len(g) /\ g[j] = d[j]  BY <2>5, <2>6
      <4> QED  BY <2>5, <4>1, <4>2, HasOf
    <3> QED  BY <2>9, <3>1, <3>2, HasOf
  <2>10. ASSUME NEW j \in 1 .. Len(c)
         PROVE  Has(n, Place(c[j]))
    <3>1. Len(d) + j \in 1 .. Len(g) /\ g[Len(d) + j] = c[j]  BY <2>5, <2>6
    <3> QED  BY <2>5, <3>1, HasOf
  <2> QED  BY <2>1, <2>5, <2>7, <2>8, <2>9, <2>10 DEF g
<1> QED  BY <1>1, <1>2

\* What the sender is sending follows the book: with it, the book has all that it is sending.
LEMMA ChunkFiled ==
  ASSUME NEW s, NEW file \in Seq(Page), NEW d \in Page, OnPage(s), Filed(s, With(file, d))
  PROVE  LET g == d \o Chunk(s)
             n == Append(file, g)
         IN /\ g \in Page /\ g # <<>> /\ n \in Seq(Page) /\ n # <<>> /\ Filed(s, n) /\ UpToDate(s, n)
            /\ \A k \in Done(s) + 1 .. Done(s) + Unit(s) : Has(n, k)
<1> DEFINE c == Chunk(s)
           b == With(file, d)
           g == d \o c
           n == Append(file, g)
<1>1. c \in Page /\ Len(c) = Unit(s) /\ Unit(s) \in Nat \ {0} /\ Done(s) \in Nat /\ c[Unit(s)] = EndOf(s)
  BY ChunkIsPage DEF Page
<1>2. Neat(c) /\ BeginsAgain(EndOf(s), c[1])  BY ChunkFollows
<1>3. \A j \in 1 .. Unit(s) : Place(c[j]) = Done(s) + j  BY ChunkPlaces
<1>4. /\ InOrder(b) /\ (b = <<>> => Done(s) = 0) /\ (b # <<>> => Place(Latest(b)) = Done(s) \/ UpToDate(s, b))
      /\ \A k \in 1 .. Done(s) : Has(b, k)
  BY DEF Filed
<1>5. c # <<>>  BY <1>1 DEF Page
<1> HIDE DEF c
<1>6. Place(c[1]) = Done(s) + 1  BY <1>1, <1>3
<1>7. b = <<>> => Place(c[1]) = 1  BY <1>4, <1>6
<1>8. b # <<>> => FollowedBy(Latest(b), c[1])
  <2> HAVE b # <<>>
  <2>1. CASE Place(Latest(b)) = Done(s)  BY <1>6, <2>1 DEF FollowedBy
  <2>2. CASE UpToDate(s, b)  BY <1>2, <2>2 DEF FollowedBy, UpToDate
  <2> QED  BY <1>4, <2>1, <2>2
<1>9. /\ g \in Page /\ g # <<>> /\ n \in Seq(Page) /\ n # <<>> /\ InOrder(n) /\ Latest(n) = c[Len(c)]
      /\ \A k : Has(b, k) => Has(n, k)
      /\ \A j \in 1 .. Len(c) : Has(n, Place(c[j]))
  BY <1>1, <1>2, <1>4, <1>5, <1>7, <1>8, BookGrown
<1> HIDE DEF b, g, n
<1>10. UpToDate(s, n)  BY <1>1, <1>9 DEF UpToDate
<1>11. Filed(s, n)  BY <1>4, <1>9, <1>10 DEF Filed
<1>12. ASSUME NEW k \in Done(s) + 1 .. Done(s) + Unit(s)
       PROVE  Has(n, k)
  <2>1. k - Done(s) \in 1 .. Unit(s) /\ Done(s) + (k - Done(s)) = k  BY <1>1
  <2> QED  BY <1>1, <1>3, <1>9, <2>1
<1> QED  BY <1>9, <1>10, <1>11, <1>12 DEF g, n, c

\* A block without a frame missing (process_rx_pps) is the block the sender is sending.
LEMMA BlockGathered ==
  ASSUME NEW s, NEW r, s.ecm_allowed = TRUE, Gathers(s, r), Missing(r) = {}
  PROVE  BlockImage(r) = Chunk(s)
<1>1. ASSUME NEW n \in 1 .. BlockFrames
      PROVE  (CHOOSE g \in r.got : g.no = n) = FcdFrame(s.page, s.ecm_block, n)
  <2>1. \E g \in r.got : g.no = n  BY <1>1 DEF Missing
  <2> DEFINE f == CHOOSE g \in r.got : g.no = n
  <2>2. f \in r.got /\ f.no = n  BY <2>1
  <2> HIDE DEF f
  <2>3. f = FcdFrame(s.page, s.ecm_block, f.no)  BY <2>2 DEF Gathers
  <2> QED  BY <2>2, <2>3 DEF f
<1> QED  BY <1>1 DEF BlockImage, Chunk

\* A sender whose last page or block is in the book may go on to the next.
LEMMA NextFiled ==
  ASSUME NEW s, NEW t, NEW book, OnPage(s), Filed(s, book), UpToDate(s, book), Done(t) = Done(s) + Unit(s),
         \A k \in Done(s) + 1 .. Done(s) + Unit(s) : Has(book, k)
  PROVE  Filed(t, book)
<1>1. Unit(s) \in Nat \ {0} /\ Done(s) \in Nat  BY ChunkIsPage
<1>2. Place(EndOf(s)) = Done(s) + Unit(s)  BY ChunkFollows
<1>3. book # <<>> /\ Place(Latest(book)) = Done(t)  BY <1>2 DEF UpToDate
<1>4. ASSUME NEW k \in 1 .. Done(t)
      PROVE  Has(book, k)
  <2>1. k \in 1 .. Done(s) \/ k \in Done(s) + 1 .. Done(s) + Unit(s)  BY <1>1
  <2> QED  BY <2>1 DEF Filed
<1> QED  BY <1>3, <1>4 DEF Filed

\* It goes on by what it was sending.
LEMMA NextDone ==
  ASSUME NEW s, NEW t, OnPage(s), Advances(s, t), t.ecm_allowed = s.ecm_allowed,
         s.ecm_allowed = TRUE => s.ecm_block \in 1 .. Blocks
  PROVE  Done(t) = Done(s) + Unit(s)
<1>1. Blocks \in Nat \ {0} /\ BlockFrames \in Nat \ {0}  BY T30Assumption
<1>2. CASE s.ecm_allowed = FALSE  BY <1>2 DEF Done, Unit, Advances, OnPage
<1>3. CASE s.ecm_allowed = TRUE
  <2> DEFINE x == (s.page - 1) * Blocks
             y == x + (s.ecm_block - 1)
  <2>1. s.page - 1 \in Nat /\ s.ecm_block \in Nat \ {0} /\ s.page \in Nat  BY <1>3 DEF OnPage
  <2>2. x \in Nat /\ s.page * Blocks = x + Blocks
    <3>1. (s.page - 1) + 1 = s.page  BY <2>1
    <3> QED  BY <1>1, <2>1, <3>1, OneMoreTime
  <2>3. y \in Nat /\ (y + 1) * BlockFrames = y * BlockFrames + BlockFrames
    <3>1. y \in Nat  BY <2>1, <2>2
    <3> QED  BY <1>1, <3>1, OneMoreTime
  <2>4. Done(s) = y * BlockFrames /\ Unit(s) = BlockFrames  BY <1>3, <2>1 DEF Done, Unit
  <2>5. Done(t) = (y + 1) * BlockFrames
    <3> DEFINE z == (t.page - 1) * Blocks
               w == z + (IF t.ecm_block = 0 THEN 0 ELSE t.ecm_block - 1)
    <3>1. Done(t) = w * BlockFrames  BY <1>3 DEF Done
    <3>2. w = y + 1
      <4>1. CASE t.page = s.page /\ t.ecm_block = s.ecm_block + 1  BY <2>1, <2>2, <4>1
      <4>2. CASE t.page = s.page + 1 /\ s.ecm_block = Blocks /\ t.ecm_block \in {0, 1}
        <5>1. t.page - 1 = s.page  BY <2>1, <4>2
        <5>2. z = x + Blocks  BY <2>2, <5>1
        <5>3. w = z  BY <1>1, <2>2, <4>2, <5>2
        <5> QED  BY <1>1, <2>1, <2>2, <4>2, <5>2, <5>3
      <4> QED  BY <1>3, <4>1, <4>2 DEF Advances
    <3> QED  BY <3>1, <3>2
  <2> QED  BY <2>3, <2>4, <2>5
<1> QED  BY <1>2, <1>3 DEF OnPage

SendRests(s, t, r) ==
  /\ t.page = s.page /\ t.ecm_block = s.ecm_block /\ t.ecm_allowed = s.ecm_allowed
  /\ s.ecm_allowed = TRUE /\ t.state \in Setup => s.state \in Setup
  /\ t.state \in {"I", "II_Q"} => s.state \in {"I", "II_Q"} \/ ~Takings(r)

Vouching(r) == r.buffer.type = "MCF" /\ r.state \in {"III_Q_MCF", "F_POST_RCP_MCF"}
Shut(r) == r.state \in Over \/ (r.state \in AnswerStates /\ r.next_rx_step = "EOP")
TakeRests(r, u) ==
  /\ u.image = r.image /\ u.got = r.got /\ u.ecm_allowed = r.ecm_allowed /\ u.in_message = r.in_message
  /\ u.state = "F_TCF" => r.state = "F_TCF"
  /\ Vouching(u) => Vouching(r)
  /\ u.ecm_allowed = FALSE /\ Takings(u) => Takings(r)
  /\ r.state \in Waiting => u.state \in Waiting \cup Over
  /\ Shut(r) => Shut(u)

\* What the receiver has is kept by a step of the sender that stays on its block.
LEMMA SenderRests ==
  ASSUME NEW s, NEW t, NEW r, NEW file, Kept(s, r, file), SendRests(s, t, r)
  PROVE  Kept(t, r, file)
<1>1. t.page = s.page /\ t.ecm_block = s.ecm_block /\ t.ecm_allowed = s.ecm_allowed  BY DEF SendRests
<1>2. Done(t) = Done(s) /\ Unit(t) = Unit(s)  BY <1>1 DEF Done, Unit
<1>3. Chunk(t) = Chunk(s) /\ EndOf(t) = EndOf(s)  BY <1>1 DEF Chunk, EndOf
<1>4. \A book : UpToDate(t, book) <=> UpToDate(s, book)  BY <1>3 DEF UpToDate
<1>5. Filed(t, Book(file, r))  BY <1>2, <1>4 DEF Kept, Filed
<1>6. Gathers(t, r)  BY <1>1 DEF Kept, Gathers
<1>7. Blank(t, r, file)  BY <1>1 DEF SendRests, Kept, Blank
<1>8. Vouches(t, r, file)  BY <1>2, <1>4 DEF Kept, Vouches
<1>9. Draws(t, r)  BY <1>1, <1>3 DEF SendRests, Kept, Draws
<1> QED  BY <1>5, <1>6, <1>7, <1>8, <1>9 DEF Kept

\* It is kept by a step of the receiver that takes and writes nothing.
LEMMA TakerRests ==
  ASSUME NEW s, NEW r, NEW u, NEW file, Kept(s, r, file), TakeRests(r, u), s.ecm_allowed = r.ecm_allowed
  PROVE  Kept(s, u, file)
<1>1. u.image = r.image /\ u.got = r.got /\ u.ecm_allowed = r.ecm_allowed /\ u.in_message = r.in_message
  BY DEF TakeRests
<1>2. Book(file, u) = Book(file, r)  BY <1>1 DEF Book, Draft
<1>3. Typed(u, file) /\ Filed(s, Book(file, u)) /\ Gathers(s, u)  BY <1>1, <1>2 DEF Kept, Typed, Gathers
<1>4. Blank(s, u, file)  BY <1>1, <1>2 DEF TakeRests, Kept, Blank
<1>5. Vouches(s, u, file)  BY <1>1, <1>2 DEF TakeRests, Kept, Vouches, Vouching
<1>6. Draws(s, u)  BY <1>1 DEF TakeRests, Kept, Draws
<1>7. Unopened(u, file)
  <2> SUFFICES ASSUME u.in_message = FALSE
               PROVE  (file = <<>> /\ u.state \in Waiting) \/ Shut(u)
    BY DEF Unopened, Shut
  <2>1. (file = <<>> /\ r.state \in Waiting) \/ Shut(r)  BY <1>1 DEF Kept, Unopened, Shut
  <2> QED  BY <2>1 DEF TakeRests, Shut
<1> QED  BY <1>3, <1>4, <1>5, <1>6, <1>7 DEF Kept

\* Neither end does anything to the document.
Rests(s, t, r) == t.tx_file = s.tx_file /\ (s.tx_file = TRUE => SendRests(s, t, r)) /\ (s.tx_file = FALSE => TakeRests(s, t))

Tale(s, r, file) == s.tx_file = TRUE => Kept(s, r, file)
Tales(p, q, file) == Tale(p, q, file) /\ Tale(q, p, file)

\* So it is by a step of either end.
LEMMA TalesRest ==
  ASSUME NEW p, NEW q, NEW a, NEW file, Tales(p, q, file), Match(p, q), p.tx_file \in BOOLEAN, Rests(p, a, q)
  PROVE  Tales(a, q, file)
<1>1. CASE p.tx_file = TRUE
  <2>1. Kept(p, q, file) /\ a.tx_file = TRUE /\ q.tx_file # TRUE  BY <1>1 DEF Tales, Tale, Rests, Match
  <2>2. Kept(a, q, file)  BY <1>1, <2>1, SenderRests DEF Rests
  <2> QED  BY <2>1, <2>2 DEF Tales, Tale
<1>2. CASE p.tx_file = FALSE
  <2>1. TakeRests(p, a) /\ a.tx_file = FALSE /\ p.ecm_allowed = q.ecm_allowed  BY <1>2 DEF Rests, Match
  <2>2. ASSUME q.tx_file = TRUE
        PROVE  Kept(q, a, file)
    <3>1. Kept(q, p, file)  BY <2>2 DEF Tales, Tale
    <3> QED  BY <2>1, <3>1, TakerRests
  <2> QED  BY <2>1, <2>2 DEF Tales, Tale
<1> QED  BY <1>1, <1>2

\* The invariant for an end and its peer, whichever of them sends.
LEMMA TalesOf ==
  ASSUME CallInv, BookInv, NEW p \in Peer
  PROVE  Tales(end[p], end[Other(p)], stored)
<1>1. Other(p) \in Peer /\ Other(Other(p)) = p  BY CallOf
<1> QED  BY <1>1 DEF BookInv, Tales, Tale

\* A step of both ends, and of the file, keeps the invariant when the new ends have it.
LEMMA BothTold ==
  ASSUME CallInv, NEW p \in Peer, NEW a, NEW b, end' = [end EXCEPT ![p] = a, ![Other(p)] = b],
         Tales(a, b, stored')
  PROVE  BookInv'
<1>1. Other(p) \in Peer /\ Other(p) # p /\ Other(Other(p)) = p  BY CallOf
<1>2. DOMAIN end = Peer /\ end = [x \in Peer |-> end[x]]  BY DEF CallInv, Ends
<1>3. end'[p] = a /\ end'[Other(p)] = b  BY <1>1, <1>2
<1>4. \A x \in Peer : x = p \/ x = Other(p)  BY DEF Peer, Other
<1> SUFFICES ASSUME NEW x \in Peer, end'[x].tx_file = TRUE
             PROVE  Kept(end'[x], end'[Other(x)], stored')
  BY DEF BookInv
<1>5. CASE x = p  BY <1>3, <1>5 DEF Tales, Tale
<1>6. CASE x = Other(p)  BY <1>1, <1>3, <1>6 DEF Tales, Tale
<1> QED  BY <1>4, <1>5, <1>6

\* A step of one end that does nothing to the document keeps it.
LEMMA OneTold ==
  ASSUME CallInv, BookInv, NEW p \in Peer, NEW a, Becomes(p, a), stored' = stored, Rests(end[p], a, end[Other(p)])
  PROVE  BookInv'
<1>1. Other(p) \in Peer /\ Other(p) # p /\ Call(end[p], end[Other(p)])  BY CallOf
<1>2. Tales(end[p], end[Other(p)], stored)  BY TalesOf
<1>3. Match(end[p], end[Other(p)]) /\ end[p].tx_file \in BOOLEAN  BY <1>1 DEF Call, EndInv, Sides
<1>4. Tales(a, end[Other(p)], stored')  BY <1>2, <1>3, TalesRest
<1>5. DOMAIN end = Peer /\ end = [x \in Peer |-> end[x]]  BY DEF CallInv, Ends
<1>6. end' = [end EXCEPT ![p] = a, ![Other(p)] = end[Other(p)]]  BY <1>1, <1>5 DEF Becomes
<1> QED  BY <1>4, <1>6, BothTold

DocKept(s, t) ==
  /\ t.page = s.page /\ t.ecm_block = s.ecm_block /\ t.ecm_allowed = s.ecm_allowed
  /\ t.image = s.image /\ t.got = s.got /\ t.in_message = s.in_message /\ t.tx_file = s.tx_file

\* An end whose book is the same has the same document.
LEMMA DocOfBook ==
  ASSUME NEW s, NEW t, SameBook(s, t) \/ SameDoc(s, t)
  PROVE  DocKept(s, t)
BY DEF SameBook, SameDoc, DocKept

\* An end that stays in its state does nothing to the document, but for what it begins to hear.
LEMMA SameRests ==
  ASSUME NEW s, NEW t, NEW r, DocKept(s, t), t.next_rx_step = s.next_rx_step, t.state = s.state,
         t.buffer = s.buffer \/ t.buffer.type # "MCF",
         t.hears = s.hears \/ t.hears # "fast" \/ t.ecm_allowed = TRUE \/ t.state # "F_DOC"
  PROVE  Rests(s, t, r)
BY DEF Rests, SendRests, TakeRests, DocKept, Vouching, Takings, Waiting, Shut

\* Nor does one that goes into the end of the call.
LEMMA OverRests ==
  ASSUME NEW s, NEW t, NEW r, DocKept(s, t), t.state \in Over
  PROVE  Rests(s, t, r)
BY DEF Rests, SendRests, TakeRests, DocKept, Vouching, Takings, Waiting, Shut, Over, Setup

\* Nor does one that is told that its frame or signal is out (hdlc_send_complete, t30_send_complete).
LEMMA ToldRests ==
  ASSUME NEW s, NEW t, NEW r, Told(s, t), EndInv(s)
  PROVE  Rests(s, t, r)
<1>1. DocKept(s, t) /\ Onward(s, t) /\ t.hears = "no" /\ t.buffer.type # "MCF"  BY DocOfBook DEF Told
<1>2. t.state \in AnswerStates => t.next_rx_step = s.next_rx_step  BY DEF Told
<1>3. SendRests(s, t, r)
  BY <1>1 DEF DocKept, SendRests, Onward, Setup, AnswerStates
<1>4. TakeRests(s, t)
  <2>1. t.state = "F_TCF" => s.state = "F_TCF"  BY <1>1 DEF Onward
  <2>2. ~Vouching(t)  BY <1>1 DEF Vouching
  <2>3. Takings(t) => Takings(s)  BY <1>1 DEF Onward, Takings
  <2>4. s.state \in Waiting => t.state \in Waiting \cup Over  BY <1>1 DEF Onward, Waiting, AnswerStates
  <2>5. Shut(s) => Shut(t)  BY <1>1, <1>2 DEF Onward, Shut, Over, AnswerStates
  <2> QED  BY <1>1, <2>1, <2>2, <2>3, <2>4, <2>5 DEF DocKept, TakeRests
<1> QED  BY <1>1, <1>3, <1>4 DEF Rests, DocKept

\* A signal starts, or is missed.
LEMMA StartTells ==
  ASSUME CallInv, BookInv, NEW p \in Peer, Start(p) \/ Miss(p)
  PROVE  BookInv' /\ stored' = stored
<1> DEFINE s == end[p]
<1>1. Call(s, end[Other(p)]) /\ DOMAIN end = Peer  BY CallOf DEF CallInv, Ends
<1>2. stored' = stored  BY DEF Start, Miss
<1>3. PICK on \in {"preamble", "missed"} : Becomes(p, [s EXCEPT !.on = on])
  BY <1>1 DEF Start, Miss, Becomes
<1> DEFINE t == [s EXCEPT !.on = on]
<1>4. SameButOn(s, t)  BY <1>1, OnChanged DEF Call, EndInv
<1>5. Becomes(p, t)  BY <1>3
<1> HIDE DEF t
<1>6. Rests(s, t, end[Other(p)])
  <2>1. DocKept(s, t) /\ t.next_rx_step = s.next_rx_step /\ t.state = s.state /\ t.buffer = s.buffer /\ t.hears = s.hears
    BY <1>4, DocOfBook DEF SameButOn, SameTalk, SameModems, SameDoc
  <2> QED  BY <2>1, SameRests
<1> QED  BY <1>2, <1>5, <1>6, OneTold

\* The transmitter has no frame left.
LEMMA UnderflowTells ==
  ASSUME CallInv, BookInv, NEW p \in Peer, Underflow(p)
  PROVE  BookInv' /\ stored' = stored
<1> DEFINE s == end[p]
           a == SendComplete([s EXCEPT !.on = "frames"])
<1>1. EndInv(s)  BY CallOf DEF Call
<1>2. s.on \in {"preamble", "missed"} /\ s.tx_hdlc /\ s.buffer = NoFrame /\ stored' = stored /\ Becomes(p, a)
  BY DEF Underflow
<1>3. a.state = s.state /\ a.buffer = s.buffer /\ a.hears = s.hears /\ SameDoc(s, a)  BY <1>1, <1>2, Underflows
<1> HIDE DEF a
<1>4. DocKept(s, a) /\ a.next_rx_step = s.next_rx_step  BY <1>3, DocOfBook DEF SameDoc
<1>5. Rests(s, a, end[Other(p)])  BY <1>3, <1>4, SameRests
<1> QED  BY <1>2, <1>5, OneTold

\* The signal ends.
LEMMA EndSignalTells ==
  ASSUME CallInv, BookInv, NEW p \in Peer, EndSignal(p)
  PROVE  BookInv' /\ stored' = stored
<1> DEFINE s == end[p]
           a == SendComplete(Stops(s))
<1>1. EndInv(s)  BY CallOf DEF Call
<1>2. \/ s.tx = "fast" /\ ~s.tx_hdlc
      \/ s.tx_hdlc /\ s.on = "frames" /\ s.buffer = NoFrame /\ s.tx_end
  BY DEF EndSignal
<1>3. Told(s, a)  BY <1>1, <1>2, SignalEnded DEF Falls
<1>4. Becomes(p, a) /\ stored' = stored  BY DEF EndSignal, Stops
<1> HIDE DEF a
<1>5. Rests(s, a, end[Other(p)])  BY <1>1, <1>3, ToldRests
<1> QED  BY <1>4, <1>5, OneTold

\* CED, CNG or a pause ends.
LEMMA EndToneTells ==
  ASSUME CallInv, BookInv, NEW p \in Peer, EndTone(p)
  PROVE  BookInv' /\ stored' = stored
<1> DEFINE s == end[p]
           a == SendComplete([s EXCEPT !.transmit = FALSE])
<1>1. EndInv(s)  BY CallOf DEF Call
<1>2. Tone(s) /\ Becomes(p, a) /\ stored' = stored  BY DEF EndTone
<1>3. /\ SameBook(s, a) /\ a.hears = "no"
      /\ \/ s.state = "ANSWERING" /\ a.state = "R" /\ a.buffer = Simple("CSI")
         \/ s.state = "B" /\ a.state = "CALL_FINISHED"
  BY <1>1, <1>2, ToneEnded
<1> HIDE DEF a
<1>4. DocKept(s, a)  BY <1>3, DocOfBook
<1>5. Rests(s, a, end[Other(p)])
  <2>1. CASE a.state = "CALL_FINISHED"  BY <1>4, <2>1, OverRests DEF Over
  <2>2. CASE s.state = "ANSWERING" /\ a.state = "R"
    BY <1>3, <1>4, <2>2 DEF Rests, SendRests, TakeRests, DocKept, Vouching, Takings, Waiting, Shut, Setup, Over, AnswerStates
  <2> QED  BY <1>3, <2>1, <2>2
<1> QED  BY <1>2, <1>5, OneTold

\* A frame is lost on the line.
LEMMA LostTells ==
  ASSUME CallInv, BookInv, NEW p \in Peer, Lost(p)
  PROVE  BookInv' /\ stored' = stored
<1> DEFINE s == end[p]
           a == SendComplete(Wants(s))
<1>1. EndInv(s) /\ Call(s, end[Other(p)])  BY CallOf DEF Call
<1>2. s.buffer # NoFrame /\ stored' = stored /\ Becomes(p, a) /\ s.tx_hdlc  BY DEF Lost, Wants
<1>3. s.tx_hdlc = TRUE
  <2>1. s.tx_hdlc \in BOOLEAN  BY <1>1, HdlcKnown
  <2> QED  BY <1>2, <2>1
<1>4. Told(s, a)  BY <1>1, <1>2, <1>3, FrameSent DEF Sent
<1> HIDE DEF a
<1>5. Rests(s, a, end[Other(p)])  BY <1>1, <1>4, ToldRests
<1> QED  BY <1>2, <1>5, OneTold

\* An end that hears a signal, and not a page, does nothing to the document.
LEMMA ListensRests ==
  ASSUME NEW s, NEW t, NEW r, Listens(s, t), t.image = s.image,
         t.hears # "fast" \/ t.ecm_allowed = TRUE \/ t.state # "F_DOC"
  PROVE  Rests(s, t, r)
<1>1. DocKept(s, t) /\ t.next_rx_step = s.next_rx_step /\ t.state = s.state /\ t.buffer = s.buffer
  BY DEF Listens, DocKept, SameTalk
<1> QED  BY <1>1, SameRests

\* A receiver trains on a page.
LEMMA PageTaken ==
  ASSUME NEW s, NEW r, NEW u, NEW file, NEW c \in Thing, Kept(s, r, file), r.state = "F_DOC", Listens(r, u),
         u.image = <<c>>, s.ecm_allowed = FALSE, r.ecm_allowed = FALSE,
         s.state \in {"I", "II_Q"} => Chunk(s) = <<c>>
  PROVE  Kept(s, u, file)
<1>1. u.state = "F_DOC" /\ u.got = r.got /\ u.in_message = r.in_message /\ u.ecm_allowed = FALSE
      /\ u.next_rx_step = r.next_rx_step
  BY DEF Listens, SameTalk
<1>2. Book(file, u) = Book(file, r)  BY <1>1 DEF Book, Draft
<1>3. Typed(u, file)  BY DEF Kept, Typed, Page
<1>4. Filed(s, Book(file, u)) /\ Gathers(s, u)  BY <1>1, <1>2 DEF Kept, Gathers
<1>5. Blank(s, u, file) /\ Vouches(s, u, file) /\ Draws(s, u)  BY <1>1 DEF Blank, Vouches, Draws
<1>6. Unopened(u, file)  BY <1>1 DEF Kept, Unopened, Waiting, Over, AnswerStates
<1> QED  BY <1>3, <1>4, <1>5, <1>6 DEF Kept

\* What the fast modem carries without error correction is the sender's page.
LEMMA PageCarried ==
  ASSUME NEW e, EndInv(e), e.tx = "fast"
  PROVE  Carried(e) \in Thing /\ (e.ecm_allowed = FALSE /\ e.state \in {"I", "II_Q"} => Chunk(e) = <<Carried(e)>>)
<1>1. e.page \in Nat  BY T30Assumption DEF EndInv, Counts
<1>2. Carried(e) \in Thing  BY <1>1 DEF Carried, Thing
<1>3. e.state # "II_Q"
  <2> SUFFICES ASSUME e.state = "II_Q"
               PROVE  FALSE
    OBVIOUS
  <2>1. e.phase \in {"D_RX", "D_TX"}  BY DEF EndInv, Mode, InII_Q, Asked, Command
  <2> QED  BY <2>1 DEF EndInv, Radio, Tuned, Modems, Listening, Talking
<1> QED  BY <1>2, <1>3 DEF Carried, Chunk

\* The fast modem of a receiver takes frames with error correction, and a page without.
LEMMA PlainPage ==
  ASSUME NEW s, Hears(s), s.rx = "fast", s.state = "F_DOC"
  PROVE  /\ s.rx_hdlc \in BOOLEAN
         /\ s.rx_hdlc = FALSE => s.ecm_allowed = FALSE
         /\ s.rx_hdlc = TRUE => s.ecm_allowed = TRUE
<1>1. EndInv(s)  BY DEF Hears
<1>2. s.ecm \in BOOLEAN /\ s.ecm = s.ecm_allowed  BY <1>1 DEF EndInv, Sides, ReceiveStates
<1>3. s.phase = (IF s.ecm THEN "C_ECM_RX" ELSE "C_NON_ECM_RX")  BY HearsState
<1>4. /\ s.phase = "C_NON_ECM_RX" => s.rx_hdlc = FALSE
      /\ s.phase = "C_ECM_RX" => s.rx_hdlc = TRUE
  BY <1>1, HearsPhase DEF EndInv, Radio
<1> QED  BY <1>2, <1>3, <1>4

\* A signal is heard, or the fast modem fails to train on it; a page comes with its signal.
LEMMA HearTells ==
  ASSUME CallInv, BookInv, NEW q \in Peer, Hear(q) \/ FailToTrain(q)
  PROVE  BookInv' /\ stored' = stored
<1> DEFINE s == end[q]
           p == Other(q)
           e == end[p]
           c == Carried(e)
           v == FramingOk(CarrierUp(s))
           w == FramingOk(Trained(s, c))
           u == Trained(s, c)
           n == TrainingFailed(s)
<1>1. p \in Peer /\ p # q /\ Other(p) = q /\ Call(e, s)  BY CallOf
<1>2. stored' = stored  BY DEF Hear, FailToTrain
<1>3. e.on = "preamble" /\ s.hears = "no" /\ CanHear(s, e.tx)  BY <1>1 DEF Hear, FailToTrain, Unheard
<1>4. s.state # "ANSWERING"  BY <1>1, <1>3, ToneAlone
<1>5. EndInv(s) /\ EndInv(e) /\ Match(e, s)  BY <1>1 DEF Call
<1>6. /\ s.early \in BOOLEAN
      /\ \/ e.tx = "v21" /\ (s.rx = "v21" \/ (s.rx = "fast" /\ s.early = TRUE))
         \/ e.tx = "fast" /\ s.rx = "fast"
  <2>1. s.early \in BOOLEAN  BY <1>5 DEF EndInv, Signals
  <2> QED  BY <1>3, <2>1 DEF CanHear
<1>7. Hears(s)  BY <1>3, <1>4, <1>5, <1>6 DEF Hears
<1>8. Tales(s, e, stored)  BY TalesOf
<1>9. CASE Hear(q) /\ e.tx = "v21"
  <2>1. Listens(s, v) /\ v.hears = "v21" /\ v.image = s.image  BY <1>6, <1>7, <1>9, CarrierHeard
  <2>2. Becomes(q, v)  BY <1>9 DEF Hear
  <2> HIDE DEF v
  <2> QED  BY <1>2, <2>1, <2>2, ListensRests, OneTold
<1>10. CASE Hear(q) /\ e.tx = "fast" /\ e.tx_hdlc /\ s.rx_hdlc
  <2>1. s.rx_hdlc = TRUE
    <3>1. s.rx_hdlc \in BOOLEAN  BY <1>5, HdlcKnown
    <3> QED  BY <1>10, <3>1
  <2>2. Listens(s, w) /\ w.hears = "fast" /\ w.image = s.image  BY <1>6, <1>7, <1>10, <2>1, FramesHeard
  <2>3. Becomes(q, w)  BY <1>10 DEF Hear
  <2> HIDE DEF w
  <2>4. w.ecm_allowed = TRUE \/ w.state # "F_DOC"
    <3>1. w.ecm_allowed = s.ecm_allowed /\ w.state = s.state  BY <2>2 DEF Listens, SameTalk
    <3> QED  BY <1>6, <1>7, <1>10, <2>1, <3>1, PlainPage
  <2> QED  BY <1>2, <2>2, <2>3, <2>4, ListensRests, OneTold
<1>11. CASE Hear(q) /\ e.tx = "fast" /\ ~(e.tx_hdlc /\ s.rx_hdlc)
  <2>1. /\ Listens(s, u) /\ u.hears = "fast"
        /\ u.image = (IF s.state = "F_DOC" /\ ~s.rx_hdlc THEN <<c>> ELSE s.image)
    BY <1>6, <1>7, <1>11, TrainedHeard
  <2>2. Becomes(q, u)  BY <1>11 DEF Hear
  <2>3. c \in Thing /\ (e.ecm_allowed = FALSE /\ e.state \in {"I", "II_Q"} => Chunk(e) = <<c>>)
    BY <1>5, <1>11, PageCarried
  <2> HIDE DEF u, c
  <2>4. u.ecm_allowed = s.ecm_allowed /\ u.state = s.state /\ u.tx_file = s.tx_file  BY <2>1 DEF Listens, SameTalk
  <2>5. CASE s.state = "F_DOC" /\ s.rx_hdlc = FALSE
    <3>1. s.ecm_allowed = FALSE /\ e.ecm_allowed = FALSE  BY <1>5, <1>6, <1>7, <1>11, <2>5, PlainPage DEF Match
    <3>2. s.tx_file = FALSE /\ e.tx_file = TRUE  BY <1>5, <2>5 DEF EndInv, Sides, Match, ReceiveStates
    <3>3. Kept(e, s, stored)  BY <1>8, <3>2 DEF Tales, Tale
    <3>4. Kept(e, u, stored)  BY <2>1, <2>3, <2>5, <3>1, <3>3, PageTaken
    <3>5. Tales(u, e, stored')  BY <1>2, <2>4, <3>2, <3>4 DEF Tales, Tale
    <3>6. end' = [end EXCEPT ![q] = u, ![p] = e]
      <4>1. DOMAIN end = Peer /\ end = [x \in Peer |-> end[x]]  BY DEF CallInv, Ends
      <4> QED  BY <1>1, <2>2, <4>1 DEF Becomes
    <3>7. BookInv'  BY <3>5, <3>6, BothTold
    <3> QED  BY <1>2, <3>7
  <2>6. CASE ~(s.state = "F_DOC" /\ s.rx_hdlc = FALSE)
    <3>1. u.image = s.image /\ (u.ecm_allowed = TRUE \/ u.state # "F_DOC")
      <4>1. s.state = "F_DOC" => s.rx_hdlc = TRUE /\ s.ecm_allowed = TRUE  BY <1>6, <1>7, <1>11, <2>6, PlainPage
      <4> QED  BY <2>1, <2>4, <4>1
    <3> QED  BY <1>2, <2>1, <2>2, <3>1, ListensRests, OneTold
  <2> QED  BY <2>5, <2>6
<1>12. CASE FailToTrain(q)
  <2>1. Listens(s, n) /\ n.hears = "noise" /\ n.image = s.image  BY <1>6, <1>7, <1>12, NoiseHeard DEF FailToTrain
  <2>2. Becomes(q, n)  BY <1>12 DEF FailToTrain
  <2> HIDE DEF n
  <2> QED  BY <1>2, <2>1, <2>2, ListensRests, OneTold
<1> QED  BY <1>6, <1>9, <1>10, <1>11, <1>12

\* A TCF that was heard opens a new page, and the file when it is closed, before the first block.
LEMMA TrainedKept ==
  ASSUME NEW s, NEW r, NEW u, NEW file, Kept(s, r, file), EndInv(u), r.state = "F_TCF", u.state = "F_CFR",
         u.image = <<>>, u.got = {}, u.in_message = TRUE, u.ecm_allowed = r.ecm_allowed,
         s.ecm_allowed = r.ecm_allowed, s.ecm_allowed \in BOOLEAN
  PROVE  Kept(s, u, file)
<1>1. Typed(u, file)  BY DEF Kept, Typed, Page
<1>2. Book(file, u) = Book(file, r)
  <2>1. CASE s.ecm_allowed = TRUE
    <3>1. Book(file, r) = <<>>  BY <2>1 DEF Kept, Blank
    <3>2. file = <<>>
      <4>1. file \in Seq(Page)  BY DEF Kept, Typed
      <4> QED  BY <3>1, <4>1 DEF Book, With
    <3> QED  BY <2>1, <3>1, <3>2 DEF Book, With, Draft
  <2>2. CASE s.ecm_allowed = FALSE  BY <2>2 DEF Book, Draft
  <2> QED  BY <2>1, <2>2
<1>3. Filed(s, Book(file, u)) /\ Gathers(s, u)  BY <1>2 DEF Kept, Gathers
<1>4. Blank(s, u, file)  BY <1>2 DEF Kept, Blank
<1>5. Vouches(s, u, file) /\ Draws(s, u) /\ Unopened(u, file)  BY DEF Vouches, Draws, Takings, Unopened
<1> QED  BY <1>1, <1>3, <1>4, <1>5 DEF Kept

\* A carrier that ends leaves the document, but after TCF.
LEMMA SilencedTells ==
  ASSUME NEW s, NEW t, NEW r, NEW file, Tales(s, r, file), Match(s, r), EndInv(s), EndInv(r), Silenced(s, t)
  PROVE  Tales(t, r, file)
<1>1. s.tx_file \in BOOLEAN /\ r.ecm_allowed \in BOOLEAN  BY DEF EndInv, Sides
<1>2. t.hears = "no" /\ EndInv(t) /\ t.tx_file = s.tx_file /\ t.ecm_allowed = s.ecm_allowed  BY DEF Silenced
<1>3. CASE t.state = s.state /\ t.buffer = s.buffer /\ SameDoc(s, t)
  <2>1. DocKept(s, t) /\ t.next_rx_step = s.next_rx_step  BY <1>3, DocOfBook DEF SameDoc
  <2>2. Rests(s, t, r)  BY <1>2, <1>3, <2>1, SameRests
  <2> QED  BY <1>1, <2>2, TalesRest
<1>4. CASE s.state = "F_TCF" /\ t.state = "F_FTT" /\ SameDoc(s, t)
  <2>1. DocKept(s, t)  BY <1>4, DocOfBook
  <2>2. s.tx_file = FALSE  BY <1>4 DEF EndInv, Sides, ReceiveStates
  <2>3. Rests(s, t, r)
    BY <1>4, <2>1, <2>2 DEF Rests, TakeRests, DocKept, Vouching, Takings, Waiting, Shut, Over, AnswerStates
  <2> QED  BY <1>1, <2>3, TalesRest
<1>5. CASE s.state = "F_TCF" /\ t.state = "F_CFR" /\ t.image = <<>> /\ t.got = {} /\ t.in_message = TRUE
  <2>1. s.tx_file = FALSE /\ r.tx_file = TRUE  BY <1>5 DEF EndInv, Sides, ReceiveStates, Match
  <2>2. Kept(r, s, file)  BY <2>1 DEF Tales, Tale
  <2>3. r.ecm_allowed = s.ecm_allowed  BY DEF Match
  <2>4. Kept(r, t, file)  BY <1>1, <1>2, <1>5, <2>2, <2>3, TrainedKept
  <2> QED  BY <1>2, <2>1, <2>4 DEF Tales, Tale
<1>6. CASE s.state = "F_DOC" /\ s.ecm = FALSE /\ s.hears = "fast" /\ t.state = "F_POST_DOC_NON_ECM" /\ SameDoc(s, t)
  <2>1. DocKept(s, t)  BY <1>6, DocOfBook
  <2>2. s.tx_file = FALSE  BY <1>6 DEF EndInv, Sides, ReceiveStates
  <2>3. Rests(s, t, r)
    BY <1>6, <2>1, <2>2 DEF Rests, TakeRests, DocKept, Vouching, Takings, Waiting, Shut, Over, AnswerStates
  <2> QED  BY <1>1, <2>3, TalesRest
<1> QED  BY <1>3, <1>4, <1>5, <1>6 DEF Silenced

\* One end has taken a step.
LEMMA StepTold ==
  ASSUME CallInv, NEW p \in Peer, NEW a, Becomes(p, a), stored' = stored, Tales(a, end[Other(p)], stored)
  PROVE  BookInv'
<1>1. Other(p) \in Peer /\ Other(p) # p  BY CallOf
<1>2. DOMAIN end = Peer /\ end = [x \in Peer |-> end[x]]  BY DEF CallInv, Ends
<1>3. end' = [end EXCEPT ![p] = a, ![Other(p)] = end[Other(p)]]  BY <1>1, <1>2 DEF Becomes
<1> QED  BY <1>3, BothTold

\* The carrier is lost, or ends.
LEMMA LoseTells ==
  ASSUME CallInv, BookInv, NEW q \in Peer, LoseCarrier(q)
  PROVE  BookInv' /\ stored' = stored
<1> DEFINE s == end[q]
           e == end[Other(q)]
           bits == s.hears # "v21" /\ ~s.rx_hdlc
<1>1. Call(s, e)  BY CallOf
<1>2. stored' = stored  BY DEF LoseCarrier
<1>3. PICK good \in BOOLEAN : Becomes(q, CarrierDown(s, bits, good))  BY DEF LoseCarrier
<1>4. s.hears # "no"  BY DEF LoseCarrier
<1> DEFINE t == CarrierDown(s, bits, good)
<1>5. Silenced(s, t)
  <2>1. EndInv(s) /\ bits \in BOOLEAN  BY <1>1 DEF Call
  <2>2. bits <=> s.hears # "v21" /\ ~s.rx_hdlc  OBVIOUS
  <2> HIDE DEF bits
  <2> QED  BY <1>4, <2>1, <2>2, SilencedEnd
<1>6. Becomes(q, t)  BY <1>3
<1> HIDE DEF t
<1>7. Tales(s, e, stored)  BY TalesOf
<1>8. Tales(t, e, stored)  BY <1>1, <1>5, <1>7, SilencedTells DEF Call
<1> QED  BY <1>2, <1>6, <1>8, StepTold

\* A command that is repeated (repeat_last_command) does nothing to the document.
LEMMA AgainRests ==
  ASSUME NEW s, NEW t, NEW r, Again(s, t)
  PROVE  Rests(s, t, r)
<1>1. SameDoc(s, t) /\ DocKept(s, t) /\ t.next_rx_step = s.next_rx_step  BY DocOfBook DEF Again, SameDoc
<1>2. CASE t.state = s.state /\ t.buffer = s.buffer /\ t.hears = s.hears  BY <1>1, <1>2, SameRests
<1>3. CASE t.state = s.state /\ t.hears = "no" /\ t.buffer.type \in {"CSI", "MPS", "EOP", "PPS", "FTT"}
  BY <1>1, <1>3, SameRests
<1>4. CASE t.state = "C"  BY <1>1, <1>4, OverRests DEF Over
<1> QED  BY <1>2, <1>3, <1>4 DEF Again

\* Nor does waiting.
LEMMA WaitedRests ==
  ASSUME NEW s, NEW w, NEW r
  PROVE  Rests(s, [s EXCEPT !.waited = w], r)
<1> DEFINE t == [s EXCEPT !.waited = w]
<1>1. DocKept(s, t) /\ t.next_rx_step = s.next_rx_step /\ t.state = s.state /\ t.buffer = s.buffer /\ t.hears = s.hears
  BY DEF DocKept
<1> HIDE DEF t
<1>2. Rests(s, t, r)  BY <1>1, SameRests
<1> QED  BY <1>2 DEF t

\* T4 runs out.
LEMMA ExpireT4Tells ==
  ASSUME CallInv, BookInv, NEW p \in Peer, ExpireT4(p)
  PROVE  BookInv' /\ stored' = stored
<1> DEFINE s == end[p]
           q == Other(p)
           e == end[q]
           a == T4Expired(Rung(s))
           w == e.timer_t2_t4 /\ ~e.timer_is_t4
           b == [e EXCEPT !.waited = w]
<1>1. Call(s, e) /\ q \in Peer /\ q # p  BY CallOf
<1>2. stored' = stored  BY DEF ExpireT4
<1>3. /\ ~Finished(s) /\ ~Sending(s)
      /\ s.hears = "no" \/ (e.on # "off" /\ ~Sending(e))
      /\ e.hears = "no" \/ s.on # "off"
  BY DEF ExpireT4, Idle
<1>4. s.timer_t2_t4 = TRUE /\ s.timer_is_t4 = TRUE
  <2>1. s.timer_t2_t4 \in BOOLEAN /\ s.timer_is_t4 \in BOOLEAN
    BY <1>1, Parts DEF Call, EndInv, Counts, Sides
  <2> QED  BY <2>1 DEF ExpireT4
<1>5. Call(a, e) /\ Again(s, a)  BY <1>1, <1>3, <1>4, T4Call
<1>6. end' = [end EXCEPT ![p] = a, ![q] = b]
  <2>1. end' = [end EXCEPT ![p] = a, ![q].waited = w]  BY DEF ExpireT4, Rung
  <2> QED  BY <1>1, <2>1
<1> HIDE DEF a, w
<1>7. Rests(s, a, e) /\ Rests(e, b, a)  BY <1>5, AgainRests, WaitedRests
<1>8. Match(s, e) /\ Match(a, e) /\ s.tx_file \in BOOLEAN /\ e.tx_file \in BOOLEAN  BY <1>1, <1>5 DEF Call, EndInv, Sides
<1>9. Tales(s, e, stored)  BY TalesOf
<1>10. Tales(a, e, stored)  BY <1>7, <1>8, <1>9, TalesRest
<1>11. Tales(e, a, stored) /\ Match(e, a)  BY <1>8, <1>10 DEF Tales, Match
<1> HIDE DEF b
<1>12. Tales(b, a, stored)  BY <1>7, <1>8, <1>11, TalesRest
<1>13. Tales(a, b, stored')  BY <1>2, <1>12 DEF Tales
<1> QED  BY <1>2, <1>6, <1>13, BothTold

\* T2 runs out.
LEMMA ExpireT2Tells ==
  ASSUME CallInv, BookInv, NEW p \in Peer, ExpireT2(p)
  PROVE  BookInv' /\ stored' = stored
<1> DEFINE s == end[p]
           e == end[Other(p)]
           a == T2Expired(Rung(s))
<1>1. Call(s, e)  BY CallOf
<1>2. stored' = stored  BY DEF ExpireT2
<1>3. /\ ~Finished(s) /\ ~Sending(s)
      /\ s.hears = "no" \/ (e.on # "off" /\ ~Sending(e))
      /\ e.hears = "no" \/ s.on # "off"
  BY DEF ExpireT2, Idle
<1>4. s.timer_t2_t4 = TRUE /\ s.timer_is_t4 = FALSE
  <2>1. s.timer_t2_t4 \in BOOLEAN /\ s.timer_is_t4 \in BOOLEAN
    BY <1>1, Parts DEF Call, EndInv, Counts, Sides
  <2> QED  BY <2>1 DEF ExpireT2
<1>5. Reopens(s, a)  BY <1>1, <1>3, <1>4, T2Call
<1>6. Becomes(p, a)  BY DEF ExpireT2, Rung
<1> HIDE DEF a
<1>7. DocKept(s, a)  BY <1>5, DocOfBook DEF Reopens
<1>8. s.rx_file # s.tx_file /\ s.rx_file \in BOOLEAN  BY <1>1 DEF Call, EndInv, Sides
<1>9. Rests(s, a, e)
  <2>1. SendRests(s, a, e) \/ s.tx_file # TRUE  BY <1>5, <1>7, <1>8 DEF Reopens, SendRests, DocKept
  <2>2. TakeRests(s, a)
    BY <1>5, <1>7 DEF Reopens, TakeRests, DocKept, Vouching, Takings, Waiting, Shut, Over, AnswerStates
  <2> QED  BY <1>7, <2>1, <2>2 DEF Rests, DocKept
<1> QED  BY <1>2, <1>6, <1>9, OneTold

\* An end that gives up or hangs up does nothing to the document.
LEMMA StaysRests ==
  ASSUME NEW s, NEW t, NEW r, Stays(s, t)
  PROVE  Rests(s, t, r)
<1>1. DocKept(s, t) /\ t.next_rx_step = s.next_rx_step  BY DocOfBook DEF Stays, SameDoc
<1> QED  BY <1>1, SameRests, OverRests DEF Stays

\* T0 or T1 runs out.
LEMMA ExpireT0T1Tells ==
  ASSUME CallInv, BookInv, NEW p \in Peer, ExpireT0T1(p)
  PROVE  BookInv' /\ stored' = stored
<1> DEFINE s == end[p]
           e == end[Other(p)]
           a == CallTimerExpired(s)
<1>1. Call(s, e)  BY CallOf
<1>2. stored' = stored /\ ~Finished(s) /\ ~Sending(s)  BY DEF ExpireT0T1
<1>3. s.timer_t0_t1 = TRUE
  <2>1. s.timer_t0_t1 \in BOOLEAN  BY <1>1, Parts DEF Call, EndInv, Counts
  <2> QED  BY <2>1 DEF ExpireT0T1
<1>4. Stays(s, a)  BY <1>1, <1>2, <1>3, CallTimerCall
<1>5. Becomes(p, a)  BY DEF ExpireT0T1, CallTimerExpired, Unset
<1> HIDE DEF a
<1> QED  BY <1>2, <1>4, <1>5, StaysRests, OneTold

\* An end hangs up.
LEMMA TerminateTells ==
  ASSUME CallInv, BookInv, NEW p \in Peer, Terminate(p)
  PROVE  BookInv' /\ stored' = stored
<1> DEFINE s == end[p]
           a == Terminated(s)
<1>1. Call(s, end[Other(p)])  BY CallOf
<1>2. stored' = stored  BY DEF Terminate
<1>3. Stays(s, a)  BY <1>1, TerminateCall DEF Terminate
<1>4. Becomes(p, a)  BY DEF Terminate, Terminated, HungUp
<1> HIDE DEF a
<1> QED  BY <1>2, <1>3, <1>4, StaysRests, OneTold

\* What a receiver makes of a frame of the sender, q becoming b.
Reads(p, q, m) ==
  /\ Kept(p, q, stored) /\ Meets(q, m) /\ Says(p, m) /\ EndInv(p) /\ Match(p, q) /\ p.tx_file = TRUE

\* The sides, the states and the mode of the two ends when a receiver has a frame.
LEMMA ReaderFacts ==
  ASSUME NEW p, NEW q, NEW m, Reads(p, q, m)
  PROVE  /\ EndInv(q) /\ Attends(q) /\ q.on = "off" /\ q.tx_file = FALSE /\ q.rx_file = TRUE
         /\ q.ecm_allowed = p.ecm_allowed /\ p.ecm_allowed \in BOOLEAN
         /\ p.state \notin ReceiveStates
<1>1. Attends(q) /\ EndInv(q) /\ q.on = "off"  BY Attending DEF Reads, Meets, Attends
<1>2. q.tx_file \in BOOLEAN /\ q.rx_file \in BOOLEAN /\ q.rx_file # q.tx_file /\ q.ecm_allowed \in BOOLEAN
  BY <1>1 DEF EndInv, Sides
<1>3. p.rx_file # p.tx_file /\ (p.state \in ReceiveStates => p.rx_file = TRUE)  BY DEF Reads, EndInv, Sides
<1> QED  BY <1>1, <1>2, <1>3 DEF Reads, Match

\* A receiver that does nothing to the document keeps what it has.
LEMMA ReaderRests ==
  ASSUME NEW p, NEW q, NEW m, Reads(p, q, m), NEW b, Rests(q, b, p)
  PROVE  Kept(p, b, stored)
<1>1. q.tx_file = FALSE /\ q.ecm_allowed = p.ecm_allowed  BY ReaderFacts
<1> QED  BY <1>1, TakerRests DEF Rests, Reads

\* It does when the frame is unexpected,
LEMMA ReaderGivesUp ==
  ASSUME NEW p, NEW q, NEW m, Reads(p, q, m), NEW r, HeardAs(q, r, TRUE), q.hears = "v21"
  PROVE  Kept(p, Unexpected(r), stored)
<1> DEFINE b == Unexpected(r)
<1>1. Attends(q)  BY ReaderFacts
<1>2. GivesUp(q, b) /\ SameDoc(q, b)  BY <1>1, UnexpectedHeard
<1> HIDE DEF b
<1>3. Rests(q, b, p)  BY <1>2, DocOfBook, OverRests DEF GivesUp, Over
<1>4. Kept(p, b, stored)  BY <1>3, ReaderRests
<1> QED  BY <1>4 DEF b

\* when it is DCN (process_rx_dcn),
LEMMA DcnRead ==
  ASSUME NEW p, NEW q, NEW m, Reads(p, q, m), NEW r, HeardAs(q, r, TRUE)
  PROVE  Kept(p, ProcessDcn(r), stored)
<1> DEFINE b == ProcessDcn(r)
<1>1. Attends(q)  BY ReaderFacts
<1>2. SameDoc(q, b) /\ b.state = "B"  BY <1>1, DcnHeard
<1> HIDE DEF b
<1>3. Rests(q, b, p)  BY <1>2, DocOfBook, OverRests DEF Over
<1>4. Kept(p, b, stored)  BY <1>3, ReaderRests
<1> QED  BY <1>4 DEF b

\* when it says who is calling (CSI, TSI),
LEMMA IdentityRead ==
  ASSUME NEW p, NEW q, NEW m, Reads(p, q, m), NEW r, HeardAs(q, r, FALSE), m.type \in {"CSI", "TSI"}
  PROVE  Kept(p, r, stored)
<1>1. Attends(q) /\ Meets(q, m)  BY ReaderFacts DEF Reads
<1>2. ~Final(m)  BY DEF Final
<1>3. q.state = "F_TCF" => q.hears = "v21"  BY <1>1 DEF Meets, Attends, InBlock
<1>4. q.state = "C" => q.timer_is_t4 = TRUE  BY <1>1, <1>2 DEF Meets
<1>5. SameDoc(q, r) /\ r.state = q.state /\ r.hears = q.hears /\ r.buffer = q.buffer  BY <1>1, <1>3, <1>4, IdentityHeard
<1>6. DocKept(q, r) /\ r.next_rx_step = q.next_rx_step  BY <1>5, DocOfBook DEF SameDoc
<1>7. Rests(q, r, p)  BY <1>5, <1>6, SameRests
<1> QED  BY <1>7, ReaderRests

\* and when it ends a block (process_rx_rcp).
LEMMA RcpRead ==
  ASSUME NEW p, NEW q, NEW m, Reads(p, q, m), NEW r, HeardAs(q, r, FALSE), m.type = "RCP"
  PROVE  Kept(p, ProcessRcp(r), stored)
<1> DEFINE b == ProcessRcp(r)
<1>1. Attends(q) /\ Meets(q, m) /\ q.tx_file = FALSE  BY ReaderFacts DEF Reads
<1>2. InBlock(q) /\ q.hears = "fast" /\ q.ecm_allowed = TRUE  BY <1>1 DEF Meets
<1>3. SameDoc(q, b) /\ b.state = "F_POST_DOC_ECM"  BY <1>1, <1>2, RcpHeard
<1> HIDE DEF b
<1>4. DocKept(q, b)  BY <1>3, DocOfBook
<1>5. Rests(q, b, p)
  BY <1>1, <1>2, <1>3, <1>4 DEF Rests, TakeRests, DocKept, InBlock, Vouching, Takings, Waiting, Shut, Over, AnswerStates
<1>6. Kept(p, b, stored)  BY <1>5, ReaderRests
<1> QED  BY <1>6 DEF b

\* A frame of the block (process_rx_fcd) replaces an earlier copy of itself.
LEMMA FcdRead ==
  ASSUME NEW p, NEW q, NEW m, Reads(p, q, m), NEW r, HeardAs(q, r, FALSE), m.type = "FCD", m = p.buffer
  PROVE  Kept(p, ProcessFcd(r, m), stored)
<1> DEFINE b == ProcessFcd(r, m)
<1>1. Attends(q) /\ Meets(q, m) /\ q.tx_file = FALSE /\ Kept(p, q, stored) /\ EndInv(p) /\ Says(p, m)
  BY ReaderFacts DEF Reads
<1>2. q.state = "F_DOC" /\ q.ecm_allowed = TRUE  BY <1>1 DEF Meets
<1>3. Adds(q, m, b)  BY <1>1, <1>2, FcdHeard
<1>4. p.ecm_allowed = TRUE /\ m.no \in 1 .. BlockFrames /\ m = FcdFrame(p.page, p.ecm_block, m.no)
  BY <1>1 DEF EndInv, Carries
<1> HIDE DEF b
<1>5. /\ b.state = "F_DOC" /\ b.got = {g \in q.got : g.no # m.no} \cup {m} /\ b.image = q.image
      /\ b.in_message = q.in_message /\ b.ecm_allowed = q.ecm_allowed
  BY <1>3 DEF Adds, Settles
<1>6. Book(stored, b) = Book(stored, q)  BY <1>5 DEF Book, Draft
<1>7. Typed(b, stored) /\ Filed(p, Book(stored, b))  BY <1>1, <1>5, <1>6 DEF Kept, Typed
<1>8. Gathers(p, b)  BY <1>1, <1>4, <1>5 DEF Kept, Gathers
<1>9. p.state = "IV"
  <2>1. p.tx = "fast"  BY <1>1 DEF Says
  <2> QED  BY <1>1, <2>1 DEF Says
<1>10. Blank(p, b, stored) /\ Vouches(p, b, stored) /\ Draws(p, b)  BY <1>5, <1>9, <1>4 DEF Blank, Vouches, Draws, Setup
<1>11. Unopened(b, stored)  BY <1>1, <1>2, <1>5 DEF Kept, Unopened, Waiting, Over, AnswerStates
<1>12. Kept(p, b, stored)  BY <1>7, <1>8, <1>10, <1>11 DEF Kept
<1> QED  BY <1>12 DEF b

\* The far end may ask again (process_rx_dis): nothing is taken or written.
LEMMA DisRead ==
  ASSUME NEW p, NEW q, NEW m, Reads(p, q, m), NEW r, HeardAs(q, r, TRUE), m.type = "DIS"
  PROVE  Kept(p, ProcessDis(r, m), stored)
<1> DEFINE b == ProcessDis(r, m)
<1>1. Attends(q) /\ Meets(q, m) /\ q.tx_file = FALSE  BY ReaderFacts DEF Reads
<1>2. q.hears = "v21" /\ m.ecm = q.ecm_allowed /\ m.can_send \in BOOLEAN /\ (m.can_send = TRUE => q.state # "F_DOC")
  BY <1>1 DEF Meets, Attends
<1>3. CASE q.state \in {"D_POST_TCF", "T", "R", "F_DOC"}
  <2>1. Invited(q, m, b)  BY <1>1, <1>2, <1>3, DisHeard
  <2> HIDE DEF b
  <2>2. /\ b.image = q.image /\ b.got = q.got /\ b.in_message = q.in_message /\ b.next_rx_step = q.next_rx_step
        /\ b.state \in {"R", "C"} /\ b.tx_file = q.tx_file /\ b.ecm_allowed = q.ecm_allowed
    BY <1>1, <2>1 DEF Invited, Settles
  <2>3. Rests(q, b, p)
    BY <1>1, <1>3, <2>2 DEF Rests, TakeRests, Vouching, Takings, Waiting, Shut, Over, AnswerStates
  <2>4. Kept(p, b, stored)  BY <2>3, ReaderRests
  <2> QED  BY <2>4 DEF b
<1>4. CASE q.state \notin {"D_POST_TCF", "T", "R", "F_DOC"}
  <2>1. r.state = q.state  BY DEF HeardAs, SameTalk
  <2>2. b = Unexpected(r)  BY <1>4, <2>1 DEF ProcessDis
  <2> HIDE DEF b
  <2> QED  BY <1>2, <2>2, ReaderGivesUp DEF b
<1> QED  BY <1>3, <1>4

\* DCS (process_rx_dcs) finds the file closed only when nothing is in it.
LEMMA DcsRead ==
  ASSUME NEW p, NEW q, NEW m, Reads(p, q, m), NEW r, HeardAs(q, r, TRUE), m.type = "DCS"
  PROVE  Kept(p, ProcessDcs(r, m), stored)
<1> DEFINE b == ProcessDcs(r, m)
<1>1. Attends(q) /\ Meets(q, m) /\ Says(p, m) /\ q.tx_file = FALSE /\ q.rx_file = TRUE /\ Kept(p, q, stored)
      /\ p.ecm_allowed \in BOOLEAN /\ q.ecm_allowed = p.ecm_allowed
  BY ReaderFacts DEF Reads
<1>2. q.hears = "v21" /\ m.ecm = q.ecm_allowed /\ (q.state = "F_DOC" => q.ecm = FALSE) /\ p.state = "D"
  BY <1>1 DEF Meets, Attends, Says
<1>3. CASE q.state \in {"R", "F_DOC"}
  <2>1. Trainee(q, b)  BY <1>1, <1>2, <1>3, DcsHeard
  <2> HIDE DEF b
  <2>2. /\ b.image = q.image /\ b.got = q.got /\ b.in_message = q.in_message /\ b.ecm_allowed = q.ecm_allowed
        /\ b.state = "F_TCF"
    BY <1>1, <2>1 DEF Trainee, SamePage, Settles
  <2>3. Book(stored, b) = Book(stored, q)  BY <2>2 DEF Book, Draft
  <2>4. Typed(b, stored) /\ Filed(p, Book(stored, b)) /\ Gathers(p, b)  BY <1>1, <2>2, <2>3 DEF Kept, Typed, Gathers
  <2>5. Blank(p, b, stored)  BY <1>1, <1>2, <2>2, <2>3 DEF Kept, Blank, Setup
  <2>6. Vouches(p, b, stored) /\ Draws(p, b)  BY <2>2 DEF Vouches, Draws, Takings
  <2>7. Unopened(b, stored)  BY <1>1, <1>3, <2>2 DEF Kept, Unopened, Waiting, Over, AnswerStates
  <2>8. Kept(p, b, stored)  BY <2>4, <2>5, <2>6, <2>7 DEF Kept
  <2> QED  BY <2>8 DEF b
<1>4. CASE q.state \notin {"R", "F_DOC"}
  <2>1. r.state = q.state  BY DEF HeardAs, SameTalk
  <2>2. b = Unexpected(r)  BY <1>4, <2>1 DEF ProcessDcs
  <2> HIDE DEF b
  <2> QED  BY <1>2, <2>2, ReaderGivesUp DEF b
<1> QED  BY <1>3, <1>4

\* A sender that sends is on a page and, with error correction, on a block of it.
LEMMA SenderOnPage ==
  ASSUME NEW p, EndInv(p), p.ecm_allowed = TRUE => p.state \in SendStates
  PROVE  OnPage(p)
<1>1. p.ecm_allowed \in BOOLEAN /\ p.ecm \in BOOLEAN /\ (p.state \in SendStates => p.ecm = p.ecm_allowed)
  BY DEF EndInv, Sides
<1>2. Pages \in Nat /\ Blocks \in Nat  BY T30Assumption
<1>3. p.page \in Nat \ {0} /\ p.ecm_block \in Nat  BY <1>2 DEF EndInv, Counts
<1>4. p.ecm_allowed = TRUE => p.ecm_block # 0
  <2>1. p.ecm_allowed = TRUE => p.ecm_block \in 1 .. Blocks  BY <1>1 DEF EndInv, Counts
  <2> QED  BY <1>2, <2>1
<1> QED  BY <1>1, <1>3, <1>4 DEF OnPage

\* A page goes into the file.
LEMMA PageRead ==
  ASSUME NEW p, NEW q, NEW m, Reads(p, q, m), NEW r, HeardAs(q, r, TRUE), m.type \in {"MPS", "EOP"},
         q.state = "F_POST_DOC_NON_ECM", NEW quality \in {"GOOD", "POOR", "BAD"}
  PROVE  Kept(p, ProcessPageEnd(r, m.type, quality), IF quality # "BAD" THEN Append(stored, q.image) ELSE stored)
         /\ q.image \in Page
<1> DEFINE b == ProcessPageEnd(r, m.type, quality)
           f == IF quality # "BAD" THEN Append(stored, q.image) ELSE stored
<1>1. Attends(q) /\ EndInv(q) /\ Meets(q, m) /\ Says(p, m) /\ EndInv(p) /\ Kept(p, q, stored)
      /\ q.ecm_allowed = p.ecm_allowed
  BY ReaderFacts DEF Reads
<1>2. q.hears = "v21" /\ p.state = "II_Q"  BY <1>1 DEF Meets, Attends, Says
<1>3. q.ecm_allowed = FALSE /\ p.ecm_allowed = FALSE
  BY <1>1 DEF EndInv, Mode, InF_POST_DOC_NON_ECM, Sides, ReceiveStates
<1>4. PageAnswered(q, b, m.type, quality)  BY <1>1, <1>2, PageEndHeard
<1> HIDE DEF b
<1>5. /\ b.ecm_allowed = FALSE
      /\ quality = "GOOD" => b.state = "III_Q_MCF"
      /\ quality = "POOR" => b.state = "III_Q_RTP" /\ b.buffer.type = "RTP"
      /\ quality = "BAD" => b.state = "III_Q_RTN" /\ b.buffer.type = "RTN"
      /\ b.state \in AnswerStates
  BY <1>1, <1>3, <1>4 DEF PageAnswered, Answers, Settles, AnswerStates
<1>6. q.image = Chunk(p)  BY <1>1, <1>2, <1>3 DEF Kept, Draws, Takings
<1>7. q.got = {} /\ b.got = {}
  <2>1. q.got = {}  BY <1>1, <1>3 DEF Kept, Gathers
  <2> QED  BY <1>4, <2>1 DEF PageAnswered
<1>8. stored \in Seq(Page) /\ q.image \in Page /\ <<>> \in Page  BY <1>1 DEF Kept, Typed, Page
<1>9. b.image \in Page  BY <1>4, <1>8 DEF PageAnswered
<1>10. Book(stored, q) = stored /\ \A file : Book(file, b) = file  BY <1>3, <1>5 DEF Book, Draft, With
<1>11. Filed(p, stored)  BY <1>1, <1>10 DEF Kept
<1>12. q.in_message # FALSE  BY <1>1 DEF Kept, Unopened, Waiting, Over, AnswerStates
<1>13. Unopened(b, f)  BY <1>4, <1>5, <1>12 DEF Unopened, PageAnswered
<1>14. Gathers(p, b) /\ Blank(p, b, f) /\ Draws(p, b)  BY <1>3, <1>5, <1>7 DEF Gathers, Blank, Draws, Takings, AnswerStates
<1>15. CASE quality = "BAD"
  <2>1. Typed(b, f) /\ Filed(p, Book(f, b))  BY <1>8, <1>9, <1>10, <1>11, <1>15 DEF Typed
  <2>2. Vouches(p, b, f)  BY <1>5, <1>15 DEF Vouches
  <2>3. Kept(p, b, f)  BY <1>13, <1>14, <2>1, <2>2 DEF Kept
  <2> QED  BY <1>8, <2>3 DEF b
<1>16. CASE quality # "BAD"
  <2>1. OnPage(p)  BY <1>1, <1>3, SenderOnPage
  <2>2. With(stored, <<>>) = stored  BY DEF With
  <2>3. Chunk(p) \in Page /\ <<>> \o Chunk(p) = Chunk(p)  BY <1>6, <1>8 DEF Page
  <2>4. f = Append(stored, <<>> \o Chunk(p))  BY <1>6, <1>16, <2>3
  <2>5. Filed(p, With(stored, <<>>))  BY <1>11, <2>2
  <2>6. /\ f \in Seq(Page) /\ Filed(p, f) /\ UpToDate(p, f)
        /\ \A k \in Done(p) + 1 .. Done(p) + Unit(p) : Has(f, k)
    BY <1>8, <2>1, <2>4, <2>5, ChunkFiled
  <2> HIDE DEF f
  <2>7. Typed(b, f) /\ Filed(p, Book(f, b)) /\ Vouches(p, b, f)  BY <1>7, <1>9, <1>10, <2>6 DEF Typed, Vouches
  <2>8. Kept(p, b, f)  BY <1>13, <1>14, <2>7 DEF Kept
  <2> QED  BY <1>8, <2>8 DEF b, f
<1> QED  BY <1>15, <1>16

\* A block goes into the page, and the last block of it into the file.
LEMMA BlockRead ==
  ASSUME NEW p, NEW q, NEW m, Reads(p, q, m), NEW r, HeardAs(q, r, TRUE), m.type = "PPS", InBlock(q)
  PROVE  Kept(p, ProcessPps(r, m), IF PageComplete(q, m) THEN Append(stored, Committed(q).image) ELSE stored)
         /\ (PageComplete(q, m) => Committed(q).image \in Page)
<1> DEFINE b == ProcessPps(r, m)
           f == IF PageComplete(q, m) THEN Append(stored, Committed(q).image) ELSE stored
           g == q.image \o Chunk(p)
           n == Append(stored, g)
<1>1. Attends(q) /\ EndInv(q) /\ Meets(q, m) /\ Says(p, m) /\ EndInv(p) /\ Kept(p, q, stored) /\ q.tx_file = FALSE
      /\ q.ecm_allowed = p.ecm_allowed
  BY ReaderFacts DEF Reads
<1>2. q.hears = "v21" /\ q.ecm_allowed = TRUE /\ p.ecm_allowed = TRUE /\ m.post \in {"NULL", "MPS", "EOP"}
      /\ p.state \in {"IV_PPS_NULL", "IV_PPS_Q"}
  BY <1>1 DEF Meets, Attends, Says
<1>3. r.got = q.got  BY DEF HeardAs, SameDoc
<1>4. Missing(r) = Missing(q) /\ BlockImage(r) = BlockImage(q)  BY <1>3 DEF Missing, BlockImage
<1>5. CASE Missing(q) # {}
  <2>1. Answers(q, b, "F_POST_RCP_PPR", "PPR") /\ SameDoc(q, b)  BY <1>1, <1>2, <1>4, <1>5, PprAnswered
  <2> HIDE DEF b
  <2>2. DocKept(q, b) /\ b.state = "F_POST_RCP_PPR" /\ b.buffer.type = "PPR"  BY <2>1, DocOfBook DEF Answers
  <2>3. Rests(q, b, p)
    BY <1>1, <2>2 DEF Rests, TakeRests, DocKept, InBlock, Vouching, Takings, Waiting, Shut, Over, AnswerStates
  <2>4. Kept(p, b, stored)  BY <2>3, ReaderRests
  <2>5. ~PageComplete(q, m)  BY <1>5 DEF PageComplete
  <2> QED  BY <2>4, <2>5 DEF b
<1>6. CASE Missing(q) = {}
  <2>1. BlockAnswered(q, b, m, BlockImage(q))
    <3>1. Missing(r) = {}  BY <1>4, <1>6
    <3>2. BlockAnswered(q, b, m, BlockImage(r))  BY <1>1, <1>2, <3>1, McfAnswered
    <3> QED  BY <1>4, <3>2
  <2>2. BlockImage(q) = Chunk(p)  BY <1>1, <1>2, <1>6, BlockGathered DEF Kept
  <2>3. stored \in Seq(Page) /\ q.image \in Page /\ Filed(p, With(stored, q.image)) /\ <<>> \in Page
    BY <1>1, <1>2 DEF Kept, Typed, Book, Draft, Page
  <2>4. OnPage(p)  BY <1>1, <1>2, SenderOnPage DEF SendStates
  <2>5. /\ g \in Page /\ g # <<>> /\ n \in Seq(Page) /\ Filed(p, n) /\ UpToDate(p, n)
        /\ \A k \in Done(p) + 1 .. Done(p) + Unit(p) : Has(n, k)
    BY <2>3, <2>4, ChunkFiled
  <2>6. Committed(q).image = g
    <3>1. Fields \subseteq DOMAIN q  BY <1>1 DEF EndInv
    <3> QED  BY <2>2, <3>1 DEF Committed, Fields
  <2>7. PageComplete(q, m) <=> m.post # "NULL"  BY <1>6 DEF PageComplete, InBlock
  <2> HIDE DEF b, g, n
  <2>8. b.state = "F_POST_RCP_MCF" /\ b.ecm_allowed = TRUE  BY <1>2, <2>1 DEF BlockAnswered, Answers, Settles
  <2>9. f \in Seq(Page) /\ b.image \in Page /\ Book(f, b) = n
    <3>1. CASE m.post = "NULL"
      <4>1. f = stored /\ b.image = g  BY <2>1, <2>2, <2>7, <3>1 DEF BlockAnswered, g
      <4> QED  BY <2>3, <2>5, <2>8, <4>1 DEF Book, Draft, With, n
    <3>2. CASE m.post # "NULL"
      <4>1. f = n /\ b.image = <<>>  BY <2>1, <2>6, <2>7, <3>2 DEF BlockAnswered, n
      <4> QED  BY <2>3, <2>5, <2>8, <4>1 DEF Book, Draft, With
    <3> QED  BY <3>1, <3>2
  <2> HIDE DEF f
  <2>10. Typed(b, f) /\ Filed(p, Book(f, b)) /\ Gathers(p, b)  BY <2>1, <2>5, <2>9 DEF Typed, Gathers, BlockAnswered
  <2>11. Blank(p, b, f) /\ Draws(p, b)  BY <1>2, <2>8 DEF Blank, Draws, Setup
  <2>12. Vouches(p, b, f)  BY <2>1, <2>5, <2>9 DEF Vouches, BlockAnswered
  <2>13. Unopened(b, f)  BY <1>1, <2>1 DEF Kept, Unopened, InBlock, BlockAnswered, Waiting, Over, AnswerStates
  <2>14. Kept(p, b, f)  BY <2>10, <2>11, <2>12, <2>13 DEF Kept
  <2> QED  BY <2>5, <2>6, <2>14 DEF b, f
<1> QED  BY <1>5, <1>6

\* What a step may make of the file.
Grows(file) == file = stored \/ \E page \in Page : file = Append(stored, page)

\* What a receiver writes: nothing, but at the end of a page it accepts.
LEMMA ReaderFiles ==
  ASSUME NEW p, NEW q, NEW m, NEW quality, Reads(p, q, m)
  PROVE  /\ m.type \notin {"MPS", "EOP", "PPS"} => File(q, m, quality) = stored
         /\ m.type \in {"MPS", "EOP"} =>
              File(q, m, quality) =
                IF q.state = "F_POST_DOC_NON_ECM" /\ quality # "BAD" THEN Append(stored, q.image) ELSE stored
         /\ m.type = "PPS" =>
              File(q, m, quality) = IF PageComplete(q, m) THEN Append(stored, Committed(q).image) ELSE stored
<1>1. EndInv(q) /\ Kept(p, q, stored)  BY ReaderFacts DEF Reads
<1>2. q.in_message \in BOOLEAN  BY <1>1 DEF EndInv, Counts
<1>3. q.in_message = FALSE /\ q.state \in {"R", "F_DOC"} => stored = <<>>
  BY <1>1 DEF Kept, Unopened, Over, AnswerStates
<1>4. m.type = "DCS" /\ q.state \in {"R", "F_DOC"} /\ q.rx_file /\ ~q.in_message => stored = <<>>  BY <1>2, <1>3
<1>5. Judges(q, m) <=> m.type \in {"MPS", "EOP"} /\ q.state = "F_POST_DOC_NON_ECM"  BY DEF Judges
<1>6. PageComplete(q, m) => m.type = "PPS"  BY DEF PageComplete
<1> HIDE DEF PageComplete
<1>7. File(q, m, quality) =
      CASE m.type = "DCS" /\ q.state \in {"R", "F_DOC"} /\ q.rx_file /\ ~q.in_message -> <<>>
        [] Judges(q, m) /\ quality # "BAD" -> Append(stored, q.image)
        [] PageComplete(q, m) -> Append(stored, Committed(q).image)
        [] OTHER -> stored
  BY DEF File
<1> DEFINE opened == m.type = "DCS" /\ q.state \in {"R", "F_DOC"} /\ q.rx_file /\ ~q.in_message
           f == File(q, m, quality)
<1>8. opened => m.type = "DCS" /\ stored = <<>>  BY <1>4
<1>9. f = IF opened THEN <<>> ELSE IF Judges(q, m) /\ quality # "BAD" THEN Append(stored, q.image)
          ELSE IF PageComplete(q, m) THEN Append(stored, Committed(q).image) ELSE stored
  BY <1>5, <1>6, <1>7
<1> HIDE DEF opened, f
<1>10. /\ m.type \notin {"MPS", "EOP", "PPS"} => f = stored
       /\ m.type \in {"MPS", "EOP"} =>
            f = IF q.state = "F_POST_DOC_NON_ECM" /\ quality # "BAD" THEN Append(stored, q.image) ELSE stored
       /\ m.type = "PPS" => f = IF PageComplete(q, m) THEN Append(stored, Committed(q).image) ELSE stored
  BY <1>5, <1>6, <1>8, <1>9
<1> QED  BY <1>10 DEF f

\* What a receiver makes of a frame, and what it writes.
LEMMA ReaderTakes ==
  ASSUME NEW p, NEW q, NEW m, NEW quality, Comes(m, quality), Reads(p, q, m), m = p.buffer
  PROVE  Kept(p, Accept(q, m, quality), File(q, m, quality)) /\ Grows(File(q, m, quality))
<1> DEFINE r == Heard(q, m, quality = "CUT")
           b == Accept(q, m, quality)
           f == File(q, m, quality)
<1>1. EndInv(q) /\ q.on = "off" /\ Meets(q, m) /\ Says(p, m) /\ p.state \notin ReceiveStates
  BY ReaderFacts DEF Reads
<1>2. HeardAs(q, r, Final(m))  BY <1>1, HeardFacts
<1>3. Final(m) => HeardAs(q, r, TRUE)  BY <1>2
<1>4. ~Final(m) => HeardAs(q, r, FALSE)
  <2>1. Final(m) \in BOOLEAN  BY DEF Final
  <2> QED  BY <1>2, <2>1
<1>5. b = CASE m.type \in {"CSI", "TSI"} -> r
        [] m.type = "FCD" -> ProcessFcd(r, m)
        [] m.type = "RCP" -> ProcessRcp(r)
        [] m.type = "DIS" -> ProcessDis(r, m)
        [] m.type = "DCS" -> ProcessDcs(r, m)
        [] m.type = "CFR" -> ProcessCfr(r)
        [] m.type = "FTT" -> ProcessFtt(r)
        [] m.type \in {"MPS", "EOP"} -> ProcessPageEnd(r, m.type, quality)
        [] m.type = "PPS" -> ProcessPps(r, m)
        [] m.type = "PPR" -> ProcessPpr(r, m)
        [] m.type = "MCF" -> ProcessMcf(r)
        [] m.type \in {"RTP", "RTN"} -> ProcessRetrain(r, m)
        [] m.type = "CTC" -> ProcessCtc(r)
        [] m.type = "CTR" -> ProcessCtr(r)
        [] m.type = "DCN" -> ProcessDcn(r)
  BY DEF Accept
<1>6. /\ m.type \notin {"MPS", "EOP", "PPS"} => f = stored
      /\ m.type \in {"MPS", "EOP"} =>
           f = IF q.state = "F_POST_DOC_NON_ECM" /\ quality # "BAD" THEN Append(stored, q.image) ELSE stored
      /\ m.type = "PPS" => f = IF PageComplete(q, m) THEN Append(stored, Committed(q).image) ELSE stored
  BY ReaderFiles
<1>7. r.state = q.state  BY <1>2 DEF HeardAs, SameTalk
<1>8. m.type \notin {"FCD", "RCP"} => q.hears = "v21"  BY <1>1 DEF Meets, Attends
<1> HIDE DEF r, b, f
<1>9. ASSUME m.type \in {"CSI", "TSI", "FCD", "RCP"} PROVE Kept(p, b, f) /\ Grows(f)
  <2>1. HeardAs(q, r, FALSE)  BY <1>4, <1>9 DEF Final
  <2>2. f = stored  BY <1>6, <1>9
  <2>3. ASSUME m.type \in {"CSI", "TSI"} PROVE Kept(p, b, stored)
    <3>1. b = r  BY <1>5, <2>3
    <3> QED  BY <2>1, <2>3, <3>1, IdentityRead
  <2>4. ASSUME m.type = "FCD" PROVE Kept(p, b, stored)
    <3>1. b = ProcessFcd(r, m)  BY <1>5, <2>4
    <3> QED  BY <2>1, <2>4, <3>1, FcdRead
  <2>5. ASSUME m.type = "RCP" PROVE Kept(p, b, stored)
    <3>1. b = ProcessRcp(r)  BY <1>5, <2>5
    <3> QED  BY <2>1, <2>5, <3>1, RcpRead
  <2> QED  BY <1>9, <2>2, <2>3, <2>4, <2>5 DEF Grows
<1>10. ASSUME m.type \in {"DIS", "DCS", "DCN", "CTC"} PROVE Kept(p, b, f) /\ Grows(f)
  <2>1. HeardAs(q, r, TRUE) /\ q.hears = "v21"  BY <1>3, <1>8, <1>10 DEF Final
  <2>2. f = stored  BY <1>6, <1>10
  <2>3. ASSUME m.type = "DIS" PROVE Kept(p, b, stored)
    <3>1. b = ProcessDis(r, m)  BY <1>5, <2>3
    <3> QED  BY <2>1, <2>3, <3>1, DisRead
  <2>4. ASSUME m.type = "DCS" PROVE Kept(p, b, stored)
    <3>1. b = ProcessDcs(r, m)  BY <1>5, <2>4
    <3> QED  BY <2>1, <2>4, <3>1, DcsRead
  <2>5. ASSUME m.type = "DCN" PROVE Kept(p, b, stored)
    <3>1. b = ProcessDcn(r)  BY <1>5, <2>5
    <3> QED  BY <2>1, <2>5, <3>1, DcnRead
  <2>6. ASSUME m.type = "CTC" PROVE Kept(p, b, stored)
    <3>1. q.state \notin {"F_DOC", "F_POST_DOC_ECM"}  BY <1>1, <2>6 DEF Meets, InBlock
    <3>2. b = ProcessCtc(r)  BY <1>5, <2>6
    <3>3. b = Unexpected(r)  BY <1>7, <3>1, <3>2 DEF ProcessCtc
    <3> QED  BY <2>1, <3>3, ReaderGivesUp
  <2> QED  BY <1>10, <2>2, <2>3, <2>4, <2>5, <2>6 DEF Grows
<1>11. ASSUME m.type \in {"MPS", "EOP"} PROVE Kept(p, b, f) /\ Grows(f)
  <2>1. HeardAs(q, r, TRUE) /\ q.hears = "v21"  BY <1>3, <1>8, <1>11 DEF Final
  <2>2. b = ProcessPageEnd(r, m.type, quality)  BY <1>5, <1>11
  <2>3. CASE q.state = "F_POST_DOC_NON_ECM"
    <3>1. f = IF quality # "BAD" THEN Append(stored, q.image) ELSE stored  BY <1>6, <1>11, <2>3
    <3>2. quality \in {"GOOD", "POOR", "BAD"}  BY <1>11 DEF Comes, Final
    <3>3. Kept(p, b, f) /\ q.image \in Page  BY <1>11, <2>1, <2>2, <2>3, <3>1, <3>2, PageRead
    <3> QED  BY <3>1, <3>3 DEF Grows
  <2>4. CASE q.state # "F_POST_DOC_NON_ECM"
    <3>1. f = stored  BY <1>6, <1>11, <2>4
    <3>2. b = Unexpected(r)  BY <1>7, <2>2, <2>4 DEF ProcessPageEnd
    <3>3. Kept(p, b, stored)  BY <2>1, <3>2, ReaderGivesUp
    <3> QED  BY <3>1, <3>3 DEF Grows
  <2> QED  BY <2>3, <2>4
<1>12. ASSUME m.type = "PPS" PROVE Kept(p, b, f) /\ Grows(f)
  <2>1. HeardAs(q, r, TRUE) /\ q.hears = "v21"  BY <1>3, <1>8, <1>12 DEF Final
  <2>2. b = ProcessPps(r, m)  BY <1>5, <1>12
  <2>3. f = IF PageComplete(q, m) THEN Append(stored, Committed(q).image) ELSE stored  BY <1>6, <1>12
  <2>4. CASE InBlock(q)
    <3>1. Kept(p, b, f) /\ (PageComplete(q, m) => Committed(q).image \in Page)
      BY <1>12, <2>1, <2>2, <2>3, <2>4, BlockRead
    <3> QED  BY <2>3, <3>1 DEF Grows
  <2>5. CASE ~InBlock(q)
    <3>1. f = stored  BY <2>3, <2>5 DEF PageComplete, InBlock
    <3>2. b = Unexpected(r)  BY <1>7, <2>2, <2>5 DEF ProcessPps, InBlock
    <3>3. Kept(p, b, stored)  BY <2>1, <3>2, ReaderGivesUp
    <3> QED  BY <3>1, <3>3 DEF Grows
  <2> QED  BY <2>4, <2>5
<1>13. m.type \in {"CSI", "TSI", "FCD", "RCP", "DIS", "DCS", "DCN", "CTC", "MPS", "EOP", "PPS"}
  BY <1>1 DEF Meets, Says, FrameTypes, ReceiveStates, AnswerStates
<1>14. Kept(p, b, f) /\ Grows(f)  BY <1>9, <1>10, <1>11, <1>12, <1>13
<1> QED  BY <1>14 DEF b, f

\* What a sender q makes of a frame of the receiver p, that is a when it is out.
Gets(q, p, a, m) ==
  /\ Kept(q, p, stored) /\ Kept(q, a, stored) /\ Told(p, a) /\ a.state \notin {"F_TCF", "F_POST_DOC_NON_ECM"}
  /\ Meets(q, m) /\ Says(p, m) /\ EndInv(p) /\ Match(p, q) /\ q.tx_file = TRUE

\* The sides, the states and the frames when a sender has a frame of its receiver.
LEMMA GetterFacts ==
  ASSUME NEW q, NEW p, NEW a, NEW m, Gets(q, p, a, m)
  PROVE  /\ EndInv(q) /\ Attends(q) /\ q.on = "off" /\ q.rx_file = FALSE /\ q.state \notin ReceiveStates
         /\ p.state \notin SendStates /\ q.hears = "v21"
         /\ m.type \in {"CSI", "TSI", "DIS", "CFR", "FTT", "PPR", "MCF", "RTP", "RTN", "CTC", "DCN"}
         /\ ~Takings(a) /\ ~Vouching(a)
<1>1. Meets(q, m) /\ Says(p, m) /\ EndInv(p) /\ Match(p, q) /\ q.tx_file = TRUE /\ Told(p, a)
      /\ a.state \notin {"F_TCF", "F_POST_DOC_NON_ECM"}
  BY DEF Gets
<1>2. Attends(q) /\ EndInv(q) /\ q.on = "off"  BY <1>1, Attending DEF Meets, Attends
<1>3. q.rx_file = FALSE /\ q.state \notin ReceiveStates
  BY <1>1, <1>2 DEF EndInv, Sides
<1>4. p.state \notin SendStates
  <2>1. p.tx_file \in BOOLEAN /\ (p.state \in SendStates => p.tx_file = TRUE)  BY <1>1 DEF EndInv, Sides
  <2> QED  BY <1>1, <2>1 DEF Match
<1>5. m.type \in FrameTypes \ {"FCD", "RCP", "DCS", "MPS", "EOP", "PPS"}
  BY <1>1, <1>4 DEF Says, SendStates
<1>6. q.hears = "v21"  BY <1>1, <1>5 DEF Meets, Attends
<1>7. ~Takings(a) /\ ~Vouching(a)  BY <1>1 DEF Told, Takings, Vouching
<1> QED  BY <1>2, <1>3, <1>4, <1>5, <1>6, <1>7 DEF FrameTypes

\* A sender that stays on its page and block keeps what the receiver has.
LEMMA GetterRests ==
  ASSUME NEW q, NEW p, NEW a, NEW m, Gets(q, p, a, m), NEW t, Rests(q, t, a)
  PROVE  Kept(t, a, stored)
BY SenderRests DEF Rests, Gets

\* It does when the frame is unexpected,
LEMMA GetterGivesUp ==
  ASSUME NEW q, NEW p, NEW a, NEW m, Gets(q, p, a, m), NEW r, HeardAs(q, r, TRUE)
  PROVE  Kept(Unexpected(r), a, stored)
<1> DEFINE b == Unexpected(r)
<1>1. Attends(q) /\ q.hears = "v21"  BY GetterFacts
<1>2. GivesUp(q, b) /\ SameDoc(q, b)  BY <1>1, UnexpectedHeard
<1> HIDE DEF b
<1>3. Rests(q, b, a)  BY <1>2, DocOfBook, OverRests DEF GivesUp, Over
<1>4. Kept(b, a, stored)  BY <1>3, GetterRests
<1> QED  BY <1>4 DEF b

\* when it is DCN,
LEMMA DcnGot ==
  ASSUME NEW q, NEW p, NEW a, NEW m, Gets(q, p, a, m), NEW r, HeardAs(q, r, TRUE)
  PROVE  Kept(ProcessDcn(r), a, stored)
<1> DEFINE b == ProcessDcn(r)
<1>1. Attends(q)  BY GetterFacts
<1>2. SameDoc(q, b) /\ b.state = "B"  BY <1>1, DcnHeard
<1> HIDE DEF b
<1>3. Rests(q, b, a)  BY <1>2, DocOfBook, OverRests DEF Over
<1>4. Kept(b, a, stored)  BY <1>3, GetterRests
<1> QED  BY <1>4 DEF b

\* and when it says who has answered.
LEMMA IdentityGot ==
  ASSUME NEW q, NEW p, NEW a, NEW m, Gets(q, p, a, m), NEW r, HeardAs(q, r, FALSE), m.type \in {"CSI", "TSI"}
  PROVE  Kept(r, a, stored)
<1>1. Attends(q) /\ Meets(q, m) /\ q.hears = "v21"  BY GetterFacts DEF Gets
<1>2. ~Final(m)  BY DEF Final
<1>3. q.state = "C" => q.timer_is_t4 = TRUE  BY <1>1, <1>2 DEF Meets
<1>4. SameDoc(q, r) /\ r.state = q.state /\ r.hears = q.hears /\ r.buffer = q.buffer  BY <1>1, <1>3, IdentityHeard
<1>5. DocKept(q, r) /\ r.next_rx_step = q.next_rx_step  BY <1>4, DocOfBook DEF SameDoc
<1>6. Rests(q, r, a)  BY <1>4, <1>5, SameRests
<1> QED  BY <1>6, GetterRests

\* The sender goes where it has done with nothing new.
LEMMA GetterStays ==
  ASSUME NEW q, NEW p, NEW a, NEW m, Gets(q, p, a, m), NEW t, Settles(q, t),
         t.page = q.page, t.ecm_block = q.ecm_block,
         q.ecm_allowed = TRUE /\ t.state \in Setup => q.state \in Setup
  PROVE  Kept(t, a, stored)
<1>1. q.tx_file = TRUE /\ ~Takings(a)  BY GetterFacts DEF Gets
<1>2. Rests(q, t, a)  BY <1>1 DEF Rests, SendRests, Settles
<1> QED  BY <1>2, GetterRests

\* It begins with the first page.
LEMMA GetterBegins ==
  ASSUME NEW q, NEW p, NEW a, NEW m, Gets(q, p, a, m), NEW t, Settles(q, t),
         q.state \in {"T", "R"}, t.page = 1, t.ecm_block \in {0, 1}
  PROVE  Kept(t, a, stored)
<1>1. EndInv(q) /\ EndInv(t) /\ q.tx_file = TRUE /\ ~Takings(a) /\ ~Vouching(a) /\ t.ecm_allowed = q.ecm_allowed
      /\ a.state # "F_TCF" /\ Kept(q, a, stored)
  BY GetterFacts DEF Gets, Settles
<1>2. q.page = 1 /\ q.ecm_allowed \in BOOLEAN  BY <1>1 DEF EndInv, Carries, Sides
<1>3. CASE q.ecm_allowed = FALSE
  <2>1. t.ecm_block = 0 /\ q.ecm_block = 0  BY <1>1, <1>3 DEF EndInv, Counts
  <2> QED  BY <1>2, <1>3, <2>1, GetterStays
<1>4. CASE q.ecm_allowed = TRUE
  <2>1. Book(stored, a) = <<>> /\ a.got = {}  BY <1>1, <1>4 DEF Kept, Blank, Setup
  <2>2. Done(t) = 0
    <3>1. Blocks \in Nat /\ BlockFrames \in Nat  BY T30Assumption
    <3>2. (t.page - 1) * Blocks = 0  BY <3>1
    <3>3. (IF t.ecm_block = 0 THEN 0 ELSE t.ecm_block - 1) = 0  OBVIOUS
    <3>4. (0 + 0) * BlockFrames = 0  BY <3>1
    <3> QED  BY <1>1, <1>4, <3>2, <3>3, <3>4 DEF Done
  <2>3. Filed(t, Book(stored, a))  BY <2>1, <2>2 DEF Filed, InOrder
  <2>4. Gathers(t, a) /\ Blank(t, a, stored) /\ Vouches(t, a, stored) /\ Draws(t, a)
    BY <1>1, <2>1 DEF Gathers, Blank, Vouches, Vouching, Draws
  <2> QED  BY <1>1, <2>3, <2>4 DEF Kept
<1> QED  BY <1>2, <1>3, <1>4

\* DIS (process_rx_dis) begins the document, when nothing of it is out yet, or the training again.
LEMMA DisGot ==
  ASSUME NEW q, NEW p, NEW a, NEW m, Gets(q, p, a, m), NEW r, HeardAs(q, r, TRUE), m.type = "DIS"
  PROVE  Kept(ProcessDis(r, m), a, stored)
<1> DEFINE b == ProcessDis(r, m)
<1>1. Attends(q) /\ Meets(q, m) /\ q.tx_file = TRUE /\ q.rx_file = FALSE /\ q.hears = "v21" /\ q.state \notin ReceiveStates
  BY GetterFacts DEF Gets
<1>2. m.ecm = q.ecm_allowed /\ m.can_send \in BOOLEAN /\ (m.can_send = TRUE => q.state # "F_DOC")
  BY <1>1 DEF Meets
<1>3. CASE q.state \in {"D_POST_TCF", "T", "R", "F_DOC"}
  <2>1. Invited(q, m, b)  BY <1>1, <1>2, <1>3, DisHeard
  <2> HIDE DEF b
  <2>2. Settles(q, b) /\ q.state \in Setup
        /\ \/ b.page = q.page /\ b.ecm_block = q.ecm_block
           \/ q.state \in {"T", "R"} /\ b.page = 1 /\ b.ecm_block \in {0, 1}
    BY <1>1, <1>3, <2>1 DEF Invited, Setup, ReceiveStates
  <2>3. Kept(b, a, stored)  BY <2>2, GetterStays, GetterBegins
  <2> QED  BY <2>3 DEF b
<1>4. CASE q.state \notin {"D_POST_TCF", "T", "R", "F_DOC"}
  <2>1. r.state = q.state  BY DEF HeardAs, SameTalk
  <2>2. b = Unexpected(r)  BY <1>4, <2>1 DEF ProcessDis
  <2> HIDE DEF b
  <2> QED  BY <2>2, GetterGivesUp DEF b
<1> QED  BY <1>3, <1>4

\* CFR and FTT (process_rx_cfr, process_rx_ftt) leave the sender on its page and block.
LEMMA TrainingGot ==
  ASSUME NEW q, NEW p, NEW a, NEW m, Gets(q, p, a, m), NEW r, HeardAs(q, r, TRUE)
  PROVE  Kept(ProcessCfr(r), a, stored) /\ Kept(ProcessFtt(r), a, stored)
<1> DEFINE b == ProcessCfr(r)
           c == ProcessFtt(r)
<1>1. Attends(q) /\ q.hears = "v21"  BY GetterFacts
<1>2. r.state = q.state  BY DEF HeardAs, SameTalk
<1>3. CASE q.state = "D_POST_TCF"
  <2>1. Orders(q, b) /\ b.page = q.page /\ b.ecm_block = q.ecm_block  BY <1>1, <1>3, CfrHeard
  <2>2. Trains(q, c) /\ SameDoc(q, c)  BY <1>1, <1>3, FttHeard
  <2> HIDE DEF b, c
  <2>3. Kept(b, a, stored)  BY <1>3, <2>1, GetterStays DEF Orders, Setup
  <2>4. Kept(c, a, stored)  BY <1>3, <2>2, GetterStays DEF Trains, SameDoc, Setup
  <2> QED  BY <2>3, <2>4 DEF b, c
<1>4. CASE q.state # "D_POST_TCF"
  <2>1. b = Unexpected(r) /\ c = Unexpected(r)  BY <1>2, <1>4 DEF ProcessCfr, ProcessFtt
  <2>2. Kept(Unexpected(r), a, stored)  BY GetterGivesUp
  <2> QED  BY <2>1, <2>2
<1> QED  BY <1>3, <1>4

\* So does PPR (process_rx_ppr): it sends frames of the same block again.
LEMMA PprGot ==
  ASSUME NEW q, NEW p, NEW a, NEW m, Gets(q, p, a, m), NEW r, HeardAs(q, r, TRUE)
  PROVE  Kept(ProcessPpr(r, m), a, stored)
<1> DEFINE b == ProcessPpr(r, m)
<1>1. Attends(q) /\ q.hears = "v21"  BY GetterFacts
<1>2. r.state = q.state  BY DEF HeardAs, SameTalk
<1>3. CASE AskingBlock(q)
  <2>1. Settles(q, b) /\ SameBook(q, b) /\ b.state \in {"IV", "IV_CTC"}  BY <1>1, <1>3, PprHeard
  <2> HIDE DEF b
  <2>2. Kept(b, a, stored)  BY <2>1, GetterStays DEF SameBook, Setup
  <2> QED  BY <2>2 DEF b
<1>4. CASE ~AskingBlock(q)
  <2>1. b = Unexpected(r)  BY <1>2, <1>4 DEF ProcessPpr, AskingBlock
  <2> QED  BY <2>1, GetterGivesUp
<1> QED  BY <1>3, <1>4

\* So do RTP and RTN (process_rx_rtp, process_rx_rtn).
LEMMA RetrainGot ==
  ASSUME NEW q, NEW p, NEW a, NEW m, Gets(q, p, a, m), NEW r, HeardAs(q, r, TRUE)
  PROVE  Kept(ProcessRetrain(r, m), a, stored)
<1> DEFINE b == ProcessRetrain(r, m)
<1>1. Attends(q) /\ q.hears = "v21" /\ EndInv(q)  BY GetterFacts
<1>2. r.state = q.state  BY DEF HeardAs, SameTalk
<1>3. r.next_tx_step = q.next_tx_step  BY DEF HeardAs, SameDoc
<1>4. CASE q.state = "II_Q"
  <2>1. Settles(q, b) /\ b.page = q.page /\ b.ecm_block = q.ecm_block  BY <1>1, <1>4, RetrainHeard, ZenonT(60)
  <2>2. q.ecm_allowed = FALSE  BY <1>1, <1>4 DEF EndInv, Mode, InII_Q, Sides, SendStates
  <2> HIDE DEF b
  <2>3. Kept(b, a, stored)  BY <2>1, <2>2, GetterStays
  <2> QED  BY <2>3 DEF b
<1>5. CASE q.state # "II_Q"
  <2>1. b = Unexpected(r)  BY <1>2, <1>5 DEF ProcessRetrain
  <2> QED  BY <2>1, GetterGivesUp
<1> QED  BY <1>4, <1>5

\* What was sent is in the book when it is acknowledged.
LEMMA McfGot ==
  ASSUME NEW q, NEW p, NEW a, NEW m, Gets(q, p, a, m), NEW r, HeardAs(q, r, TRUE), m.type = "MCF", m = p.buffer
  PROVE  Kept(ProcessMcf(r), a, stored)
<1> DEFINE b == ProcessMcf(r)
           book == Book(stored, a)
<1>1. Attends(q) /\ q.hears = "v21" /\ EndInv(q) /\ Kept(q, p, stored) /\ Kept(q, a, stored) /\ Says(p, m)
      /\ Told(p, a) /\ ~Takings(a) /\ ~Vouching(a) /\ a.state # "F_TCF"
  BY GetterFacts DEF Gets
<1>2. r.state = q.state  BY DEF HeardAs, SameTalk
<1>3. CASE q.state = "II_Q" \/ AskingBlock(q)
  <2>1. Acknowledged(q, b)  BY <1>1, <1>3, McfHeard
  <2> HIDE DEF b
  <2>2. q.state \in SendStates  BY <1>3 DEF AskingBlock, SendStates
  <2>3. OnPage(q)  BY <1>1, <2>2, SenderOnPage
  <2>4. q.ecm_allowed = TRUE => q.ecm_block \in 1 .. Blocks
    <3>1. q.ecm = q.ecm_allowed  BY <1>1, <2>2 DEF EndInv, Sides
    <3> QED  BY <1>1, <2>2, <3>1 DEF EndInv, Counts
  <2>5. Advances(q, b) /\ b.ecm_allowed = q.ecm_allowed /\ b.state \in {"I", "IV", "C"}
    BY <2>1 DEF Acknowledged, Advances, Settles
  <2>6. Done(b) = Done(q) + Unit(q)  BY <2>3, <2>4, <2>5, NextDone
  <2>7. book = Book(stored, p) /\ a.got = p.got  BY <1>1 DEF Told, SameBook, Book, Draft
  <2>8. UpToDate(q, book) /\ a.got = {} /\ \A n \in Done(q) + 1 .. Done(q) + Unit(q) : Has(book, n)
    BY <1>1, <2>7 DEF Kept, Vouches, Says
  <2>9. Filed(q, book)  BY <1>1 DEF Kept
  <2> HIDE DEF book
  <2>10. Filed(b, book)  BY <2>3, <2>6, <2>8, <2>9, NextFiled
  <2>11. Gathers(b, a) /\ Blank(b, a, stored) /\ Vouches(b, a, stored) /\ Draws(b, a)
    BY <1>1, <2>5, <2>8 DEF Gathers, Blank, Setup, Vouches, Vouching, Draws
  <2>12. Kept(b, a, stored)  BY <1>1, <2>10, <2>11 DEF Kept, book
  <2> QED  BY <2>12 DEF b
<1>4. CASE ~(q.state = "II_Q" \/ AskingBlock(q))
  <2>1. b = Unexpected(r)  BY <1>2, <1>4 DEF ProcessMcf, AskingBlock
  <2> QED  BY <2>1, GetterGivesUp
<1> QED  BY <1>3, <1>4

\* What a sender makes of a frame; the file stays as it is.
LEMMA SenderTakes ==
  ASSUME NEW q, NEW p, NEW a, NEW m, NEW quality, Gets(q, p, a, m), m = p.buffer
  PROVE  Kept(Accept(q, m, quality), a, stored) /\ File(q, m, quality) = stored
<1> DEFINE r == Heard(q, m, quality = "CUT")
           b == Accept(q, m, quality)
<1>1. EndInv(q) /\ q.on = "off" /\ q.state \notin ReceiveStates
      /\ m.type \in {"CSI", "TSI", "DIS", "CFR", "FTT", "PPR", "MCF", "RTP", "RTN", "CTC", "DCN"}
  BY GetterFacts
<1>2. HeardAs(q, r, Final(m))  BY <1>1, HeardFacts
<1>3. Final(m) => HeardAs(q, r, TRUE)  BY <1>2
<1>4. ~Final(m) => HeardAs(q, r, FALSE)
  <2>1. Final(m) \in BOOLEAN  BY DEF Final
  <2> QED  BY <1>2, <2>1
<1>5. b = CASE m.type \in {"CSI", "TSI"} -> r
        [] m.type = "FCD" -> ProcessFcd(r, m)
        [] m.type = "RCP" -> ProcessRcp(r)
        [] m.type = "DIS" -> ProcessDis(r, m)
        [] m.type = "DCS" -> ProcessDcs(r, m)
        [] m.type = "CFR" -> ProcessCfr(r)
        [] m.type = "FTT" -> ProcessFtt(r)
        [] m.type \in {"MPS", "EOP"} -> ProcessPageEnd(r, m.type, quality)
        [] m.type = "PPS" -> ProcessPps(r, m)
        [] m.type = "PPR" -> ProcessPpr(r, m)
        [] m.type = "MCF" -> ProcessMcf(r)
        [] m.type \in {"RTP", "RTN"} -> ProcessRetrain(r, m)
        [] m.type = "CTC" -> ProcessCtc(r)
        [] m.type = "CTR" -> ProcessCtr(r)
        [] m.type = "DCN" -> ProcessDcn(r)
  BY DEF Accept
<1>6. File(q, m, quality) = stored
  <2>1. ~Judges(q, m) /\ ~PageComplete(q, m) /\ m.type # "DCS"  BY <1>1 DEF Judges, PageComplete
  <2> QED  BY <2>1 DEF File
<1>7. r.state = q.state  BY <1>2 DEF HeardAs, SameTalk
<1> HIDE DEF r, b
<1>8. ASSUME m.type \in {"CSI", "TSI"} PROVE Kept(b, a, stored)
  <2>1. HeardAs(q, r, FALSE)  BY <1>4, <1>8 DEF Final
  <2>2. b = r  BY <1>5, <1>8
  <2> QED  BY <1>8, <2>1, <2>2, IdentityGot
<1>9. ASSUME m.type \notin {"CSI", "TSI"} PROVE Kept(b, a, stored)
  <2>1. HeardAs(q, r, TRUE)  BY <1>1, <1>3, <1>9 DEF Final
  <2>2. ASSUME m.type = "DIS" PROVE Kept(b, a, stored)
    <3>1. b = ProcessDis(r, m)  BY <1>5, <2>2
    <3> QED  BY <2>1, <2>2, <3>1, DisGot
  <2>3. ASSUME m.type \in {"CFR", "FTT"} PROVE Kept(b, a, stored)
    <3>1. b = IF m.type = "CFR" THEN ProcessCfr(r) ELSE ProcessFtt(r)  BY <1>5, <2>3
    <3> QED  BY <2>1, <3>1, TrainingGot
  <2>4. ASSUME m.type = "PPR" PROVE Kept(b, a, stored)
    <3>1. b = ProcessPpr(r, m)  BY <1>5, <2>4
    <3> QED  BY <2>1, <3>1, PprGot
  <2>5. ASSUME m.type = "MCF" PROVE Kept(b, a, stored)
    <3>1. b = ProcessMcf(r)  BY <1>5, <2>5
    <3> QED  BY <2>1, <2>5, <3>1, McfGot
  <2>6. ASSUME m.type \in {"RTP", "RTN"} PROVE Kept(b, a, stored)
    <3>1. b = ProcessRetrain(r, m)  BY <1>5, <2>6
    <3> QED  BY <2>1, <3>1, RetrainGot
  <2>7. ASSUME m.type = "CTC" PROVE Kept(b, a, stored)
    <3>1. b = ProcessCtc(r)  BY <1>5, <2>7
    <3>2. b = Unexpected(r)  BY <1>1, <1>7, <3>1 DEF ProcessCtc, ReceiveStates
    <3> QED  BY <2>1, <3>2, GetterGivesUp
  <2>8. ASSUME m.type = "DCN" PROVE Kept(b, a, stored)
    <3>1. b = ProcessDcn(r)  BY <1>5, <2>8
    <3> QED  BY <2>1, <3>1, DcnGot
  <2> QED  BY <1>1, <1>9, <2>2, <2>3, <2>4, <2>5, <2>6, <2>7, <2>8
<1>10. Kept(b, a, stored)  BY <1>8, <1>9
<1> QED  BY <1>6, <1>10 DEF b

\* A frame arrives: one end has sent it, and the other takes it.
LEMMA FrameTells ==
  ASSUME CallInv, BookInv, NEW p \in Peer, Frame(p)
  PROVE  BookInv' /\ Grows(stored')
<1> DEFINE s == end[p]
           q == Other(p)
           e == end[q]
           m == s.buffer
           a == SendComplete(Wants(s))
<1>1. Call(s, e)  BY CallOf
<1>2. PICK quality :
        /\ Comes(m, quality) /\ stored' = File(e, m, quality)
        /\ end' = [end EXCEPT ![p] = a, ![q] = Accept(e, m, quality)]
  BY DEF Frame, Wants, Qualities, Comes
<1>3. s.tx_hdlc = TRUE /\ s.buffer # NoFrame /\ s.on # "off" /\ e.hears = s.tx /\ (s.tx = "fast" => e.rx_hdlc = TRUE)
  <2>1. s.tx_hdlc \in BOOLEAN /\ e.rx_hdlc \in BOOLEAN  BY <1>1, HdlcKnown DEF Call
  <2> QED  BY <2>1 DEF Frame, Follows
<1> DEFINE b == Accept(e, m, quality)
           f == File(e, m, quality)
<1>4. Call(a, b) /\ a.tx_file = s.tx_file  BY <1>1, <1>2, <1>3, FrameCall
<1>5. Meets(e, m) /\ Says(s, m)  BY <1>1, <1>3, FrameMeets
<1>6. Told(s, a)  BY <1>1, <1>3, FrameSent DEF Sent, Call
<1>7. Tales(s, e, stored)  BY TalesOf
<1>8. EndInv(s) /\ EndInv(e) /\ Match(s, e) /\ Match(a, b)  BY <1>1, <1>4 DEF Call
<1>9. s.tx_file \in BOOLEAN  BY <1>8 DEF EndInv, Sides
<1>10. s.state \in CommandStates \cup {"R", "D", "IV"}  BY <1>3, <1>8, HasFrame
<1>11. a.state \notin {"F_TCF", "F_POST_DOC_NON_ECM"}
  BY <1>6, <1>10 DEF Told, Onward, CommandStates, AnswerStates
<1>12. Rests(s, a, b) /\ Rests(s, a, e)  BY <1>6, <1>8, ToldRests
<1>13. end' = [end EXCEPT ![p] = a, ![q] = b] /\ stored' = f  BY <1>2
<1>14. m = s.buffer  OBVIOUS
<1> HIDE DEF a, b, f, m
<1>15. CASE s.tx_file = TRUE
  <2>1. Reads(s, e, m)  BY <1>5, <1>7, <1>8, <1>15 DEF Reads, Tales, Tale
  <2>2. Kept(s, b, f) /\ Grows(f)  BY <1>2, <1>14, <2>1, ReaderTakes DEF b, f
  <2>3. Kept(a, b, f)  BY <1>12, <1>15, <2>2, SenderRests DEF Rests
  <2>4. b.tx_file # TRUE  BY <1>4, <1>8, <1>15 DEF Match
  <2>5. Tales(a, b, f)  BY <2>3, <2>4 DEF Tales, Tale
  <2> QED  BY <1>13, <2>2, <2>5, BothTold
<1>16. CASE s.tx_file = FALSE
  <2>1. e.tx_file = TRUE
    <3>1. e.tx_file \in BOOLEAN  BY <1>8 DEF EndInv, Sides
    <3> QED  BY <1>8, <1>16, <3>1 DEF Match
  <2>2. Kept(e, s, stored)  BY <1>7, <2>1 DEF Tales, Tale
  <2>3. TakeRests(s, a) /\ e.ecm_allowed = s.ecm_allowed  BY <1>8, <1>12, <1>16 DEF Rests, Match
  <2>4. Kept(e, a, stored)  BY <2>2, <2>3, TakerRests
  <2>5. Gets(e, s, a, m)  BY <1>5, <1>6, <1>8, <1>11, <2>1, <2>2, <2>4 DEF Gets
  <2>6. Kept(b, a, stored) /\ f = stored  BY <1>14, <2>5, SenderTakes DEF b, f
  <2>7. a.tx_file = FALSE  BY <1>4, <1>16
  <2>8. Tales(a, b, f)  BY <2>6, <2>7 DEF Tales, Tale
  <2> QED  BY <1>13, <2>6, <2>8, BothTold DEF Grows
<1> QED  BY <1>9, <1>15, <1>16

\* Every step.
LEMMA BookStep ==
  ASSUME CallInv, BookInv, [Next]_vars
  PROVE  BookInv' /\ Grows(stored')
<1>1. CASE UNCHANGED vars
  BY <1>1 DEF vars, BookInv, Grows
<1>2. CASE Next
  <2>1. PICK p \in Peer : Modem(p) \/ Timer(p) \/ Terminate(p)  BY <1>2 DEF Next
  <2>2. CASE Frame(p)  BY <2>2, FrameTells
  <2>3. CASE Modem(p) /\ ~Frame(p)
    <3>1. BookInv' /\ stored' = stored
      BY <2>3, StartTells, HearTells, LoseTells, UnderflowTells, EndSignalTells, EndToneTells, LostTells DEF Modem
    <3> QED  BY <3>1 DEF Grows
  <2>4. CASE Timer(p)
    <3>1. BookInv' /\ stored' = stored  BY <2>4, ExpireT4Tells, ExpireT2Tells, ExpireT0T1Tells DEF Timer
    <3> QED  BY <3>1 DEF Grows
  <2>5. CASE Terminate(p)  BY <2>5, TerminateTells DEF Grows
  <2> QED  BY <2>1, <2>2, <2>3, <2>4, <2>5 DEF Modem
<1> QED  BY <1>1, <1>2

\* A call begins with an empty book.
LEMMA BookBegins ==
  ASSUME Init
  PROVE  BookInv
<1>1. PICK sc \in Scenarios : end = [p \in Peer |-> EndInit(p, sc)]  BY DEF Init
<1>2. stored = <<>>  BY DEF Init
<1> SUFFICES ASSUME NEW p \in Peer
             PROVE  Kept(end[p], end[Other(p)], stored)
  BY DEF BookInv
<1> DEFINE s == end[p]
           r == end[Other(p)]
<1>3. Other(p) \in Peer  BY DEF Peer, Other
<1>4. s.page = 1 /\ s.ecm_block = 0 /\ s.state \in {"T", "ANSWERING"}  BY <1>1 DEF EndInit
<1>5. r.image = <<>> /\ r.got = {} /\ r.state \in {"T", "ANSWERING"}  BY <1>1, <1>3 DEF EndInit
<1> HIDE DEF s, r
<1>6. Done(s) = 0
  <2>1. Blocks \in Nat /\ BlockFrames \in Nat  BY T30Assumption
  <2>2. (s.page - 1) * Blocks = 0 /\ s.page - 1 = 0  BY <1>4, <2>1
  <2>3. (0 + 0) * BlockFrames = 0  BY <2>1
  <2> QED  BY <1>4, <2>2, <2>3 DEF Done
<1>7. Book(stored, r) = <<>>  BY <1>2, <1>5 DEF Book, Draft, With
<1>8. Filed(s, Book(stored, r))  BY <1>6, <1>7 DEF Filed, InOrder
<1>9. Typed(r, stored)  BY <1>2, <1>5 DEF Typed, Page
<1>10. Gathers(s, r) /\ Blank(s, r, stored) /\ Vouches(s, r, stored)  BY <1>5, <1>7 DEF Gathers, Blank, Vouches
<1>11. Draws(s, r) /\ Unopened(r, stored)  BY <1>2, <1>4, <1>5 DEF Draws, Unopened, Waiting
<1> QED  BY <1>8, <1>9, <1>10, <1>11 DEF Kept, s, r

\* The two invariants hold throughout.
LEMMA BooksKept == Spec => [](CallInv /\ BookInv)
<1>1. Init => CallInv /\ BookInv  BY CallBegins, BookBegins
<1>2. CallInv /\ BookInv /\ [Next]_vars => (CallInv /\ BookInv)'  BY CallStep, BookStep
<1> QED  BY <1>1, <1>2, PTL DEF Spec

\* One of the ends sends, and the receiver has of it what the invariant says.
LEMMA SenderIs ==
  ASSUME CallInv, BookInv
  PROVE  /\ Sender \in Peer /\ Other(Sender) \in Peer /\ EndInv(end[Sender]) /\ EndInv(end[Other(Sender)])
         /\ Match(end[Sender], end[Other(Sender)]) /\ Kept(end[Sender], end[Other(Sender)], stored)
<1>1. \A p \in Peer : EndInv(end[p])  BY DEF CallInv, Ends
<1>2. \A p \in Peer : end[p].tx_file \in BOOLEAN  BY <1>1 DEF EndInv, Sides
<1>3. Caller \in Peer /\ Answerer \in Peer  BY DEF Peer
<1>4. end[Caller].tx_file # end[Answerer].tx_file  BY DEF CallInv, Matched
<1>5. \E p \in Peer : end[p].tx_file  BY <1>2, <1>3, <1>4
<1>6. Sender \in Peer /\ end[Sender].tx_file  BY <1>5 DEF Sender
<1>7. end[Sender].tx_file = TRUE  BY <1>2, <1>6
<1> HIDE DEF Sender
<1>8. Call(end[Sender], end[Other(Sender)]) /\ Other(Sender) \in Peer  BY <1>6, CallOf
<1> QED  BY <1>1, <1>6, <1>7, <1>8 DEF BookInv, Call

\* The file is in order when the book is.
LEMMA BookInOrder ==
  ASSUME CallInv, BookInv
  PROVE  NothingSkipped
<1> DEFINE s == end[Sender]
           r == end[Other(Sender)]
<1>1. Kept(s, r, stored)  BY SenderIs
<1> HIDE DEF s, r
<1>2. stored \in Seq(Page) /\ r.image \in Page /\ InOrder(Book(stored, r))  BY <1>1 DEF Kept, Typed, Filed
<1>3. Draft(r) \in Page
  <2>1. <<>> \in Page  BY DEF Page
  <2> QED  BY <1>2, <2>1 DEF Draft
<1>4. CASE Draft(r) = <<>>  BY <1>2, <1>4 DEF Book, With, NothingSkipped
<1>5. CASE Draft(r) # <<>>
  <2>1. InOrder(Append(stored, Draft(r)))  BY <1>2, <1>5 DEF Book, With
  <2> QED  BY <1>2, <1>3, <2>1, FileAlone DEF NothingSkipped
<1> QED  BY <1>4, <1>5

\* Nothing that the sender is past is missing when the book has it.
LEMMA BookWhole ==
  ASSUME CallInv, BookInv
  PROVE  NothingLost
<1> DEFINE s == end[Sender]
           r == end[Other(Sender)]
           extra == IF r.ecm THEN {r.image} ELSE {}
           kept == UNION {Range(page) : page \in Range(stored) \cup extra}
<1>1. Kept(s, r, stored) /\ EndInv(s) /\ EndInv(r) /\ Match(s, r)  BY SenderIs
<1>2. NothingLost <=> Passed(s) \subseteq {Place(f) : f \in kept}  BY DEF NothingLost
<1> HIDE DEF s, r
<1>3. /\ s.ecm \in BOOLEAN /\ s.ecm_allowed \in BOOLEAN /\ (s.ecm = TRUE => s.ecm_allowed = TRUE)
      /\ s.ecm # s.ecm_allowed => s.page = 1 /\ s.ecm_block = 0
  BY <1>1 DEF EndInv, Sides
<1>4. /\ r.ecm \in BOOLEAN /\ r.ecm_allowed \in BOOLEAN /\ (r.ecm # r.ecm_allowed => r.image = <<>>)
      /\ r.ecm_allowed = s.ecm_allowed
  BY <1>1 DEF EndInv, Sides, Match
<1>5. stored \in Seq(Page) /\ r.image \in Page  BY <1>1 DEF Kept, Typed
<1>6. ASSUME NEW n \in Passed(s)
      PROVE  Has(Book(stored, r), n)
  <2>1. Passed(s) \subseteq 1 .. Done(s)
    <3>1. CASE s.ecm = s.ecm_allowed  BY <1>3, <3>1 DEF Passed, Done
    <3>2. CASE s.ecm # s.ecm_allowed
      <4>1. s.ecm = FALSE /\ s.page = 1  BY <1>3, <3>2
      <4> QED  BY <4>1 DEF Passed
    <3> QED  BY <3>1, <3>2
  <2> QED  BY <1>1, <1>6, <2>1 DEF Kept, Filed
<1>7. ASSUME NEW n, Has(Book(stored, r), n)
      PROVE  n \in {Place(f) : f \in kept}
  <2>1. SUFFICES ASSUME NEW page \in Range(stored) \cup extra, NEW j \in DOMAIN page, Place(page[j]) = n
                 PROVE  n \in {Place(f) : f \in kept}
    <3>1. ASSUME NEW i \in DOMAIN stored, NEW j \in DOMAIN stored[i], Place(stored[i][j]) = n
          PROVE  stored[i] \in Range(stored) \cup extra
      BY DEF Range
    <3>2. CASE Book(stored, r) = stored  BY <1>7, <2>1, <3>1, <3>2 DEF Has
    <3>3. CASE Book(stored, r) # stored
      <4>1. r.ecm_allowed = TRUE /\ r.image # <<>> /\ Book(stored, r) = Append(stored, r.image)
        BY <1>4, <3>3 DEF Book, Draft, With
      <4>2. r.image \in extra  BY <1>4, <4>1
      <4>3. Has(stored, n) \/ \E j \in 1 .. Len(r.image) : Place(r.image[j]) = n  BY <1>5, <1>7, <4>1, HasOf
      <4>4. DOMAIN r.image = 1 .. Len(r.image)  BY <1>5 DEF Page
      <4> QED  BY <2>1, <3>1, <4>2, <4>3, <4>4 DEF Has
    <3> QED  BY <3>2, <3>3
  <2>2. page[j] \in Range(page)  BY DEF Range
  <2>3. page[j] \in kept  BY <2>2
  <2> QED  BY <2>1, <2>3
<1> QED  BY <1>2, <1>6, <1>7

\* The file is a prefix of what a step makes of it.
LEMMA BookGrows ==
  ASSUME CallInv, BookInv, [Next]_vars
  PROVE  IsPrefix(stored, stored')
<1>1. stored \in Seq(Page)
  <2>1. Kept(end[Sender], end[Other(Sender)], stored)  BY SenderIs
  <2> QED  BY <2>1 DEF Kept, Typed
<1>2. Grows(stored')  BY BookStep
<1>3. CASE stored' = stored  BY <1>1, <1>3 DEF IsPrefix
<1>4. CASE stored' # stored
  <2>1. PICK page \in Page : stored' = Append(stored, page)  BY <1>2, <1>4 DEF Grows
  <2> DEFINE t == Append(stored, page)
  <2>2. /\ t \in Seq(Page) /\ Len(t) = Len(stored) + 1 /\ Len(stored) \in Nat
        /\ \A i \in 1 .. Len(stored) : t[i] = stored[i]
    BY <1>1, PagePut
  <2> HIDE DEF t
  <2>3. SubSeq(stored, 1, Len(stored)) = SubSeq(t, 1, Len(stored))  BY <1>1, <2>2
  <2>4. IsPrefix(stored, t)  BY <2>2, <2>3 DEF IsPrefix
  <2> QED  BY <2>1, <2>4 DEF t
<1> QED  BY <1>3, <1>4

\* The pages, and the blocks and frames within them, are in the file in the
\* order of the document, from its beginning and without a gap (NothingSkipped).
THEOREM NothingIsSkipped == Spec => []NothingSkipped
<1>1. CallInv /\ BookInv => NothingSkipped  BY BookInOrder
<1> QED  BY <1>1, BooksKept, PTL

\* Whatever the sender has gone past, the receiver has in the file or in the
\* page that it is putting together (NothingLost).
THEOREM NothingIsLost == Spec => []NothingLost
<1>1. CallInv /\ BookInv => NothingLost  BY BookWhole
<1> QED  BY <1>1, BooksKept, PTL

\* What is in the file stays there: every step leaves it or adds a page at its
\* end (FileGrows).
THEOREM FileOnlyGrows == Spec => FileGrows
<1>1. CallInv /\ BookInv /\ [Next]_vars => [IsPrefix(stored, stored')]_vars  BY BookGrows
<1> QED  BY <1>1, BooksKept, PTL DEF Spec, FileGrows
=============================================================================
