---------------------------- MODULE T30EndProofs ----------------------------
EXTENDS T30, WellFoundedInduction, NaturalsInduction, TLAPS

(***************************************************************************)
(* One end of a T.30 call (t30.c): the invariant EndInv, and what every    *)
(* handler makes of an end that has it.                                    *)
(*                                                                         *)
(* EndInv says which modem is on in which phase (Radio), what is heard     *)
(* (Signals), and for every state what phase, step, buffered frame and     *)
(* timer the end may have in it (Mode): that a state that waits has its    *)
(* timer running, and that a state that sends has something to send.  The  *)
(* rest (Sides, Counts, Carries) says which side an end is on, bounds its  *)
(* counters, and relates a buffered frame to the page and block it is of.  *)
(* CallInv adds what the two ends of a call know of each other; it is      *)
(* proved invariant in T30CallProofs.                                      *)
(*                                                                         *)
(* The lemmas follow the code: set_phase and queue_phase, the last frame   *)
(* of a signal (hdlc_send_complete, one lemma for each state), the frames  *)
(* that arrive (one for each process_rx_...), and the frames that a        *)
(* sender or a receiver may be sending when it is heard.                   *)
(***************************************************************************)

-----------------------------------------------------------------------------
(* The inductive invariant: an end by itself                                *)

\* The fields of an end.
Fields ==
  {"state", "phase", "next_phase", "step", "current_status", "rx_signal_present", "rx_trained",
   "far_end_detected", "timer_t0_t1", "timer_t2_t4", "timer_is_t4", "waited", "retries", "ppr_count",
   "next_tx_step", "next_rx_step", "compatible", "ecm_allowed", "ecm", "tx_file", "rx_file", "page",
   "ecm_block", "ecm_len", "ecm_current_frame", "ecm_at_page_end", "in_message", "image", "got",
   "tx", "transmit", "tx_hdlc", "on", "buffer", "tx_end", "rx", "rx_hdlc", "early", "hears"}

Calling == {"A_CED", "A_CNG"}
Listening == {"B_RX", "D_RX"}
Talking == {"B_TX", "D_TX"}
Receiving == {"C_NON_ECM_RX", "C_ECM_RX"}
Hearing == Listening \cup Receiving

\* What the modems of an end do in each phase.
Modems(s, tx, tx_hdlc, rx, rx_hdlc) ==
  s.tx = tx /\ s.tx_hdlc = tx_hdlc /\ s.rx = rx /\ s.rx_hdlc = rx_hdlc
Tuned(s) ==
  /\ s.phase \in Phases
  /\ s.phase = "A_CED" => Modems(s, "ced", FALSE, "v21", TRUE)
  /\ s.phase = "A_CNG" => Modems(s, "cng", FALSE, "v21", TRUE)
  /\ s.phase \in Listening => Modems(s, "none", FALSE, "v21", TRUE)
  /\ s.phase \in Talking => Modems(s, "v21", TRUE, "none", FALSE)
  /\ s.phase = "C_NON_ECM_RX" => Modems(s, "none", FALSE, "fast", FALSE)
  /\ s.phase = "C_ECM_RX" => Modems(s, "none", FALSE, "fast", TRUE)
  /\ s.phase = "C_NON_ECM_TX" => Modems(s, "fast", FALSE, "none", FALSE)
  /\ s.phase = "C_ECM_TX" => Modems(s, "fast", TRUE, "none", FALSE)
  /\ s.phase = "E" => Modems(s, "pause", FALSE, "none", FALSE)
  /\ s.phase = "CALL_FINISHED" => Modems(s, "done", FALSE, "done", FALSE)
  /\ s.tx \in {"none", "done"} => s.transmit = FALSE
Radio(s) == Tuned(s) /\ (s.tx \notin {"none", "done"} => s.transmit = TRUE)

\* What it is heard to send, and what it hears.
Signals(s) ==
  /\ s.on \in {"off", "preamble", "missed", "frames"}
  /\ s.on # "off" => s.tx \in {"v21", "fast"}
  /\ s.on = "frames" => s.tx_hdlc = TRUE
  /\ s.hears \in {"no", "v21", "fast", "noise"}
  /\ s.hears = "v21" => s.rx = "v21" \/ (s.rx = "fast" /\ s.early = TRUE)
  /\ s.hears \in {"fast", "noise"} => s.rx = "fast"
  /\ s.early \in BOOLEAN
  /\ s.hears = "fast" => s.rx_trained = TRUE /\ s.rx_signal_present = TRUE
  /\ s.hears # "fast" => s.rx_trained = FALSE
  /\ s.hears = "v21" /\ s.rx = "v21" => s.rx_signal_present = TRUE
  /\ s.hears \in {"no", "noise"} => s.rx_signal_present = FALSE
  /\ s.rx_signal_present \in BOOLEAN

Empty(s) == s.buffer = NoFrame
Free(s) == s.next_phase = "IDLE"
NoTimer(s) == s.timer_t2_t4 = FALSE

\* The last frame has been sent, and the signal will end.
Ended(s) == Empty(s) /\ s.tx_end = TRUE /\ s.on = "frames"
Spent(s) == s.on = "off" \/ (Empty(s) /\ s.tx_end = TRUE)

\* Something to say, which waits for the end of what the end hears.
Held(s, next) == s.next_phase = next /\ s.rx_signal_present = TRUE /\ s.hears = "v21"

\* One frame is sent, and the signal ends.
Command(s, phase, types) ==
  /\ s.phase = phase /\ Free(s)
  /\ \/ s.step \in {0, 1} /\ s.buffer.type \in types /\ s.tx_end = FALSE
     \/ s.step = 1 /\ Ended(s)

Answer(s, types) ==
  \/ Held(s, "D_TX") /\ s.phase \in Hearing /\ s.step = 0 /\ s.buffer.type \in types
  \/ Command(s, "D_TX", types)

\* A command has been sent, and T4 runs until the answer comes.
Asked(s, phase) ==
  /\ s.phase = phase /\ Free(s) /\ Empty(s) /\ s.step = 1
  /\ s.timer_t2_t4 = TRUE /\ s.timer_is_t4 = TRUE

\* No frame of the block is left.
RestSent(s) == \A i \in s.ecm_len : ~(i > s.ecm_current_frame)

InAnswering(s) ==
  s.phase = "A_CED" /\ Free(s) /\ Empty(s) /\ NoTimer(s) /\ s.step = 0 /\ s.hears = "no"
InT(s) ==
  /\ s.phase \in {"A_CNG", "B_RX", "B_TX"} /\ Free(s) /\ Empty(s) /\ s.step = 0
  /\ s.timer_t0_t1 = TRUE /\ s.timer_is_t4 = FALSE /\ s.tx_end = FALSE
  /\ s.phase = "A_CNG" => NoTimer(s) /\ s.far_end_detected = FALSE /\ s.hears = "no"
  /\ s.phase = "B_TX" => s.tx_file = TRUE /\ NoTimer(s)
InR(s) ==
  \/ /\ s.phase = "B_TX" /\ Free(s)
     /\ \/ s.step = 1 /\ s.buffer = Simple("CSI") /\ s.tx_end = FALSE
        \/ s.step = 2 /\ s.buffer = DisFrame(s) /\ s.tx_end = FALSE
        \/ s.step = 3 /\ Ended(s)
  \/ /\ s.phase = "B_RX" /\ Free(s) /\ Empty(s) /\ s.step = 3
     /\ s.timer_t2_t4 = TRUE /\ s.timer_is_t4 = TRUE
  \/ /\ s.phase = "B_RX" /\ Held(s, "B_TX") /\ s.step = 1 /\ s.buffer = Simple("CSI")
     /\ NoTimer(s) /\ s.timer_t0_t1 = FALSE
InD(s) ==
  \/ /\ s.phase = "B_TX" /\ Free(s) /\ NoTimer(s)
     /\ \/ s.step = 1 /\ s.buffer = Simple("CSI") /\ s.tx_end = FALSE
        \/ s.step = 2 /\ s.buffer = Simple("TSI") /\ s.tx_end = FALSE
        \/ s.step = 3 /\ s.buffer = DcsFrame(s) /\ s.tx_end = FALSE
        \/ s.step = 4 /\ Ended(s)
  \/ s.phase = "B_RX" /\ Free(s) /\ s.step = 2 /\ s.buffer = Simple("TSI") /\ s.timer_is_t4 = TRUE
  \/ /\ s.phase \in Listening /\ Held(s, "B_TX") /\ NoTimer(s)
     /\ (s.step = 2 /\ s.buffer = Simple("TSI")) \/ (s.step = 1 /\ s.buffer = Simple("CSI"))
InD_TCF(s) ==
  s.phase = "C_NON_ECM_TX" /\ Free(s) /\ Empty(s) /\ NoTimer(s) /\ s.tx_end = FALSE /\ s.step = 0
InD_POST_TCF(s) ==
  s.phase = "B_RX" /\ Free(s) /\ Empty(s) /\ s.timer_is_t4 = TRUE /\ s.step = 0

InI(s) ==
  /\ s.ecm = FALSE /\ Empty(s) /\ NoTimer(s) /\ s.step = 0
  /\ \/ s.phase \in Listening /\ Held(s, "C_NON_ECM_TX")
     \/ s.phase = "C_NON_ECM_TX" /\ Free(s) /\ s.tx_end = FALSE
InII_Q(s) ==
  /\ s.ecm = FALSE /\ s.next_tx_step = CheckNextTxStep(s)
  /\ Asked(s, "D_RX") \/ (Command(s, "D_TX", {s.next_tx_step}) /\ NoTimer(s))
InIV(s) ==
  /\ s.ecm = TRUE /\ NoTimer(s)
  /\ \/ s.phase \in Listening /\ Held(s, "C_ECM_TX") /\ s.step = 0 /\ s.buffer.type \in {"FCD", "RCP"}
     \/ Command(s, "C_ECM_TX", {"FCD", "RCP"}) /\ (Ended(s) \/ s.step = 0)
  /\ s.buffer.type = "FCD" \/ RestSent(s)
InIV_PPS(s) ==
  /\ s.ecm = TRUE /\ s.next_tx_step = CheckNextTxStep(s)
  /\ s.state = "IV_PPS_Q" => s.ecm_at_page_end = TRUE
  /\ s.state = "IV_PPS_NULL" => s.ecm_at_page_end = FALSE
  /\ Asked(s, "D_RX") \/ (Command(s, "D_TX", {"PPS"}) /\ NoTimer(s))
InIV_CTC(s) ==
  s.ecm = TRUE /\ s.phase = "D_RX" /\ Free(s) /\ s.buffer = Simple("CTC") /\ s.step = 0 /\ s.timer_is_t4 = TRUE

InF_TCF(s) ==
  /\ s.phase = "C_NON_ECM_RX" /\ Free(s) /\ Empty(s) /\ s.timer_is_t4 = FALSE /\ s.step = 0
  /\ s.hears = "fast" => NoTimer(s)
InF_CFR(s) == Command(s, "B_TX", {"CFR"}) /\ NoTimer(s)
InF_FTT(s) == Asked(s, "B_RX") \/ (Command(s, "B_TX", {"FTT"}) /\ NoTimer(s))
InF_DOC(s) ==
  /\ s.phase = IF s.ecm THEN "C_ECM_RX" ELSE "C_NON_ECM_RX"
  /\ Free(s) /\ Empty(s) /\ s.timer_is_t4 = FALSE /\ s.step = 0
InF_POST_DOC_NON_ECM(s) ==
  s.ecm = FALSE /\ s.phase = "D_RX" /\ Free(s) /\ Empty(s) /\ s.timer_is_t4 = FALSE /\ s.step = 0
InF_POST_DOC_ECM(s) ==
  /\ s.ecm = TRUE /\ Empty(s) /\ s.timer_is_t4 = FALSE /\ s.step = 0
  /\ \/ s.phase = "C_ECM_RX" /\ s.next_phase = "D_RX" /\ s.rx_signal_present = TRUE /\ s.hears = "fast"
     \/ s.phase = "D_RX" /\ Free(s)
InIII(s, answer, ecm) == s.ecm = ecm /\ NoTimer(s) /\ Answer(s, {answer})

InB(s) == s.phase = "E" /\ NoTimer(s) /\ s.timer_t0_t1 = FALSE
InC(s) == Answer(s, {"DCN", "TSI", "CTC"}) /\ (NoTimer(s) \/ s.timer_is_t4 = TRUE)
InFinished(s) == s.phase = "CALL_FINISHED"

\* What each state says of the phase, the buffer and the timers.
Mode(s) ==
  /\ s.state \in States
  /\ s.state = "ANSWERING" => InAnswering(s)
  /\ s.state = "T" => InT(s)
  /\ s.state = "R" => InR(s)
  /\ s.state = "D" => InD(s)
  /\ s.state = "D_TCF" => InD_TCF(s)
  /\ s.state = "D_POST_TCF" => InD_POST_TCF(s)
  /\ s.state = "I" => InI(s)
  /\ s.state = "II_Q" => InII_Q(s)
  /\ s.state = "IV" => InIV(s)
  /\ s.state \in {"IV_PPS_NULL", "IV_PPS_Q"} => InIV_PPS(s)
  /\ s.state = "IV_CTC" => InIV_CTC(s)
  /\ s.state = "F_TCF" => InF_TCF(s)
  /\ s.state = "F_CFR" => InF_CFR(s)
  /\ s.state = "F_FTT" => InF_FTT(s)
  /\ s.state = "F_DOC" => InF_DOC(s)
  /\ s.state = "F_POST_DOC_NON_ECM" => InF_POST_DOC_NON_ECM(s)
  /\ s.state = "F_POST_DOC_ECM" => InF_POST_DOC_ECM(s)
  /\ s.state = "F_POST_RCP_MCF" => InIII(s, "MCF", TRUE)
  /\ s.state = "F_POST_RCP_PPR" => InIII(s, "PPR", TRUE)
  /\ s.state = "III_Q_MCF" => InIII(s, "MCF", FALSE)
  /\ s.state = "III_Q_RTP" => InIII(s, "RTP", FALSE)
  /\ s.state = "III_Q_RTN" => InIII(s, "RTN", FALSE)
  /\ s.state = "B" => InB(s)
  /\ s.state = "C" => InC(s)
  /\ s.state = "CALL_FINISHED" => InFinished(s)

Over == {"B", "C", "CALL_FINISHED"}
SendStates == {"D", "D_TCF", "D_POST_TCF", "I", "II_Q", "IV", "IV_PPS_NULL", "IV_PPS_Q", "IV_CTC"}
AnswerStates == {"III_Q_MCF", "III_Q_RTP", "III_Q_RTN"}
ReceiveStates ==
  AnswerStates \cup {"F_TCF", "F_CFR", "F_FTT", "F_DOC", "F_POST_DOC_NON_ECM", "F_POST_DOC_ECM",
                     "F_POST_RCP_MCF", "F_POST_RCP_PPR"}

\* The side an end is on, and the error correction that it uses.
Sides(s) ==
  /\ s.tx_file \in BOOLEAN /\ s.rx_file \in BOOLEAN /\ s.rx_file # s.tx_file
  /\ s.rx_file = TRUE => s.page = 1 /\ s.ppr_count = 0
  /\ s.state \in SendStates => s.tx_file = TRUE
  /\ s.state \in ReceiveStates => s.rx_file = TRUE
  /\ s.timer_t0_t1 = TRUE => s.state \in {"ANSWERING", "T", "R", "C", "CALL_FINISHED"}
  /\ s.ecm \in BOOLEAN /\ s.ecm_allowed \in BOOLEAN /\ (s.ecm = TRUE => s.ecm_allowed = TRUE)
  /\ s.state \in SendStates \cup ReceiveStates => s.ecm = s.ecm_allowed
  /\ s.ecm # s.ecm_allowed => s.page = 1 /\ s.ecm_block = 0 /\ s.image = <<>> /\ s.got = {}

\* The other fields.
Counts(s) ==
  /\ s.retries \in 0 .. Tries + 1 /\ (s.state \notin Over => s.retries <= Tries)
  /\ s.page \in 1 .. Pages + 1 /\ (s.state \notin Over => s.page <= Pages)
  /\ s.ecm_block \in 0 .. Blocks
  /\ s.ecm_allowed = FALSE => s.ecm_block = 0
  /\ s.ecm_at_page_end \in BOOLEAN
  /\ s.ecm = TRUE /\ s.state \in SendStates =>
       /\ s.ecm_block \in 1 .. Blocks
       /\ s.ecm_block = Blocks => s.ecm_at_page_end = TRUE
       /\ s.ecm_block # Blocks => s.ecm_at_page_end = FALSE
  /\ s.ppr_count \in 0 .. 4 /\ (s.state \in SendStates \ {"IV_CTC"} => s.ppr_count <= 3)
  /\ s.ecm_len \subseteq 1 .. BlockFrames
  /\ s.ecm_current_frame \in 0 .. BlockFrames + ExtraRcp + 1
  /\ s.current_status \in {"OK", "NOCARRIER", "ERROR"}
  /\ s.next_phase \in Phases \cup {"IDLE"} /\ s.step \in 0 .. 4
  /\ s.next_tx_step \in Steps /\ s.next_rx_step \in Steps
  /\ s.far_end_detected \in BOOLEAN /\ s.timer_t0_t1 \in BOOLEAN /\ s.timer_t2_t4 \in BOOLEAN
  /\ s.timer_is_t4 \in BOOLEAN /\ s.waited \in BOOLEAN /\ s.in_message \in BOOLEAN
  /\ s.tx_end \in BOOLEAN /\ s.compatible \in BOOLEAN

FcdFrame(page, block, n) == [type |-> "FCD", page |-> page, block |-> block, no |-> n]

\* The frames that carry something.
Carries(s) ==
  /\ s.buffer.type = "DIS" => s.buffer.ecm = s.ecm_allowed
  /\ s.buffer.type = "DCS" => s.buffer.ecm = s.ecm_allowed
  /\ s.buffer.type = "FCD" => /\ s.ecm_allowed = TRUE /\ s.buffer.no \in 1 .. BlockFrames
                               /\ s.buffer = FcdFrame(s.page, s.ecm_block, s.buffer.no)
  /\ s.buffer.type = "PPS" => s.ecm_allowed = TRUE /\ s.buffer = PpsFrame(s) /\ s.next_tx_step \in {"MPS", "EOP"}
  /\ s.state \in {"ANSWERING", "T", "R"} => s.page = 1 /\ s.ppr_count <= 3

EndInv(s) ==
  Fields \subseteq DOMAIN s /\ Radio(s) /\ Signals(s) /\ Mode(s) /\ Sides(s) /\ Counts(s) /\ Carries(s)

-----------------------------------------------------------------------------
(* Both ends                                                                *)

\* An end that has an answer ready has heard the last frame of the signal.
Turns(q, p) ==
  /\ q.hears = "v21" /\ q.next_phase # "IDLE" /\ q.state # "C" => Spent(p)
  /\ q.hears = "v21" /\ q.state = "C" =>
       \/ Spent(p)
       \/ q.timer_is_t4 = TRUE /\ (q.retries <= Tries \/ (p.state = "T" /\ NoTimer(q)))

\* After RCP there are no more frames of the block.
BlockSent(q, p) ==
  q.state = "F_POST_DOC_ECM" /\ q.hears = "fast" /\ p.on # "off" =>
    p.state = "IV" /\ p.buffer.type # "FCD" /\ RestSent(p)

\* CTC is sent, if at all, to a receiver that has started again.
Restarted(q) == q.state \in {"R"} \cup Over
Continues(p, q) ==
  /\ p.state = "IV_CTC" =>
       Restarted(q) \/ (NoTimer(p) /\ (q.state = "F_DOC" \/ (q.state = "F_POST_RCP_PPR" /\ Ended(q))))
  /\ p.state = "C" /\ p.buffer.type = "CTC" => Restarted(q)

\* The sender trains the receiver before it takes a block.
Training(p, q) ==
  /\ p.ecm_allowed = TRUE /\ p.state \in {"D", "D_TCF"} =>
       q.state \notin {"F_CFR", "F_DOC", "F_POST_DOC_ECM", "F_POST_RCP_MCF", "F_POST_RCP_PPR"}
  /\ p.state \in {"D", "D_TCF"} /\ q.state = "F_TCF" /\ q.hears = "fast" => p.state = "D_TCF" /\ p.on # "off"

\* A sender that has not begun has a receiver that has not begun.
Opening(p, q) ==
  p.tx_file = TRUE /\ p.state \in {"ANSWERING", "T", "R"} => q.state \in {"ANSWERING", "T", "R"} \cup Over

\* The answerer's tone is not disturbed by the caller.
ToneFirst ==
  /\ end[Caller].state # "ANSWERING"
  /\ end[Answerer].state = "ANSWERING" => end[Caller].phase \in {"A_CNG", "E", "CALL_FINISHED"}

Ends ==
  /\ DOMAIN end = Peer /\ end = [p \in Peer |-> end[p]]
  /\ \A p \in Peer : EndInv(end[p])
Matched == end[Caller].ecm_allowed = end[Answerer].ecm_allowed /\ end[Caller].tx_file # end[Answerer].tx_file
Exchange ==
  \A p \in Peer : LET q == Other(p) IN
    Turns(end[q], end[p]) /\ BlockSent(end[q], end[p]) /\ Continues(end[p], end[q])
    /\ Training(end[p], end[q]) /\ Opening(end[p], end[q])

CallInv == mishaps \in 0 .. Mishaps /\ Ends /\ Matched /\ Exchange /\ ToneFirst

-----------------------------------------------------------------------------
(* Phases                                                                   *)

SendingFast == {"C_NON_ECM_TX", "C_ECM_TX"}

\* What the far end and the document are to an end.
SameDoc(s, t) ==
  /\ t.page = s.page /\ t.ecm_block = s.ecm_block /\ t.ecm_len = s.ecm_len
  /\ t.ecm_current_frame = s.ecm_current_frame /\ t.ecm_at_page_end = s.ecm_at_page_end
  /\ t.in_message = s.in_message /\ t.image = s.image /\ t.got = s.got /\ t.ecm = s.ecm
  /\ t.ppr_count = s.ppr_count /\ t.next_tx_step = s.next_tx_step /\ t.next_rx_step = s.next_rx_step
  /\ t.tx_file = s.tx_file /\ t.rx_file = s.rx_file /\ t.compatible = s.compatible
  /\ t.ecm_allowed = s.ecm_allowed

\* What SetPhase leaves alone.
Quiet(s, t) ==
  /\ t.state = s.state /\ t.step = s.step /\ t.buffer = s.buffer /\ t.next_phase = s.next_phase
  /\ t.retries = s.retries /\ t.current_status = s.current_status /\ t.timer_t0_t1 = s.timer_t0_t1
  /\ SameDoc(s, t)

SameTimers(s, t) ==
  t.timer_t2_t4 = s.timer_t2_t4 /\ t.timer_is_t4 = s.timer_is_t4 /\ t.waited = s.waited

Moved(s, t, phase) ==
  /\ Fields \subseteq DOMAIN t /\ Radio(t) /\ Signals(t) /\ Quiet(s, t)
  /\ t.phase = phase /\ t.on = "off" /\ t.rx_signal_present = FALSE

\* An end that listens to V.21.
LEMMA ListenPhase ==
  ASSUME NEW s, NEW phase \in Listening, Fields \subseteq DOMAIN s, Tuned(s), Signals(s), s.tx_end \in BOOLEAN,
         s.phase \in Talking \cup SendingFast \cup Receiving
  PROVE  LET t == SetPhase(s, phase) IN
         Moved(s, t, phase) /\ SameTimers(s, t) /\ t.hears = "no" /\ t.tx_end = s.tx_end /\ t.far_end_detected = s.far_end_detected
<1> DEFINE r == [s EXCEPT !.rx_signal_present = @ /\ s.phase \in {"A_CED", "A_CNG"},
                           !.rx_trained = FALSE, !.phase = phase]
           t == SetPhase(s, phase)
<1>1. /\ (s.phase # phase /\ s.phase \notin {"A_CED", "A_CNG"} /\ s.rx \in {"none", "fast"} /\ phase \in {"B_RX", "D_RX"})
      /\ (s.tx = "none" => s.on = "off" /\ s.tx_hdlc = FALSE /\ s.transmit = FALSE)
      /\ (s.early \in BOOLEAN /\ s.rx_signal_present \in BOOLEAN)
  <2>1. s.phase # phase /\ s.phase \notin {"A_CED", "A_CNG"} /\ s.rx \in {"none", "fast"} /\ phase \in {"B_RX", "D_RX"}
    BY DEF Tuned, Modems, Signals, Listening, Talking, SendingFast, Receiving, Hearing, Calling, Phases, TxPhases
  <2>2. s.tx = "none" => s.on = "off" /\ s.tx_hdlc = FALSE /\ s.transmit = FALSE
    BY DEF Tuned, Modems, Signals, Listening, Talking, SendingFast, Receiving, Hearing, Calling, Phases, TxPhases
  <2>3. s.early \in BOOLEAN /\ s.rx_signal_present \in BOOLEAN
    BY DEF Tuned, Modems, Signals, Listening, Talking, SendingFast, Receiving, Hearing, Calling, Phases, TxPhases
  <2> QED  BY <2>1, <2>2, <2>3
<1>2. t = SetTxType(SetRxType(r, "v21", TRUE), "none", FALSE)
  BY <1>1 DEF SetPhase, Listen, Listening, Talking, SendingFast, Receiving
<1>3. /\ Fields \subseteq DOMAIN r /\ r.phase = phase /\ r.rx_signal_present = FALSE /\ r.rx_trained = FALSE
      /\ Quiet(s, r) /\ SameTimers(s, r) /\ r.tx = s.tx /\ r.rx = s.rx /\ r.hears = s.hears /\ r.on = s.on
      /\ r.tx_hdlc = s.tx_hdlc /\ r.rx_hdlc = s.rx_hdlc /\ r.transmit = s.transmit /\ r.early = s.early
      /\ r.tx_end = s.tx_end /\ r.far_end_detected = s.far_end_detected
  BY <1>1, ZenonT(60) DEF Fields, Quiet, SameDoc, SameTimers
<1> HIDE DEF r, t
<1>4. /\ Fields \subseteq DOMAIN t /\ t.phase = phase /\ t.rx_signal_present = FALSE /\ t.rx_trained = FALSE
      /\ t.tx = "none" /\ t.rx = "v21"
      /\ t.tx_hdlc = FALSE /\ t.rx_hdlc = TRUE
      /\ t.on = "off" /\ t.transmit = FALSE
      /\ t.hears = "no" /\ t.early \in BOOLEAN
      /\ t.tx_end = s.tx_end /\ t.far_end_detected = s.far_end_detected
  <2>1. Fields \subseteq DOMAIN t /\ t.phase = phase /\ t.rx_signal_present = FALSE /\ t.rx_trained = FALSE
    BY <1>1, <1>2, <1>3 DEF SetTxType, SetRxType, Fields, Signals, Quiet
  <2>2. t.tx = "none" /\ t.rx = "v21"
    BY <1>1, <1>2, <1>3 DEF SetTxType, SetRxType, Fields, Signals, Quiet
  <2>3. t.tx_hdlc = FALSE /\ t.rx_hdlc = TRUE
    BY <1>1, <1>2, <1>3 DEF SetTxType, SetRxType, Fields, Signals, Quiet
  <2>4. t.on = "off" /\ t.transmit = FALSE
    BY <1>1, <1>2, <1>3 DEF SetTxType, SetRxType, Fields, Signals, Quiet
  <2>5. t.hears = "no" /\ t.early \in BOOLEAN
    BY <1>1, <1>2, <1>3 DEF SetTxType, SetRxType, Fields, Signals, Quiet
  <2>6. t.tx_end = s.tx_end /\ t.far_end_detected = s.far_end_detected
    BY <1>1, <1>2, <1>3 DEF SetTxType, SetRxType, Fields, Signals, Quiet
  <2> QED  BY <2>1, <2>2, <2>3, <2>4, <2>5, <2>6
<1>5. Quiet(s, t) /\ SameTimers(s, t)
  BY <1>1, <1>2, <1>3 DEF SetTxType, SetRxType, Fields, Quiet, SameDoc, SameTimers
<1>6. Radio(t)
  BY <1>1, <1>4 DEF Radio, Tuned, Modems, Phases, TxPhases, Listening, Talking, SendingFast, Receiving
<1>7. Signals(t)
  BY <1>1, <1>4 DEF Signals
<1> QED  BY <1>4, <1>5, <1>6, <1>7 DEF Moved, t

\* An end that talks.
LEMMA TalkPhase ==
  ASSUME NEW s, NEW phase \in Talking, Fields \subseteq DOMAIN s, Tuned(s), Signals(s), s.tx_end \in BOOLEAN,
         s.phase \in Calling \cup Hearing \cup SendingFast, s.timer_t0_t1 \in BOOLEAN,
         s.phase \in Calling => s.rx_signal_present = FALSE
  PROVE  LET t == SetPhase(s, phase) IN
         Moved(s, t, phase) /\ SameTimers(s, t) /\ t.hears = "no" /\ t.tx_end = FALSE
         /\ t.far_end_detected = (s.far_end_detected \/ s.timer_t0_t1)
<1> DEFINE r == [s EXCEPT !.rx_signal_present = @ /\ s.phase \in {"A_CED", "A_CNG"},
                           !.rx_trained = FALSE, !.phase = phase]
           t == SetPhase(s, phase)
<1>1. /\ (s.phase # phase /\ s.tx # "v21" /\ phase \in {"B_TX", "D_TX"})
      /\ (s.rx = "none" => s.hears = "no" /\ s.rx_hdlc = FALSE)
      /\ ((s.rx_signal_present /\ s.phase \in {"A_CED", "A_CNG"}) = FALSE)
      /\ (s.hears \in {"no", "v21", "fast", "noise"} /\ s.early \in BOOLEAN)
  <2>1. s.phase # phase /\ s.tx # "v21" /\ phase \in {"B_TX", "D_TX"}
    BY DEF Tuned, Modems, Signals, Listening, Talking, SendingFast, Receiving, Hearing, Calling, Phases, TxPhases
  <2>2. s.rx = "none" => s.hears = "no" /\ s.rx_hdlc = FALSE
    BY DEF Tuned, Modems, Signals, Listening, Talking, SendingFast, Receiving, Hearing, Calling, Phases, TxPhases
  <2>3. (s.rx_signal_present /\ s.phase \in {"A_CED", "A_CNG"}) = FALSE
    BY DEF Tuned, Modems, Signals, Listening, Talking, SendingFast, Receiving, Hearing, Calling, Phases, TxPhases
  <2>4. s.hears \in {"no", "v21", "fast", "noise"} /\ s.early \in BOOLEAN
    BY DEF Tuned, Modems, Signals, Listening, Talking, SendingFast, Receiving, Hearing, Calling, Phases, TxPhases
  <2> QED  BY <2>1, <2>2, <2>3, <2>4
<1>2. t = SetTxType(SetRxType([r EXCEPT !.far_end_detected = @ \/ r.timer_t0_t1], "none", FALSE), "v21", TRUE)
  BY <1>1 DEF SetPhase, Talk, Listening, Talking, SendingFast, Receiving
<1>3. /\ Fields \subseteq DOMAIN r /\ r.phase = phase /\ r.rx_signal_present = FALSE /\ r.rx_trained = FALSE
      /\ Quiet(s, r) /\ SameTimers(s, r) /\ r.tx = s.tx /\ r.rx = s.rx /\ r.hears = s.hears /\ r.on = s.on
      /\ r.tx_hdlc = s.tx_hdlc /\ r.rx_hdlc = s.rx_hdlc /\ r.transmit = s.transmit /\ r.early = s.early
      /\ r.tx_end = s.tx_end /\ r.far_end_detected = s.far_end_detected
  BY <1>1, ZenonT(60) DEF Fields, Quiet, SameDoc, SameTimers
<1> HIDE DEF r, t
<1>4. /\ Fields \subseteq DOMAIN t /\ t.phase = phase /\ t.rx_signal_present = FALSE /\ t.rx_trained = FALSE
      /\ t.tx = "v21" /\ t.rx = "none"
      /\ t.tx_hdlc = TRUE /\ t.rx_hdlc = FALSE
      /\ t.on = "off" /\ t.transmit = TRUE
      /\ t.hears = "no" /\ t.early \in BOOLEAN
      /\ t.tx_end = FALSE /\ t.far_end_detected = (s.far_end_detected \/ s.timer_t0_t1)
  <2>1. Fields \subseteq DOMAIN t /\ t.phase = phase /\ t.rx_signal_present = FALSE /\ t.rx_trained = FALSE
    BY <1>1, <1>2, <1>3 DEF SetTxType, SetRxType, Fields, Signals, Quiet
  <2>2. t.tx = "v21" /\ t.rx = "none"
    BY <1>1, <1>2, <1>3 DEF SetTxType, SetRxType, Fields, Signals, Quiet
  <2>3. t.tx_hdlc = TRUE /\ t.rx_hdlc = FALSE
    BY <1>1, <1>2, <1>3 DEF SetTxType, SetRxType, Fields, Signals, Quiet
  <2>4. t.on = "off" /\ t.transmit = TRUE
    BY <1>1, <1>2, <1>3 DEF SetTxType, SetRxType, Fields, Signals, Quiet
  <2>5. t.hears = "no" /\ t.early \in BOOLEAN
    BY <1>1, <1>2, <1>3 DEF SetTxType, SetRxType, Fields, Signals, Quiet
  <2>6. t.tx_end = FALSE /\ t.far_end_detected = (s.far_end_detected \/ s.timer_t0_t1)
    BY <1>1, <1>2, <1>3, ZenonT(60) DEF SetTxType, SetRxType, Fields, Signals, Quiet
  <2> QED  BY <2>1, <2>2, <2>3, <2>4, <2>5, <2>6
<1>5. Quiet(s, t) /\ SameTimers(s, t)
  BY <1>1, <1>2, <1>3 DEF SetTxType, SetRxType, Fields, Quiet, SameDoc, SameTimers
<1>6. Radio(t)
  BY <1>1, <1>4 DEF Radio, Tuned, Modems, Phases, TxPhases, Listening, Talking, SendingFast, Receiving
<1>7. Signals(t)
  BY <1>1, <1>4 DEF Signals
<1> QED  BY <1>4, <1>5, <1>6, <1>7 DEF Moved, t

\* An end that waits for a fast signal, and goes on hearing V.21 if it does.
LEMMA ListenNonEcm ==
  ASSUME NEW s, Fields \subseteq DOMAIN s, Tuned(s), Signals(s), s.tx_end \in BOOLEAN,
         s.phase \in Talking \cup Listening
  PROVE  LET t == SetPhase(s, "C_NON_ECM_RX") IN
         Moved(s, t, "C_NON_ECM_RX") /\ t.timer_t2_t4 = TRUE /\ t.timer_is_t4 = FALSE /\ t.waited = FALSE
         /\ t.hears = s.hears /\ t.tx_end = s.tx_end /\ t.far_end_detected = s.far_end_detected
<1> DEFINE r == [s EXCEPT !.rx_signal_present = @ /\ s.phase \in {"A_CED", "A_CNG"},
                           !.rx_trained = FALSE, !.phase = "C_NON_ECM_RX"]
           t == SetPhase(s, "C_NON_ECM_RX")
<1>1. /\ (s.phase # "C_NON_ECM_RX" /\ s.phase \notin {"A_CED", "A_CNG"} /\ s.rx \in {"none", "v21"})
      /\ (s.tx = "none" => s.on = "off" /\ s.tx_hdlc = FALSE /\ s.transmit = FALSE)
      /\ (s.hears \in {"no", "v21"} /\ s.rx_signal_present \in BOOLEAN)
  <2>1. s.phase # "C_NON_ECM_RX" /\ s.phase \notin {"A_CED", "A_CNG"} /\ s.rx \in {"none", "v21"}
    BY DEF Tuned, Modems, Signals, Listening, Talking, SendingFast, Receiving, Hearing, Calling, Phases, TxPhases
  <2>2. s.tx = "none" => s.on = "off" /\ s.tx_hdlc = FALSE /\ s.transmit = FALSE
    BY DEF Tuned, Modems, Signals, Listening, Talking, SendingFast, Receiving, Hearing, Calling, Phases, TxPhases
  <2>3. s.hears \in {"no", "v21"} /\ s.rx_signal_present \in BOOLEAN
    BY DEF Tuned, Modems, Signals, Listening, Talking, SendingFast, Receiving, Hearing, Calling, Phases, TxPhases
  <2> QED  BY <2>1, <2>2, <2>3
<1>2. t = SetTxType(SetRxType(StartT2(r), "fast", FALSE), "none", FALSE)
  BY <1>1 DEF SetPhase, ListenFast, Listening, Talking, SendingFast, Receiving
<1>3. /\ Fields \subseteq DOMAIN r /\ r.phase = "C_NON_ECM_RX" /\ r.rx_signal_present = FALSE /\ r.rx_trained = FALSE
      /\ Quiet(s, r) /\ SameTimers(s, r) /\ r.tx = s.tx /\ r.rx = s.rx /\ r.hears = s.hears /\ r.on = s.on
      /\ r.tx_hdlc = s.tx_hdlc /\ r.rx_hdlc = s.rx_hdlc /\ r.transmit = s.transmit /\ r.early = s.early
      /\ r.tx_end = s.tx_end /\ r.far_end_detected = s.far_end_detected
  BY <1>1, ZenonT(60) DEF Fields, Quiet, SameDoc, SameTimers
<1> HIDE DEF r, t
<1>4. /\ Fields \subseteq DOMAIN t /\ t.phase = "C_NON_ECM_RX" /\ t.rx_signal_present = FALSE /\ t.rx_trained = FALSE
      /\ t.tx = "none" /\ t.rx = "fast"
      /\ t.tx_hdlc = FALSE /\ t.rx_hdlc = FALSE
      /\ t.on = "off" /\ t.transmit = FALSE
      /\ t.hears = s.hears /\ t.early \in BOOLEAN /\ t.early = TRUE
      /\ t.tx_end = s.tx_end /\ t.far_end_detected = s.far_end_detected
  <2>1. Fields \subseteq DOMAIN t /\ t.phase = "C_NON_ECM_RX" /\ t.rx_signal_present = FALSE /\ t.rx_trained = FALSE
    BY <1>1, <1>2, <1>3 DEF StartT2, SetTxType, SetRxType, Fields, Signals, Quiet
  <2>2. t.tx = "none" /\ t.rx = "fast"
    BY <1>1, <1>2, <1>3 DEF StartT2, SetTxType, SetRxType, Fields, Signals, Quiet
  <2>3. t.tx_hdlc = FALSE /\ t.rx_hdlc = FALSE
    BY <1>1, <1>2, <1>3 DEF StartT2, SetTxType, SetRxType, Fields, Signals, Quiet
  <2>4. t.on = "off" /\ t.transmit = FALSE
    BY <1>1, <1>2, <1>3 DEF StartT2, SetTxType, SetRxType, Fields, Signals, Quiet
  <2>5. t.hears = s.hears /\ t.early \in BOOLEAN /\ t.early = TRUE
    BY <1>1, <1>2, <1>3 DEF StartT2, SetTxType, SetRxType, Fields, Signals, Quiet
  <2>6. t.tx_end = s.tx_end /\ t.far_end_detected = s.far_end_detected
    BY <1>1, <1>2, <1>3 DEF StartT2, SetTxType, SetRxType, Fields, Signals, Quiet
  <2> QED  BY <2>1, <2>2, <2>3, <2>4, <2>5, <2>6
<1>5. Quiet(s, t) /\ t.timer_t2_t4 = TRUE /\ t.timer_is_t4 = FALSE /\ t.waited = FALSE
  BY <1>1, <1>2, <1>3 DEF StartT2, SetTxType, SetRxType, Fields, Quiet, SameDoc, SameTimers
<1>6. Radio(t)
  BY <1>1, <1>4 DEF Radio, Tuned, Modems, Phases, TxPhases, Listening, Talking, SendingFast, Receiving
<1>7. Signals(t)
  BY <1>1, <1>4 DEF Signals
<1> QED  BY <1>4, <1>5, <1>6, <1>7 DEF Moved, t

\* An end that waits for a fast signal, and goes on hearing V.21 if it does.
LEMMA ListenEcm ==
  ASSUME NEW s, Fields \subseteq DOMAIN s, Tuned(s), Signals(s), s.tx_end \in BOOLEAN,
         s.phase \in Talking \cup Listening
  PROVE  LET t == SetPhase(s, "C_ECM_RX") IN
         Moved(s, t, "C_ECM_RX") /\ t.timer_t2_t4 = TRUE /\ t.timer_is_t4 = FALSE /\ t.waited = FALSE
         /\ t.hears = s.hears /\ t.tx_end = s.tx_end /\ t.far_end_detected = s.far_end_detected
<1> DEFINE r == [s EXCEPT !.rx_signal_present = @ /\ s.phase \in {"A_CED", "A_CNG"},
                           !.rx_trained = FALSE, !.phase = "C_ECM_RX"]
           t == SetPhase(s, "C_ECM_RX")
<1>1. /\ (s.phase # "C_ECM_RX" /\ s.phase \notin {"A_CED", "A_CNG"} /\ s.rx \in {"none", "v21"})
      /\ (s.tx = "none" => s.on = "off" /\ s.tx_hdlc = FALSE /\ s.transmit = FALSE)
      /\ (s.hears \in {"no", "v21"} /\ s.rx_signal_present \in BOOLEAN)
  <2>1. s.phase # "C_ECM_RX" /\ s.phase \notin {"A_CED", "A_CNG"} /\ s.rx \in {"none", "v21"}
    BY DEF Tuned, Modems, Signals, Listening, Talking, SendingFast, Receiving, Hearing, Calling, Phases, TxPhases
  <2>2. s.tx = "none" => s.on = "off" /\ s.tx_hdlc = FALSE /\ s.transmit = FALSE
    BY DEF Tuned, Modems, Signals, Listening, Talking, SendingFast, Receiving, Hearing, Calling, Phases, TxPhases
  <2>3. s.hears \in {"no", "v21"} /\ s.rx_signal_present \in BOOLEAN
    BY DEF Tuned, Modems, Signals, Listening, Talking, SendingFast, Receiving, Hearing, Calling, Phases, TxPhases
  <2> QED  BY <2>1, <2>2, <2>3
<1>2. t = SetTxType(SetRxType(StartT2(r), "fast", TRUE), "none", FALSE)
  BY <1>1 DEF SetPhase, ListenFast, Listening, Talking, SendingFast, Receiving
<1>3. /\ Fields \subseteq DOMAIN r /\ r.phase = "C_ECM_RX" /\ r.rx_signal_present = FALSE /\ r.rx_trained = FALSE
      /\ Quiet(s, r) /\ SameTimers(s, r) /\ r.tx = s.tx /\ r.rx = s.rx /\ r.hears = s.hears /\ r.on = s.on
      /\ r.tx_hdlc = s.tx_hdlc /\ r.rx_hdlc = s.rx_hdlc /\ r.transmit = s.transmit /\ r.early = s.early
      /\ r.tx_end = s.tx_end /\ r.far_end_detected = s.far_end_detected
  BY <1>1, ZenonT(60) DEF Fields, Quiet, SameDoc, SameTimers
<1> HIDE DEF r, t
<1>4. /\ Fields \subseteq DOMAIN t /\ t.phase = "C_ECM_RX" /\ t.rx_signal_present = FALSE /\ t.rx_trained = FALSE
      /\ t.tx = "none" /\ t.rx = "fast"
      /\ t.tx_hdlc = FALSE /\ t.rx_hdlc = TRUE
      /\ t.on = "off" /\ t.transmit = FALSE
      /\ t.hears = s.hears /\ t.early \in BOOLEAN /\ t.early = TRUE
      /\ t.tx_end = s.tx_end /\ t.far_end_detected = s.far_end_detected
  <2>1. Fields \subseteq DOMAIN t /\ t.phase = "C_ECM_RX" /\ t.rx_signal_present = FALSE /\ t.rx_trained = FALSE
    BY <1>1, <1>2, <1>3 DEF StartT2, SetTxType, SetRxType, Fields, Signals, Quiet
  <2>2. t.tx = "none" /\ t.rx = "fast"
    BY <1>1, <1>2, <1>3 DEF StartT2, SetTxType, SetRxType, Fields, Signals, Quiet
  <2>3. t.tx_hdlc = FALSE /\ t.rx_hdlc = TRUE
    BY <1>1, <1>2, <1>3 DEF StartT2, SetTxType, SetRxType, Fields, Signals, Quiet
  <2>4. t.on = "off" /\ t.transmit = FALSE
    BY <1>1, <1>2, <1>3 DEF StartT2, SetTxType, SetRxType, Fields, Signals, Quiet
  <2>5. t.hears = s.hears /\ t.early \in BOOLEAN /\ t.early = TRUE
    BY <1>1, <1>2, <1>3 DEF StartT2, SetTxType, SetRxType, Fields, Signals, Quiet
  <2>6. t.tx_end = s.tx_end /\ t.far_end_detected = s.far_end_detected
    BY <1>1, <1>2, <1>3 DEF StartT2, SetTxType, SetRxType, Fields, Signals, Quiet
  <2> QED  BY <2>1, <2>2, <2>3, <2>4, <2>5, <2>6
<1>5. Quiet(s, t) /\ t.timer_t2_t4 = TRUE /\ t.timer_is_t4 = FALSE /\ t.waited = FALSE
  BY <1>1, <1>2, <1>3 DEF StartT2, SetTxType, SetRxType, Fields, Quiet, SameDoc, SameTimers
<1>6. Radio(t)
  BY <1>1, <1>4 DEF Radio, Tuned, Modems, Phases, TxPhases, Listening, Talking, SendingFast, Receiving
<1>7. Signals(t)
  BY <1>1, <1>4 DEF Signals
<1> QED  BY <1>4, <1>5, <1>6, <1>7 DEF Moved, t

\* An end that sends a fast signal.
LEMMA TalkNonEcm ==
  ASSUME NEW s, Fields \subseteq DOMAIN s, Tuned(s), Signals(s), s.tx_end \in BOOLEAN,
         s.phase \in Talking \cup Listening
  PROVE  LET t == SetPhase(s, "C_NON_ECM_TX") IN
         Moved(s, t, "C_NON_ECM_TX") /\ SameTimers(s, t) /\ t.hears = "no" /\ t.tx_end = FALSE /\ t.far_end_detected = s.far_end_detected
<1> DEFINE r == [s EXCEPT !.rx_signal_present = @ /\ s.phase \in {"A_CED", "A_CNG"},
                           !.rx_trained = FALSE, !.phase = "C_NON_ECM_TX"]
           t == SetPhase(s, "C_NON_ECM_TX")
<1>1. /\ (s.phase # "C_NON_ECM_TX" /\ s.phase \notin {"A_CED", "A_CNG"} /\ s.tx # "fast")
      /\ (s.rx = "none" => s.hears = "no" /\ s.rx_hdlc = FALSE)
      /\ (s.hears \in {"no", "v21"} /\ s.early \in BOOLEAN /\ s.rx_signal_present \in BOOLEAN)
  <2>1. s.phase # "C_NON_ECM_TX" /\ s.phase \notin {"A_CED", "A_CNG"} /\ s.tx # "fast"
    BY DEF Tuned, Modems, Signals, Listening, Talking, SendingFast, Receiving, Hearing, Calling, Phases, TxPhases
  <2>2. s.rx = "none" => s.hears = "no" /\ s.rx_hdlc = FALSE
    BY DEF Tuned, Modems, Signals, Listening, Talking, SendingFast, Receiving, Hearing, Calling, Phases, TxPhases
  <2>3. s.hears \in {"no", "v21"} /\ s.early \in BOOLEAN /\ s.rx_signal_present \in BOOLEAN
    BY DEF Tuned, Modems, Signals, Listening, Talking, SendingFast, Receiving, Hearing, Calling, Phases, TxPhases
  <2> QED  BY <2>1, <2>2, <2>3
<1>2. t = SetTxType(SetRxType(r, "none", FALSE), "fast", FALSE)
  BY <1>1 DEF SetPhase, TalkFast, Listening, Talking, SendingFast, Receiving
<1>3. /\ Fields \subseteq DOMAIN r /\ r.phase = "C_NON_ECM_TX" /\ r.rx_signal_present = FALSE /\ r.rx_trained = FALSE
      /\ Quiet(s, r) /\ SameTimers(s, r) /\ r.tx = s.tx /\ r.rx = s.rx /\ r.hears = s.hears /\ r.on = s.on
      /\ r.tx_hdlc = s.tx_hdlc /\ r.rx_hdlc = s.rx_hdlc /\ r.transmit = s.transmit /\ r.early = s.early
      /\ r.tx_end = s.tx_end /\ r.far_end_detected = s.far_end_detected
  BY <1>1, ZenonT(60) DEF Fields, Quiet, SameDoc, SameTimers
<1> HIDE DEF r, t
<1>4. /\ Fields \subseteq DOMAIN t /\ t.phase = "C_NON_ECM_TX" /\ t.rx_signal_present = FALSE /\ t.rx_trained = FALSE
      /\ t.tx = "fast" /\ t.rx = "none"
      /\ t.tx_hdlc = FALSE /\ t.rx_hdlc = FALSE
      /\ t.on = "off" /\ t.transmit = TRUE
      /\ t.hears = "no" /\ t.early \in BOOLEAN
      /\ t.tx_end = FALSE /\ t.far_end_detected = s.far_end_detected
  <2>1. Fields \subseteq DOMAIN t /\ t.phase = "C_NON_ECM_TX" /\ t.rx_signal_present = FALSE /\ t.rx_trained = FALSE
    BY <1>1, <1>2, <1>3 DEF SetTxType, SetRxType, Fields, Signals, Quiet
  <2>2. t.tx = "fast" /\ t.rx = "none"
    BY <1>1, <1>2, <1>3 DEF SetTxType, SetRxType, Fields, Signals, Quiet
  <2>3. t.tx_hdlc = FALSE /\ t.rx_hdlc = FALSE
    BY <1>1, <1>2, <1>3 DEF SetTxType, SetRxType, Fields, Signals, Quiet
  <2>4. t.on = "off" /\ t.transmit = TRUE
    BY <1>1, <1>2, <1>3 DEF SetTxType, SetRxType, Fields, Signals, Quiet
  <2>5. t.hears = "no" /\ t.early \in BOOLEAN
    BY <1>1, <1>2, <1>3 DEF SetTxType, SetRxType, Fields, Signals, Quiet
  <2>6. t.tx_end = FALSE /\ t.far_end_detected = s.far_end_detected
    BY <1>1, <1>2, <1>3 DEF SetTxType, SetRxType, Fields, Signals, Quiet
  <2> QED  BY <2>1, <2>2, <2>3, <2>4, <2>5, <2>6
<1>5. Quiet(s, t) /\ SameTimers(s, t)
  BY <1>1, <1>2, <1>3 DEF SetTxType, SetRxType, Fields, Quiet, SameDoc, SameTimers
<1>6. Radio(t)
  BY <1>1, <1>4 DEF Radio, Tuned, Modems, Phases, TxPhases, Listening, Talking, SendingFast, Receiving
<1>7. Signals(t)
  BY <1>1, <1>4 DEF Signals
<1> QED  BY <1>4, <1>5, <1>6, <1>7 DEF Moved, t

\* An end that sends a fast signal.
LEMMA TalkEcm ==
  ASSUME NEW s, Fields \subseteq DOMAIN s, Tuned(s), Signals(s), s.tx_end \in BOOLEAN,
         s.phase \in Talking \cup Listening
  PROVE  LET t == SetPhase(s, "C_ECM_TX") IN
         Moved(s, t, "C_ECM_TX") /\ SameTimers(s, t) /\ t.hears = "no" /\ t.tx_end = FALSE /\ t.far_end_detected = s.far_end_detected
<1> DEFINE r == [s EXCEPT !.rx_signal_present = @ /\ s.phase \in {"A_CED", "A_CNG"},
                           !.rx_trained = FALSE, !.phase = "C_ECM_TX"]
           t == SetPhase(s, "C_ECM_TX")
<1>1. /\ (s.phase # "C_ECM_TX" /\ s.phase \notin {"A_CED", "A_CNG"} /\ s.tx # "fast")
      /\ (s.rx = "none" => s.hears = "no" /\ s.rx_hdlc = FALSE)
      /\ (s.hears \in {"no", "v21"} /\ s.early \in BOOLEAN /\ s.rx_signal_present \in BOOLEAN)
  <2>1. s.phase # "C_ECM_TX" /\ s.phase \notin {"A_CED", "A_CNG"} /\ s.tx # "fast"
    BY DEF Tuned, Modems, Signals, Listening, Talking, SendingFast, Receiving, Hearing, Calling, Phases, TxPhases
  <2>2. s.rx = "none" => s.hears = "no" /\ s.rx_hdlc = FALSE
    BY DEF Tuned, Modems, Signals, Listening, Talking, SendingFast, Receiving, Hearing, Calling, Phases, TxPhases
  <2>3. s.hears \in {"no", "v21"} /\ s.early \in BOOLEAN /\ s.rx_signal_present \in BOOLEAN
    BY DEF Tuned, Modems, Signals, Listening, Talking, SendingFast, Receiving, Hearing, Calling, Phases, TxPhases
  <2> QED  BY <2>1, <2>2, <2>3
<1>2. t = SetTxType(SetRxType(r, "none", FALSE), "fast", TRUE)
  BY <1>1 DEF SetPhase, TalkFast, Listening, Talking, SendingFast, Receiving
<1>3. /\ Fields \subseteq DOMAIN r /\ r.phase = "C_ECM_TX" /\ r.rx_signal_present = FALSE /\ r.rx_trained = FALSE
      /\ Quiet(s, r) /\ SameTimers(s, r) /\ r.tx = s.tx /\ r.rx = s.rx /\ r.hears = s.hears /\ r.on = s.on
      /\ r.tx_hdlc = s.tx_hdlc /\ r.rx_hdlc = s.rx_hdlc /\ r.transmit = s.transmit /\ r.early = s.early
      /\ r.tx_end = s.tx_end /\ r.far_end_detected = s.far_end_detected
  BY <1>1, ZenonT(60) DEF Fields, Quiet, SameDoc, SameTimers
<1> HIDE DEF r, t
<1>4. /\ Fields \subseteq DOMAIN t /\ t.phase = "C_ECM_TX" /\ t.rx_signal_present = FALSE /\ t.rx_trained = FALSE
      /\ t.tx = "fast" /\ t.rx = "none"
      /\ t.tx_hdlc = TRUE /\ t.rx_hdlc = FALSE
      /\ t.on = "off" /\ t.transmit = TRUE
      /\ t.hears = "no" /\ t.early \in BOOLEAN
      /\ t.tx_end = FALSE /\ t.far_end_detected = s.far_end_detected
  <2>1. Fields \subseteq DOMAIN t /\ t.phase = "C_ECM_TX" /\ t.rx_signal_present = FALSE /\ t.rx_trained = FALSE
    BY <1>1, <1>2, <1>3 DEF SetTxType, SetRxType, Fields, Signals, Quiet
  <2>2. t.tx = "fast" /\ t.rx = "none"
    BY <1>1, <1>2, <1>3 DEF SetTxType, SetRxType, Fields, Signals, Quiet
  <2>3. t.tx_hdlc = TRUE /\ t.rx_hdlc = FALSE
    BY <1>1, <1>2, <1>3 DEF SetTxType, SetRxType, Fields, Signals, Quiet
  <2>4. t.on = "off" /\ t.transmit = TRUE
    BY <1>1, <1>2, <1>3 DEF SetTxType, SetRxType, Fields, Signals, Quiet
  <2>5. t.hears = "no" /\ t.early \in BOOLEAN
    BY <1>1, <1>2, <1>3 DEF SetTxType, SetRxType, Fields, Signals, Quiet
  <2>6. t.tx_end = FALSE /\ t.far_end_detected = s.far_end_detected
    BY <1>1, <1>2, <1>3 DEF SetTxType, SetRxType, Fields, Signals, Quiet
  <2> QED  BY <2>1, <2>2, <2>3, <2>4, <2>5, <2>6
<1>5. Quiet(s, t) /\ SameTimers(s, t)
  BY <1>1, <1>2, <1>3 DEF SetTxType, SetRxType, Fields, Quiet, SameDoc, SameTimers
<1>6. Radio(t)
  BY <1>1, <1>4 DEF Radio, Tuned, Modems, Phases, TxPhases, Listening, Talking, SendingFast, Receiving
<1>7. Signals(t)
  BY <1>1, <1>4 DEF Signals
<1> QED  BY <1>4, <1>5, <1>6, <1>7 DEF Moved, t

\* The pause at the end of the call.
LEMMA PausePhase ==
  ASSUME NEW s, Fields \subseteq DOMAIN s, Tuned(s), Signals(s), s.tx_end \in BOOLEAN,
         s.phase \notin {"E", "CALL_FINISHED"},
         s.phase \in Calling => s.rx_signal_present = FALSE
  PROVE  LET t == SetPhase(s, "E") IN
         Moved(s, t, "E") /\ SameTimers(s, t) /\ t.hears = "no" /\ t.tx_end = s.tx_end /\ t.far_end_detected = s.far_end_detected
<1> DEFINE r == [s EXCEPT !.rx_signal_present = @ /\ s.phase \in {"A_CED", "A_CNG"},
                           !.rx_trained = FALSE, !.phase = "E"]
           t == SetPhase(s, "E")
<1>1. /\ (s.phase # "E" /\ s.tx # "pause")
      /\ (s.rx = "none" => s.hears = "no" /\ s.rx_hdlc = FALSE)
      /\ ((s.rx_signal_present /\ s.phase \in {"A_CED", "A_CNG"}) = FALSE)
      /\ (s.early \in BOOLEAN)
  <2>1. s.phase # "E" /\ s.tx # "pause"
    BY DEF Tuned, Modems, Signals, Listening, Talking, SendingFast, Receiving, Hearing, Calling, Phases, TxPhases
  <2>2. s.rx = "none" => s.hears = "no" /\ s.rx_hdlc = FALSE
    BY DEF Tuned, Modems, Signals, Listening, Talking, SendingFast, Receiving, Hearing, Calling, Phases, TxPhases
  <2>3. (s.rx_signal_present /\ s.phase \in {"A_CED", "A_CNG"}) = FALSE
    BY DEF Tuned, Modems, Signals, Listening, Talking, SendingFast, Receiving, Hearing, Calling, Phases, TxPhases
  <2>4. s.early \in BOOLEAN
    BY DEF Tuned, Modems, Signals, Listening, Talking, SendingFast, Receiving, Hearing, Calling, Phases, TxPhases
  <2> QED  BY <2>1, <2>2, <2>3, <2>4
<1>2. t = SetTxType(SetRxType(r, "none", FALSE), "pause", FALSE)
  BY <1>1 DEF SetPhase, Listening, Talking, SendingFast, Receiving
<1>3. /\ Fields \subseteq DOMAIN r /\ r.phase = "E" /\ r.rx_signal_present = FALSE /\ r.rx_trained = FALSE
      /\ Quiet(s, r) /\ SameTimers(s, r) /\ r.tx = s.tx /\ r.rx = s.rx /\ r.hears = s.hears /\ r.on = s.on
      /\ r.tx_hdlc = s.tx_hdlc /\ r.rx_hdlc = s.rx_hdlc /\ r.transmit = s.transmit /\ r.early = s.early
      /\ r.tx_end = s.tx_end /\ r.far_end_detected = s.far_end_detected
  BY <1>1, ZenonT(60) DEF Fields, Quiet, SameDoc, SameTimers
<1> HIDE DEF r, t
<1>4. /\ Fields \subseteq DOMAIN t /\ t.phase = "E" /\ t.rx_signal_present = FALSE /\ t.rx_trained = FALSE
      /\ t.tx = "pause" /\ t.rx = "none"
      /\ t.tx_hdlc = FALSE /\ t.rx_hdlc = FALSE
      /\ t.on = "off" /\ t.transmit = TRUE
      /\ t.hears = "no" /\ t.early \in BOOLEAN
      /\ t.tx_end = s.tx_end /\ t.far_end_detected = s.far_end_detected
  <2>1. Fields \subseteq DOMAIN t /\ t.phase = "E" /\ t.rx_signal_present = FALSE /\ t.rx_trained = FALSE
    BY <1>1, <1>2, <1>3 DEF SetTxType, SetRxType, Fields, Signals, Quiet
  <2>2. t.tx = "pause" /\ t.rx = "none"
    BY <1>1, <1>2, <1>3 DEF SetTxType, SetRxType, Fields, Signals, Quiet
  <2>3. t.tx_hdlc = FALSE /\ t.rx_hdlc = FALSE
    BY <1>1, <1>2, <1>3 DEF SetTxType, SetRxType, Fields, Signals, Quiet
  <2>4. t.on = "off" /\ t.transmit = TRUE
    BY <1>1, <1>2, <1>3 DEF SetTxType, SetRxType, Fields, Signals, Quiet
  <2>5. t.hears = "no" /\ t.early \in BOOLEAN
    BY <1>1, <1>2, <1>3 DEF SetTxType, SetRxType, Fields, Signals, Quiet
  <2>6. t.tx_end = s.tx_end /\ t.far_end_detected = s.far_end_detected
    BY <1>1, <1>2, <1>3 DEF SetTxType, SetRxType, Fields, Signals, Quiet
  <2> QED  BY <2>1, <2>2, <2>3, <2>4, <2>5, <2>6
<1>5. Quiet(s, t) /\ SameTimers(s, t)
  BY <1>1, <1>2, <1>3 DEF SetTxType, SetRxType, Fields, Quiet, SameDoc, SameTimers
<1>6. Radio(t)
  BY <1>1, <1>4 DEF Radio, Tuned, Modems, Phases, TxPhases, Listening, Talking, SendingFast, Receiving
<1>7. Signals(t)
  BY <1>1, <1>4 DEF Signals
<1> QED  BY <1>4, <1>5, <1>6, <1>7 DEF Moved, t

\* The end of the call.
LEMMA FinishPhase ==
  ASSUME NEW s, Fields \subseteq DOMAIN s, Tuned(s), Signals(s), s.tx_end \in BOOLEAN,
         s.phase # "CALL_FINISHED",
         s.phase \in Calling => s.rx_signal_present = FALSE
  PROVE  LET t == SetPhase(s, "CALL_FINISHED") IN
         Moved(s, t, "CALL_FINISHED") /\ SameTimers(s, t) /\ t.hears = "no" /\ t.tx_end = s.tx_end /\ t.far_end_detected = s.far_end_detected
<1> DEFINE r == [s EXCEPT !.rx_signal_present = @ /\ s.phase \in {"A_CED", "A_CNG"},
                           !.rx_trained = FALSE, !.phase = "CALL_FINISHED"]
           t == SetPhase(s, "CALL_FINISHED")
<1>1. /\ (s.phase # "CALL_FINISHED" /\ s.rx # "done" /\ s.tx # "done")
      /\ (s.rx = "none" => s.hears = "no" /\ s.rx_hdlc = FALSE)
      /\ ((s.rx_signal_present /\ s.phase \in {"A_CED", "A_CNG"}) = FALSE)
      /\ (s.early \in BOOLEAN)
  <2>1. s.phase # "CALL_FINISHED" /\ s.rx # "done" /\ s.tx # "done"
    BY DEF Tuned, Modems, Signals, Listening, Talking, SendingFast, Receiving, Hearing, Calling, Phases, TxPhases
  <2>2. s.rx = "none" => s.hears = "no" /\ s.rx_hdlc = FALSE
    BY DEF Tuned, Modems, Signals, Listening, Talking, SendingFast, Receiving, Hearing, Calling, Phases, TxPhases
  <2>3. (s.rx_signal_present /\ s.phase \in {"A_CED", "A_CNG"}) = FALSE
    BY DEF Tuned, Modems, Signals, Listening, Talking, SendingFast, Receiving, Hearing, Calling, Phases, TxPhases
  <2>4. s.early \in BOOLEAN
    BY DEF Tuned, Modems, Signals, Listening, Talking, SendingFast, Receiving, Hearing, Calling, Phases, TxPhases
  <2> QED  BY <2>1, <2>2, <2>3, <2>4
<1>2. t = SetTxType(SetRxType(r, "done", FALSE), "done", FALSE)
  BY <1>1 DEF SetPhase, Listening, Talking, SendingFast, Receiving
<1>3. /\ Fields \subseteq DOMAIN r /\ r.phase = "CALL_FINISHED" /\ r.rx_signal_present = FALSE /\ r.rx_trained = FALSE
      /\ Quiet(s, r) /\ SameTimers(s, r) /\ r.tx = s.tx /\ r.rx = s.rx /\ r.hears = s.hears /\ r.on = s.on
      /\ r.tx_hdlc = s.tx_hdlc /\ r.rx_hdlc = s.rx_hdlc /\ r.transmit = s.transmit /\ r.early = s.early
      /\ r.tx_end = s.tx_end /\ r.far_end_detected = s.far_end_detected
  BY <1>1, ZenonT(60) DEF Fields, Quiet, SameDoc, SameTimers
<1> HIDE DEF r, t
<1>4. /\ Fields \subseteq DOMAIN t /\ t.phase = "CALL_FINISHED" /\ t.rx_signal_present = FALSE /\ t.rx_trained = FALSE
      /\ t.tx = "done" /\ t.rx = "done"
      /\ t.tx_hdlc = FALSE /\ t.rx_hdlc = FALSE
      /\ t.on = "off" /\ t.transmit = FALSE
      /\ t.hears = "no" /\ t.early \in BOOLEAN
      /\ t.tx_end = s.tx_end /\ t.far_end_detected = s.far_end_detected
  <2>1. Fields \subseteq DOMAIN t /\ t.phase = "CALL_FINISHED" /\ t.rx_signal_present = FALSE /\ t.rx_trained = FALSE
    BY <1>1, <1>2, <1>3 DEF SetTxType, SetRxType, Fields, Signals, Quiet
  <2>2. t.tx = "done" /\ t.rx = "done"
    BY <1>1, <1>2, <1>3 DEF SetTxType, SetRxType, Fields, Signals, Quiet
  <2>3. t.tx_hdlc = FALSE /\ t.rx_hdlc = FALSE
    BY <1>1, <1>2, <1>3 DEF SetTxType, SetRxType, Fields, Signals, Quiet
  <2>4. t.on = "off" /\ t.transmit = FALSE
    BY <1>1, <1>2, <1>3 DEF SetTxType, SetRxType, Fields, Signals, Quiet
  <2>5. t.hears = "no" /\ t.early \in BOOLEAN
    BY <1>1, <1>2, <1>3 DEF SetTxType, SetRxType, Fields, Signals, Quiet
  <2>6. t.tx_end = s.tx_end /\ t.far_end_detected = s.far_end_detected
    BY <1>1, <1>2, <1>3 DEF SetTxType, SetRxType, Fields, Signals, Quiet
  <2> QED  BY <2>1, <2>2, <2>3, <2>4, <2>5, <2>6
<1>5. Quiet(s, t) /\ SameTimers(s, t)
  BY <1>1, <1>2, <1>3 DEF SetTxType, SetRxType, Fields, Quiet, SameDoc, SameTimers
<1>6. Radio(t)
  BY <1>1, <1>4 DEF Radio, Tuned, Modems, Phases, TxPhases, Listening, Talking, SendingFast, Receiving
<1>7. Signals(t)
  BY <1>1, <1>4 DEF Signals
<1> QED  BY <1>4, <1>5, <1>6, <1>7 DEF Moved, t

-----------------------------------------------------------------------------
(* The parts of an end that the operators leave alone                       *)

SameModems(s, t) ==
  /\ t.phase = s.phase /\ t.tx = s.tx /\ t.tx_hdlc = s.tx_hdlc /\ t.transmit = s.transmit
  /\ t.rx = s.rx /\ t.rx_hdlc = s.rx_hdlc /\ t.early = s.early /\ t.hears = s.hears
  /\ t.rx_trained = s.rx_trained /\ t.rx_signal_present = s.rx_signal_present

SameTalk(s, t) ==
  t.state = s.state /\ t.step = s.step /\ t.next_phase = s.next_phase

SameCall(s, t) ==
  /\ t.retries = s.retries /\ t.current_status = s.current_status /\ t.timer_t0_t1 = s.timer_t0_t1
  /\ t.far_end_detected = s.far_end_detected /\ SameTimers(s, t)

\* What the properties say of an end that the other end depends on.
SameBook(s, t) ==
  /\ t.page = s.page /\ t.ecm_block = s.ecm_block /\ t.ecm = s.ecm
  /\ t.image = s.image /\ t.got = s.got /\ t.in_message = s.in_message
  /\ t.tx_file = s.tx_file /\ t.rx_file = s.rx_file /\ t.ecm_allowed = s.ecm_allowed

\* A change that leaves the modems and the signal alone keeps what is said of them.
LEMMA ModemsKept ==
  ASSUME NEW s, NEW t, SameModems(s, t), Radio(s), Signals(s), t.on = s.on
  PROVE  Radio(t) /\ Signals(t)
<1>1. Radio(t)  BY DEF Radio, Tuned, Modems, SameModems
<1>2. Signals(t)  BY DEF Signals, SameModems
<1> QED  BY <1>1, <1>2

\* So does the start of the frames, on an end whose transmitter takes frames.
LEMMA ModemsKeptFrames ==
  ASSUME NEW s, NEW t, SameModems(s, t), Radio(s), Signals(s), t.on = "frames", s.tx_hdlc = TRUE
  PROVE  Radio(t) /\ Signals(t)
<1>1. Radio(t)  BY DEF Radio, Tuned, Modems, SameModems
<1>2. s.tx \in {"v21", "fast"}  BY DEF Radio, Tuned, Modems, Phases, TxPhases, Listening, Talking
<1>3. Signals(t)  BY <1>2 DEF Signals, SameModems
<1> QED  BY <1>1, <1>3

\* The side an end is on depends on the document, on T0/T1 and on the state.
LEMMA SidesKept ==
  ASSUME NEW s, NEW t, Sides(s), SameDoc(s, t), t.timer_t0_t1 = s.timer_t0_t1, t.state = s.state
  PROVE  Sides(t)
BY DEF Sides, SameDoc

\* The counts survive a change of the step, of the next phase and of the end of the signal.
LEMMA CountsKept ==
  ASSUME NEW s, NEW t, Counts(s), SameDoc(s, t), SameCall(s, t), t.state = s.state,
         t.step \in 0 .. 4, t.next_phase = s.next_phase, t.tx_end \in BOOLEAN
  PROVE  Counts(t)
BY DEF Counts, SameDoc, SameCall, SameTimers

-----------------------------------------------------------------------------
(* The end of a frame, when there is more to come                           *)

\* What an end is when it wants a frame.
Wants(s) == [s EXCEPT !.buffer = NoFrame, !.on = "frames"]

\* Wants takes the buffered frame, starts the frames, and changes nothing else.
LEMMA WantsFacts ==
  ASSUME NEW s, Fields \subseteq DOMAIN s
  PROVE  LET r == Wants(s) IN
         /\ Fields \subseteq DOMAIN r /\ r.buffer = NoFrame /\ r.on = "frames" /\ r.tx_end = s.tx_end
         /\ SameModems(s, r) /\ SameTalk(s, r) /\ SameCall(s, r) /\ SameDoc(s, r)
BY DEF Wants, Fields, SameModems, SameTalk, SameCall, SameDoc, SameTimers

\* The modems stay as the phase wants them while a frame is taken.
LEMMA WantsRadio ==
  ASSUME NEW s, Fields \subseteq DOMAIN s, Radio(s), Signals(s), s.tx_hdlc = TRUE
  PROVE  LET r == Wants(s) IN Radio(r) /\ Signals(r)
BY WantsFacts, ModemsKeptFrames

\* The frame of a command is followed by the end of the signal.
LEMMA SendNullFacts ==
  ASSUME NEW r, Fields \subseteq DOMAIN r
  PROVE  LET t == SendNull(Stepped(r)) IN
         /\ Fields \subseteq DOMAIN t /\ t.step = r.step + 1 /\ t.tx_end = TRUE
         /\ t.state = r.state /\ t.next_phase = r.next_phase /\ t.buffer = r.buffer /\ t.on = r.on
         /\ SameModems(r, t) /\ SameCall(r, t) /\ SameDoc(r, t)
BY DEF SendNull, Stepped, Fields, SameModems, SameCall, SameDoc, SameTimers

\* The transmitter takes a frame.
LEMMA SendFrameFacts ==
  ASSUME NEW r, NEW f, Fields \subseteq DOMAIN r, r.buffer = NoFrame
  PROVE  LET t == SendFrame(Stepped(r), f) IN
         /\ Fields \subseteq DOMAIN t /\ t.step = r.step + 1 /\ t.tx_end = FALSE /\ t.buffer = f
         /\ t.state = r.state /\ t.next_phase = r.next_phase /\ t.on = r.on
         /\ SameModems(r, t) /\ SameCall(r, t) /\ SameDoc(r, t)
BY DEF SendFrame, Stepped, Fields, SameModems, SameCall, SameDoc, SameTimers

\* All that is left of an end that sends the last frame of a signal is its end.
LEMMA CommandSent ==
  ASSUME NEW s, EndInv(s), s.tx_hdlc = TRUE, s.step \in 0 .. 3
  PROVE  LET t == SendNull(Stepped(Wants(s))) IN
         /\ Fields \subseteq DOMAIN t /\ Radio(t) /\ Signals(t) /\ Sides(t) /\ Counts(t)
         /\ t.state = s.state /\ t.step = s.step + 1 /\ t.phase = s.phase /\ t.next_phase = s.next_phase
         /\ Ended(t) /\ SameCall(s, t) /\ SameDoc(s, t) /\ t.hears = s.hears
<1> DEFINE r == Wants(s)
           t == SendNull(Stepped(r))
<1>1. Fields \subseteq DOMAIN s /\ Radio(s) /\ Signals(s) /\ Sides(s) /\ Counts(s)  BY DEF EndInv
<1>2. /\ Fields \subseteq DOMAIN r /\ r.buffer = NoFrame /\ r.on = "frames"
      /\ SameModems(s, r) /\ SameTalk(s, r) /\ SameCall(s, r) /\ SameDoc(s, r)
  BY <1>1, WantsFacts
<1>3. Radio(r) /\ Signals(r)  BY <1>1, WantsRadio
<1> HIDE DEF r
<1>4. /\ Fields \subseteq DOMAIN t /\ t.step = r.step + 1 /\ t.tx_end = TRUE
      /\ t.state = r.state /\ t.next_phase = r.next_phase /\ t.buffer = r.buffer /\ t.on = r.on
      /\ SameModems(r, t) /\ SameCall(r, t) /\ SameDoc(r, t)
  BY <1>2, SendNullFacts
<1> HIDE DEF t
<1>5. Radio(t) /\ Signals(t)  BY <1>3, <1>4, ModemsKept
<1>6. SameCall(s, t) /\ SameDoc(s, t)  BY <1>2, <1>4 DEF SameCall, SameDoc, SameTimers
<1>7. t.state = s.state /\ t.step = s.step + 1 /\ t.next_phase = s.next_phase  BY <1>2, <1>4 DEF SameTalk
<1>8. t.phase = s.phase /\ t.hears = s.hears  BY <1>2, <1>4 DEF SameModems
<1>9. Sides(t)  BY <1>1, <1>6, <1>7, SidesKept DEF SameCall
<1>10. Counts(t)
  <2>1. t.step \in 0 .. 4  BY <1>7
  <2> QED  BY <1>1, <1>4, <1>6, <1>7, <2>1, CountsKept
<1>11. Ended(t)  BY <1>2, <1>4 DEF Ended, Empty
<1> QED  BY <1>4, <1>5, <1>6, <1>7, <1>8, <1>9, <1>10, <1>11 DEF r, t

-----------------------------------------------------------------------------
(* SendComplete                                                             *)

\* What an end is when its signal has ended.
Stops(s) == [s EXCEPT !.transmit = FALSE, !.on = "off", !.tx_end = FALSE]

\* The end of a signal, or a frame that was sent again after its end.
Through(s, r) ==
  /\ Fields \subseteq DOMAIN r /\ Tuned(r) /\ Signals(r) /\ r.buffer = NoFrame /\ r.tx_end = FALSE
  /\ SameTalk(s, r) /\ SameCall(s, r) /\ SameDoc(s, r) /\ r.phase = s.phase /\ r.hears = s.hears

\* A frame has gone through, and the end of the signal has not been asked for.
LEMMA WantsThrough ==
  ASSUME NEW s, Fields \subseteq DOMAIN s, Radio(s), Signals(s), s.tx_hdlc = TRUE, s.tx_end = FALSE
  PROVE  Through(s, Wants(s))
<1> DEFINE r == Wants(s)
<1>1. /\ Fields \subseteq DOMAIN r /\ r.buffer = NoFrame /\ r.tx_end = s.tx_end
      /\ SameModems(s, r) /\ SameTalk(s, r) /\ SameCall(s, r) /\ SameDoc(s, r)
  BY WantsFacts
<1>2. Radio(r) /\ Signals(r)  BY WantsRadio
<1> HIDE DEF r
<1>3. Tuned(r)  BY <1>2 DEF Radio
<1>4. r.phase = s.phase /\ r.hears = s.hears  BY <1>1 DEF SameModems
<1>5. Through(s, r)  BY <1>1, <1>2, <1>3, <1>4 DEF Through
<1> QED  BY <1>5 DEF r

\* The signal has ended after its last frame: the end is silent.
LEMMA StopsThrough ==
  ASSUME NEW s, Fields \subseteq DOMAIN s, Radio(s), Signals(s), s.buffer = NoFrame
  PROVE  Through(s, Stops(s)) /\ Stops(s).on = "off"
<1> DEFINE r == Stops(s)
<1>1. /\ Fields \subseteq DOMAIN r /\ r.buffer = s.buffer /\ r.tx_end = FALSE /\ r.transmit = FALSE /\ r.on = "off"
      /\ r.phase = s.phase /\ r.tx = s.tx /\ r.tx_hdlc = s.tx_hdlc /\ r.rx = s.rx /\ r.rx_hdlc = s.rx_hdlc
      /\ r.early = s.early /\ r.hears = s.hears
      /\ r.rx_trained = s.rx_trained /\ r.rx_signal_present = s.rx_signal_present
      /\ SameTalk(s, r) /\ SameCall(s, r) /\ SameDoc(s, r)
  BY DEF Stops, Fields, SameTalk, SameCall, SameDoc, SameTimers
<1> HIDE DEF r
<1>2. Tuned(r)  BY <1>1 DEF Radio, Tuned, Modems
<1>3. Signals(r)  BY <1>1 DEF Signals
<1>4. Through(s, r)  BY <1>1, <1>2, <1>3 DEF Through
<1> QED  BY <1>1, <1>4 DEF r

\* How the state of an end follows from what it has sent.
Onward(s, t) ==
  \/ t.state = s.state
  \/ s.state = "ANSWERING" /\ t.state = "R"
  \/ s.state = "D" /\ t.state = "D_TCF"
  \/ s.state = "D_TCF" /\ t.state = "D_POST_TCF"
  \/ s.state = "I" /\ t.state = "II_Q"
  \/ s.state = "IV" /\ t.state \in {"IV_PPS_NULL", "IV_PPS_Q"}
  \/ s.state = "F_CFR" /\ t.state = "F_DOC"
  \/ s.state \in AnswerStates \cup {"F_POST_RCP_MCF", "F_POST_RCP_PPR"} /\ s.next_rx_step = "MPS" /\ t.state = "F_DOC"
  \/ s.state \in AnswerStates \cup {"F_POST_RCP_MCF", "F_POST_RCP_PPR", "C"} /\ t.state = "B"
  \/ s.state = "B" /\ t.state = "CALL_FINISHED"

Told(s, t) ==
  /\ EndInv(t) /\ SameBook(s, t) /\ Onward(s, t) /\ t.hears = "no" /\ t.buffer.type \notin {"MCF", "CTC"}
  /\ t.state \in AnswerStates => t.next_rx_step = s.next_rx_step

\* An end whose document is the same has the same book.
LEMMA BookOfDoc ==
  ASSUME NEW s, NEW t, SameDoc(s, t)
  PROVE  SameBook(s, t)
BY DEF SameDoc, SameBook

\* An end that has asked waits for the answer.
LEMMA Waits ==
  ASSUME NEW s, NEW r, NEW phase \in Listening, EndInv(s), Through(s, r),
         s.phase \in Talking \cup SendingFast
  PROVE  LET t == Wait(r, phase) IN
         /\ Fields \subseteq DOMAIN t /\ Radio(t) /\ Signals(t) /\ t.phase = phase /\ t.on = "off"
         /\ t.hears = "no" /\ t.buffer = NoFrame /\ t.tx_end = FALSE
         /\ t.timer_t2_t4 = TRUE /\ t.timer_is_t4 = TRUE /\ SameDoc(s, t)
         /\ t.state = s.state /\ t.step = s.step /\ t.next_phase = s.next_phase
         /\ t.retries = s.retries /\ t.current_status = s.current_status
         /\ t.timer_t0_t1 = s.timer_t0_t1 /\ t.far_end_detected = s.far_end_detected /\ t.waited = s.waited
<1> DEFINE a == SetPhase(r, phase)
           t == Wait(r, phase)
<1>1. /\ Fields \subseteq DOMAIN r /\ Tuned(r) /\ Signals(r) /\ r.buffer = NoFrame /\ r.tx_end = FALSE
      /\ SameTalk(s, r) /\ SameCall(s, r) /\ SameDoc(s, r) /\ r.phase = s.phase
  BY DEF Through
<1>2. /\ Moved(r, a, phase) /\ SameTimers(r, a) /\ a.hears = "no" /\ a.tx_end = r.tx_end
      /\ a.far_end_detected = r.far_end_detected
  BY <1>1, ListenPhase
<1> HIDE DEF a
<1>3. t = [a EXCEPT !.timer_t2_t4 = TRUE, !.timer_is_t4 = TRUE]  BY DEF Wait, StartT4, a
<1>4. Fields \subseteq DOMAIN a /\ Radio(a) /\ Signals(a) /\ Quiet(r, a) /\ a.phase = phase /\ a.on = "off"
  BY <1>2 DEF Moved
<1> HIDE DEF t
<1>5. /\ Fields \subseteq DOMAIN t /\ SameModems(a, t) /\ t.on = a.on /\ t.tx_end = a.tx_end
      /\ t.timer_t2_t4 = TRUE /\ t.timer_is_t4 = TRUE /\ t.waited = a.waited
      /\ t.far_end_detected = a.far_end_detected
  BY <1>3, <1>4 DEF Fields, SameModems
<1>6. Quiet(a, t)  BY <1>3, <1>4 DEF Fields, Quiet, SameDoc
<1>7. Radio(t) /\ Signals(t)  BY <1>4, <1>5, ModemsKept
<1>8. SameDoc(s, t)  BY <1>1, <1>4, <1>6 DEF Quiet, SameDoc
<1>9. t.phase = phase /\ t.hears = "no"  BY <1>2, <1>4, <1>5 DEF SameModems
<1>10. /\ t.buffer = NoFrame /\ t.state = s.state /\ t.step = s.step /\ t.next_phase = s.next_phase
       /\ t.retries = s.retries /\ t.current_status = s.current_status /\ t.timer_t0_t1 = s.timer_t0_t1
  BY <1>1, <1>4, <1>6 DEF Quiet, SameTalk, SameCall
<1>11. t.tx_end = FALSE /\ t.on = "off" /\ t.far_end_detected = s.far_end_detected /\ t.waited = s.waited
  BY <1>1, <1>2, <1>4, <1>5 DEF SameCall, SameTimers
<1> QED  BY <1>5, <1>7, <1>8, <1>9, <1>10, <1>11 DEF t

\* After the command, in the states that wait for the answer in D_RX.
LEMMA CommandWaits ==
  ASSUME NEW s, NEW r, EndInv(s), Through(s, r), s.step = 1, Free(s),
         s.state \in {"II_Q", "IV_PPS_NULL", "IV_PPS_Q"}, s.phase = "D_TX"
  PROVE  Told(s, Wait(r, "D_RX")) /\ Wait(r, "D_RX").on = "off"
<1> DEFINE t == Wait(r, "D_RX")
<1>1. /\ Fields \subseteq DOMAIN t /\ Radio(t) /\ Signals(t) /\ t.phase = "D_RX" /\ t.on = "off"
      /\ t.hears = "no" /\ t.buffer = NoFrame /\ t.tx_end = FALSE
      /\ t.timer_t2_t4 = TRUE /\ t.timer_is_t4 = TRUE /\ SameDoc(s, t)
      /\ t.state = s.state /\ t.step = s.step /\ t.next_phase = s.next_phase
      /\ t.retries = s.retries /\ t.current_status = s.current_status
      /\ t.timer_t0_t1 = s.timer_t0_t1 /\ t.far_end_detected = s.far_end_detected /\ t.waited = s.waited
  BY Waits, ZenonT(60) DEF Listening, Talking
<1> HIDE DEF t
<1>2. Mode(s) /\ Sides(s) /\ Counts(s)  BY DEF EndInv
<1>3. Asked(t, "D_RX")  BY <1>1 DEF Asked, Free, Empty
<1>4. Mode(t)  BY <1>1, <1>2, <1>3 DEF Mode, InII_Q, InIV_PPS, SameDoc, CheckNextTxStep
<1>5. Sides(t)  BY <1>1, <1>2, SidesKept
<1>6. Counts(t)  BY <1>1, <1>2 DEF Counts, SameDoc
<1>7. Carries(t)  BY <1>1 DEF Carries, NoFrame
<1>8. EndInv(t)  BY <1>1, <1>4, <1>5, <1>6, <1>7 DEF EndInv
<1> QED  BY <1>1, <1>8, BookOfDoc DEF Told, Onward, NoFrame, AnswerStates, t

\* After FTT.
LEMMA FttWaits ==
  ASSUME NEW s, NEW r, EndInv(s), Through(s, r), s.step = 1, Free(s),
         s.state = "F_FTT", s.phase = "B_TX"
  PROVE  Told(s, Wait(r, "B_RX")) /\ Wait(r, "B_RX").on = "off"
<1> DEFINE t == Wait(r, "B_RX")
<1>1. /\ Fields \subseteq DOMAIN t /\ Radio(t) /\ Signals(t) /\ t.phase = "B_RX" /\ t.on = "off"
      /\ t.hears = "no" /\ t.buffer = NoFrame /\ t.tx_end = FALSE
      /\ t.timer_t2_t4 = TRUE /\ t.timer_is_t4 = TRUE /\ SameDoc(s, t)
      /\ t.state = s.state /\ t.step = s.step /\ t.next_phase = s.next_phase
      /\ t.retries = s.retries /\ t.current_status = s.current_status
      /\ t.timer_t0_t1 = s.timer_t0_t1 /\ t.far_end_detected = s.far_end_detected /\ t.waited = s.waited
  BY Waits, ZenonT(60) DEF Listening, Talking
<1> HIDE DEF t
<1>2. Mode(s) /\ Sides(s) /\ Counts(s)  BY DEF EndInv
<1>3. Asked(t, "B_RX")  BY <1>1 DEF Asked, Free, Empty
<1>4. Mode(t)  BY <1>1, <1>2, <1>3 DEF Mode, InF_FTT
<1>5. Sides(t)  BY <1>1, <1>2, SidesKept
<1>6. Counts(t)  BY <1>1, <1>2 DEF Counts, SameDoc
<1>7. Carries(t)  BY <1>1 DEF Carries, NoFrame
<1>8. EndInv(t)  BY <1>1, <1>4, <1>5, <1>6, <1>7 DEF EndInv
<1> QED  BY <1>1, <1>8, BookOfDoc DEF Told, Onward, NoFrame, AnswerStates, t

\* After DIS.
LEMMA DisWaits ==
  ASSUME NEW s, NEW r, EndInv(s), Through(s, r), s.step = 3, Free(s),
         s.state = "R", s.phase = "B_TX"
  PROVE  Told(s, Wait(r, "B_RX")) /\ Wait(r, "B_RX").on = "off"
<1> DEFINE t == Wait(r, "B_RX")
<1>1. /\ Fields \subseteq DOMAIN t /\ Radio(t) /\ Signals(t) /\ t.phase = "B_RX" /\ t.on = "off"
      /\ t.hears = "no" /\ t.buffer = NoFrame /\ t.tx_end = FALSE
      /\ t.timer_t2_t4 = TRUE /\ t.timer_is_t4 = TRUE /\ SameDoc(s, t)
      /\ t.state = s.state /\ t.step = s.step /\ t.next_phase = s.next_phase
      /\ t.retries = s.retries /\ t.current_status = s.current_status
      /\ t.timer_t0_t1 = s.timer_t0_t1 /\ t.far_end_detected = s.far_end_detected /\ t.waited = s.waited
  BY Waits, ZenonT(60) DEF Listening, Talking
<1> HIDE DEF t
<1>2. Mode(s) /\ Sides(s) /\ Counts(s) /\ Carries(s)  BY DEF EndInv
<1>3. InR(t)  BY <1>1 DEF InR, Free, Empty
<1>4. Mode(t)  BY <1>1, <1>2, <1>3 DEF Mode
<1>5. Sides(t)  BY <1>1, <1>2, SidesKept
<1>6. Counts(t)  BY <1>1, <1>2 DEF Counts, SameDoc
<1>7. Carries(t)  BY <1>1, <1>2 DEF Carries, NoFrame, SameDoc
<1>8. EndInv(t)  BY <1>1, <1>4, <1>5, <1>6, <1>7 DEF EndInv
<1> QED  BY <1>1, <1>8, BookOfDoc DEF Told, Onward, NoFrame, AnswerStates, t

\* set_state resets the step when the state changes, and touches nothing else.
LEMMA StateSet ==
  ASSUME NEW s, NEW state, Fields \subseteq DOMAIN s
  PROVE  LET t == SetState(s, state) IN
         /\ Fields \subseteq DOMAIN t /\ t.state = state /\ (s.state # state => t.step = 0)
         /\ (s.state = state => t.step = s.step)
         /\ SameModems(s, t) /\ SameCall(s, t) /\ SameDoc(s, t)
         /\ t.buffer = s.buffer /\ t.next_phase = s.next_phase /\ t.on = s.on /\ t.tx_end = s.tx_end
<1> DEFINE t == SetState(s, state)
<1>1. Fields \subseteq DOMAIN t /\ t.state = state /\ (s.state # state => t.step = 0)
      /\ (s.state = state => t.step = s.step)
  BY DEF SetState, Fields
<1>2. SameModems(s, t)  BY DEF SetState, Fields, SameModems
<1>3. SameCall(s, t)  BY DEF SetState, Fields, SameCall, SameTimers
<1>4. SameDoc(s, t)  BY DEF SetState, Fields, SameDoc
<1>5. t.buffer = s.buffer /\ t.next_phase = s.next_phase /\ t.on = s.on /\ t.tx_end = s.tx_end
  BY DEF SetState, Fields
<1> QED  BY <1>1, <1>2, <1>3, <1>4, <1>5

\* send_frame fills the empty buffer and forgets that the end was asked for.
LEMMA FrameTaken ==
  ASSUME NEW s, NEW f, Fields \subseteq DOMAIN s, s.buffer = NoFrame
  PROVE  LET t == SendFrame(s, f) IN
         /\ Fields \subseteq DOMAIN t /\ t.tx_end = FALSE /\ t.buffer = f
         /\ SameModems(s, t) /\ SameTalk(s, t) /\ SameCall(s, t) /\ SameDoc(s, t) /\ t.on = s.on
BY DEF SendFrame, Fields, SameModems, SameTalk, SameCall, SameDoc, SameTimers

\* What an end hears when its receiver is off.
LEMMA TalkersHearNothing ==
  ASSUME NEW s, Tuned(s), Signals(s), s.phase \in Talking \cup SendingFast \cup {"E", "CALL_FINISHED"}
  PROVE  s.hears = "no" /\ s.rx_signal_present = FALSE
BY DEF Tuned, Modems, Signals, Talking, SendingFast

\* The next page, or the first.
LEMMA NextPageFacts ==
  ASSUME NEW s, NEW r, EndInv(s), Through(s, r), s.phase \in Talking, Free(s),
         s.state \in ReceiveStates \ {"F_DOC"}
  PROVE  LET t == NextPage(r) IN
         /\ EndInv(t) /\ SameDoc(s, t) /\ t.state = "F_DOC" /\ t.hears = "no" /\ t.buffer = NoFrame
         /\ t.on = "off" /\ t.timer_t2_t4 = TRUE
<1> DEFINE a == SetState(r, "F_DOC")
           phase == IF a.ecm THEN "C_ECM_RX" ELSE "C_NON_ECM_RX"
           t == SetPhase(a, phase)
<1>1. /\ Fields \subseteq DOMAIN r /\ Tuned(r) /\ Signals(r) /\ r.buffer = NoFrame /\ r.tx_end = FALSE
      /\ SameTalk(s, r) /\ SameCall(s, r) /\ SameDoc(s, r) /\ r.phase = s.phase /\ r.hears = s.hears
  BY DEF Through
<1>2. Mode(s) /\ Sides(s) /\ Counts(s) /\ Carries(s)  BY DEF EndInv
<1>3. s.hears = "no"  BY TalkersHearNothing DEF EndInv, Radio
<1>4. /\ Fields \subseteq DOMAIN a /\ a.state = "F_DOC" /\ a.step = 0
      /\ SameModems(r, a) /\ SameCall(r, a) /\ SameDoc(r, a)
      /\ a.buffer = NoFrame /\ a.next_phase = "IDLE" /\ a.on = r.on /\ a.tx_end = FALSE
  BY <1>1, StateSet DEF SameTalk, Free, ReceiveStates
<1>5. NextPage(r) = t
  BY <1>4 DEF NextPage, SameDoc
<1> HIDE DEF a
<1>6. Tuned(a) /\ Signals(a) /\ a.phase = s.phase /\ a.hears = "no"
  BY <1>1, <1>3, <1>4 DEF SameModems, Tuned, Modems, Signals
<1>7. Moved(a, t, phase) /\ t.timer_t2_t4 = TRUE /\ t.timer_is_t4 = FALSE /\ t.waited = FALSE
         /\ t.hears = a.hears /\ t.tx_end = a.tx_end /\ t.far_end_detected = a.far_end_detected
  <2>1. a.tx_end \in BOOLEAN /\ a.phase \in Talking \cup Listening  BY <1>4, <1>6
  <2> QED  BY <1>4, <1>6, <2>1, ListenEcm, ListenNonEcm
<1> HIDE DEF t, phase
<1>8. Fields \subseteq DOMAIN t /\ Radio(t) /\ Signals(t) /\ Quiet(a, t) /\ t.phase = phase /\ t.on = "off"
  BY <1>7 DEF Moved
<1>9. SameDoc(s, t)  BY <1>1, <1>4, <1>8 DEF Quiet, SameDoc
<1>10. /\ t.state = "F_DOC" /\ t.step = 0 /\ t.buffer = NoFrame /\ t.next_phase = "IDLE"
       /\ t.retries = s.retries /\ t.current_status = s.current_status /\ t.timer_t0_t1 = s.timer_t0_t1
  BY <1>1, <1>4, <1>8 DEF Quiet, SameCall
<1>11. phase = IF t.ecm THEN "C_ECM_RX" ELSE "C_NON_ECM_RX"
  BY <1>8 DEF Quiet, SameDoc, phase
<1>12. Mode(t)
  <2>1. InF_DOC(t)  BY <1>7, <1>8, <1>10, <1>11 DEF InF_DOC, Free, Empty
  <2> QED  BY <1>10, <2>1 DEF Mode, States
<1>13. Sides(t)
  <2>1. s.timer_t0_t1 # TRUE  BY <1>2 DEF Sides, ReceiveStates, AnswerStates
  <2>2. s.rx_file = TRUE /\ s.ecm = s.ecm_allowed  BY <1>2 DEF Sides
  <2>3. "F_DOC" \in ReceiveStates /\ "F_DOC" \notin SendStates  BY DEF ReceiveStates, SendStates, AnswerStates
  <2> QED  BY <1>2, <1>9, <1>10, <2>1, <2>2, <2>3 DEF Sides, SameDoc
<1>14. Counts(t)
  <2>1. t.tx_end \in BOOLEAN /\ t.timer_t2_t4 \in BOOLEAN /\ t.timer_is_t4 \in BOOLEAN /\ t.waited \in BOOLEAN
        /\ t.far_end_detected \in BOOLEAN /\ t.next_phase \in Phases \cup {"IDLE"} /\ t.step \in 0 .. 4
    <3>1. t.far_end_detected = s.far_end_detected  BY <1>1, <1>4, <1>7 DEF SameCall
    <3>2. s.far_end_detected \in BOOLEAN  BY <1>2 DEF Counts
    <3>3. t.tx_end = FALSE  BY <1>4, <1>7
    <3>4. t.timer_t2_t4 \in BOOLEAN /\ t.timer_is_t4 \in BOOLEAN /\ t.waited \in BOOLEAN  BY <1>7
    <3>5. t.next_phase \in Phases \cup {"IDLE"} /\ t.step \in 0 .. 4  BY <1>10
    <3> QED  BY <3>1, <3>2, <3>3, <3>4, <3>5
  <2>2. s.state \notin Over /\ t.state \notin SendStates  BY <1>10 DEF ReceiveStates, Over, SendStates, AnswerStates
  <2> QED  BY <1>2, <1>9, <1>10, <2>1, <2>2 DEF Counts, SameDoc
<1>15. Carries(t)  BY <1>10 DEF Carries, NoFrame
<1>16. EndInv(t)  BY <1>8, <1>12, <1>13, <1>14, <1>15 DEF EndInv
<1> QED  BY <1>4, <1>5, <1>6, <1>7, <1>8, <1>9, <1>10, <1>16

\* The end of the call.
LEMMA DisconnectFacts ==
  ASSUME NEW s, Fields \subseteq DOMAIN s, Tuned(s), Signals(s), Sides(s), Counts(s),
         s.phase \notin {"E", "CALL_FINISHED"}, s.phase \in Calling => s.rx_signal_present = FALSE
  PROVE  LET t == Disconnect(s) IN
         /\ Fields \subseteq DOMAIN t /\ Radio(t) /\ Signals(t) /\ Mode(t) /\ Sides(t) /\ Counts(t)
         /\ SameDoc(s, t) /\ t.state = "B" /\ t.hears = "no" /\ t.buffer = s.buffer /\ t.on = "off"
         /\ t.phase = "E"
<1> DEFINE r == [s EXCEPT !.timer_t0_t1 = FALSE, !.timer_t2_t4 = FALSE]
           a == SetPhase(r, "E")
           t == SetState(a, "B")
<1>1. /\ Fields \subseteq DOMAIN r /\ r.timer_t0_t1 = FALSE /\ r.timer_t2_t4 = FALSE /\ SameModems(s, r)
      /\ r.on = s.on /\ r.tx_end = s.tx_end /\ r.buffer = s.buffer /\ SameTalk(s, r)
      /\ r.retries = s.retries /\ r.current_status = s.current_status /\ r.far_end_detected = s.far_end_detected
      /\ r.timer_is_t4 = s.timer_is_t4 /\ r.waited = s.waited
  BY DEF Fields, SameModems, SameTalk
<1>2. SameDoc(s, r)  BY DEF Fields, SameDoc
<1> HIDE DEF r
<1>3. Tuned(r) /\ Signals(r) /\ r.phase = s.phase /\ r.rx_signal_present = s.rx_signal_present
  BY <1>1 DEF SameModems, Tuned, Modems, Signals
<1>4. Moved(r, a, "E") /\ SameTimers(r, a) /\ a.hears = "no" /\ a.tx_end = r.tx_end /\ a.far_end_detected = r.far_end_detected
  <2>1. r.tx_end \in BOOLEAN  BY <1>1 DEF Counts
  <2> QED  BY <1>1, <1>3, <2>1, PausePhase
<1> HIDE DEF a
<1>5. Fields \subseteq DOMAIN a /\ Radio(a) /\ Signals(a) /\ Quiet(r, a) /\ a.phase = "E" /\ a.on = "off"
  BY <1>4 DEF Moved
<1>6. /\ Fields \subseteq DOMAIN t /\ t.state = "B" /\ (a.state # "B" => t.step = 0)
      /\ (a.state = "B" => t.step = a.step)
      /\ SameModems(a, t) /\ SameCall(a, t) /\ SameDoc(a, t)
      /\ t.buffer = a.buffer /\ t.next_phase = a.next_phase /\ t.on = a.on /\ t.tx_end = a.tx_end
  BY <1>5, StateSet
<1>7. Disconnect(s) = t  BY DEF Disconnect, t, a, r
<1> HIDE DEF t
<1>8. Radio(t) /\ Signals(t) /\ t.phase = "E" /\ t.hears = "no"
  BY <1>4, <1>5, <1>6, ModemsKept DEF SameModems
<1>9. SameDoc(s, t)  BY <1>2, <1>5, <1>6 DEF Quiet, SameDoc
<1>10. /\ t.buffer = s.buffer /\ t.next_phase = s.next_phase /\ t.retries = s.retries
       /\ t.current_status = s.current_status /\ t.timer_t0_t1 = FALSE /\ t.timer_t2_t4 = FALSE
       /\ t.far_end_detected = s.far_end_detected
       /\ t.timer_is_t4 = s.timer_is_t4 /\ t.waited = s.waited /\ t.tx_end = s.tx_end /\ t.on = "off"
  BY <1>1, <1>4, <1>5, <1>6 DEF Quiet, SameTalk, SameCall, SameTimers
<1>11. t.step \in 0 .. 4
  <2>1. s.step \in 0 .. 4  BY DEF Counts
  <2> QED  BY <1>1, <1>5, <1>6, <2>1 DEF Quiet, SameTalk
<1>12. Mode(t)
  <2>1. InB(t)  BY <1>8, <1>10 DEF InB, NoTimer
  <2> QED  BY <1>6, <2>1 DEF Mode, States
<1>13. Sides(t)
  BY <1>6, <1>9, <1>10 DEF Sides, SameDoc, SendStates, ReceiveStates, AnswerStates
<1>14. Counts(t)
  <2>1. t.state \in Over /\ t.state \notin SendStates  BY <1>6 DEF Over, SendStates
  <2> QED  BY <1>9, <1>10, <1>11, <2>1 DEF Counts, SameDoc
<1> QED  BY <1>6, <1>7, <1>8, <1>9, <1>10, <1>12, <1>13, <1>14

CommandStates ==
  AnswerStates \cup {"F_CFR", "F_FTT", "F_POST_RCP_PPR", "F_POST_RCP_MCF", "II_Q", "IV_PPS_NULL", "IV_PPS_Q", "C"}

\* The phase in which a command, or an answer, is sent.
CommandPhase(s) == IF s.state \in {"F_CFR", "F_FTT"} THEN "B_TX" ELSE "D_TX"

\* A signal that has ended, in a state of a page that was judged.
LEMMA AnswerEnds ==
  ASSUME NEW s, NEW r, EndInv(s), Through(s, r), s.step = 1, Free(s), s.phase = "D_TX",
         s.state \in AnswerStates \cup {"F_POST_RCP_PPR", "F_POST_RCP_MCF"}
  PROVE  LET t == SendComplete(r) IN Told(s, t) /\ t.on = "off" /\ t.state # "F_POST_RCP_PPR"
<1> DEFINE t == SendComplete(r)
<1>1. /\ Fields \subseteq DOMAIN r /\ Tuned(r) /\ Signals(r) /\ r.buffer = NoFrame /\ r.tx_end = FALSE
      /\ SameTalk(s, r) /\ SameCall(s, r) /\ SameDoc(s, r) /\ r.phase = s.phase /\ r.hears = s.hears
  BY DEF Through
<1>2. r.state = s.state /\ r.step = 1 /\ r.next_rx_step = s.next_rx_step  BY <1>1 DEF SameTalk, SameDoc
<1>3. t = IF r.next_rx_step = "MPS" THEN NextPage(r) ELSE Disconnect(r)
  BY <1>2 DEF SendComplete, AnswerStates
<1>4. Mode(s) /\ Sides(s) /\ Counts(s) /\ Carries(s)  BY DEF EndInv
<1> HIDE DEF t
<1>5. CASE s.next_rx_step = "MPS"
  <2>1. /\ EndInv(t) /\ SameDoc(s, t) /\ t.state = "F_DOC" /\ t.hears = "no" /\ t.buffer = NoFrame
        /\ t.on = "off" /\ t.timer_t2_t4 = TRUE
    BY <1>2, <1>3, <1>5, NextPageFacts DEF ReceiveStates, AnswerStates, Talking
  <2>2. Onward(s, t)  BY <1>5, <2>1 DEF Onward
  <2>3. t.buffer.type \notin {"MCF", "CTC"} /\ t.state \notin AnswerStates  BY <2>1 DEF NoFrame, AnswerStates
  <2>4. SameBook(s, t)  BY <2>1, BookOfDoc
  <2> QED  BY <2>1, <2>2, <2>3, <2>4 DEF Told, t
<1>6. CASE s.next_rx_step # "MPS"
  <2>1. Sides(r)  BY <1>1, <1>4, SidesKept DEF SameTalk, SameCall
  <2>2. Counts(r)
    <3>1. r.step \in 0 .. 4  BY <1>2
    <3>2. r.tx_end \in BOOLEAN  BY <1>1
    <3>3. r.state = s.state /\ r.next_phase = s.next_phase  BY <1>1 DEF SameTalk
    <3> QED  BY <1>1, <1>4, <3>1, <3>2, <3>3, CountsKept
  <2>3. r.phase \notin {"E", "CALL_FINISHED"} /\ r.phase \notin Calling  BY <1>1 DEF Calling
  <2>4. /\ Fields \subseteq DOMAIN t /\ Radio(t) /\ Signals(t) /\ Mode(t) /\ Sides(t) /\ Counts(t)
        /\ SameDoc(r, t) /\ t.state = "B" /\ t.hears = "no" /\ t.buffer = r.buffer /\ t.on = "off"
    BY <1>1, <1>2, <1>3, <1>6, <2>1, <2>2, <2>3, DisconnectFacts
  <2>5. Carries(t)  BY <1>1, <2>4 DEF Carries, NoFrame
  <2>6. EndInv(t)  BY <2>4, <2>5 DEF EndInv
  <2>7. SameDoc(s, t)  BY <1>1, <2>4 DEF SameDoc
  <2>8. Onward(s, t)  BY <2>4 DEF Onward
  <2>9. t.buffer.type \notin {"MCF", "CTC"} /\ t.state \notin AnswerStates  BY <1>1, <2>4 DEF NoFrame, AnswerStates
  <2>10. SameBook(s, t)  BY <2>7, BookOfDoc
  <2> QED  BY <2>4, <2>6, <2>8, <2>9, <2>10 DEF Told, t
<1> QED  BY <1>5, <1>6 DEF t

\* After DCN.
LEMMA DcnEnds ==
  ASSUME NEW s, NEW r, EndInv(s), Through(s, r), s.step = 1, s.phase = "D_TX", s.state = "C"
  PROVE  LET t == SendComplete(r) IN Told(s, t) /\ t.on = "off"
<1> DEFINE t == SendComplete(r)
<1>1. /\ Fields \subseteq DOMAIN r /\ Tuned(r) /\ Signals(r) /\ r.buffer = NoFrame /\ r.tx_end = FALSE
      /\ SameTalk(s, r) /\ SameCall(s, r) /\ SameDoc(s, r) /\ r.phase = s.phase /\ r.hears = s.hears
  BY DEF Through
<1>2. r.state = s.state /\ r.step = 1  BY <1>1 DEF SameTalk
<1>3. t = Disconnect(r)
  BY <1>2 DEF SendComplete
<1>4. Mode(s) /\ Sides(s) /\ Counts(s) /\ Carries(s)  BY DEF EndInv
<1> HIDE DEF t
<1>5. Sides(r)  BY <1>1, <1>4, SidesKept DEF SameTalk, SameCall
<1>6. Counts(r)
  <2>1. r.step \in 0 .. 4  BY <1>2
  <2>2. r.tx_end \in BOOLEAN  BY <1>1
  <2>3. r.state = s.state /\ r.next_phase = s.next_phase  BY <1>1 DEF SameTalk
  <2> QED  BY <1>1, <1>4, <2>1, <2>2, <2>3, CountsKept
<1>7. r.phase \notin {"E", "CALL_FINISHED"} /\ r.phase \notin Calling  BY <1>1 DEF Calling
<1>8. /\ Fields \subseteq DOMAIN t /\ Radio(t) /\ Signals(t) /\ Mode(t) /\ Sides(t) /\ Counts(t)
      /\ SameDoc(r, t) /\ t.state = "B" /\ t.hears = "no" /\ t.buffer = r.buffer /\ t.on = "off"
  BY <1>1, <1>2, <1>3, <1>5, <1>6, <1>7, DisconnectFacts
<1>9. Carries(t)  BY <1>1, <1>8 DEF Carries, NoFrame
<1>10. EndInv(t)  BY <1>8, <1>9 DEF EndInv
<1>11. SameDoc(s, t)  BY <1>1, <1>8 DEF SameDoc
<1> QED  BY <1>1, <1>8, <1>10, <1>11, BookOfDoc DEF Told, Onward, NoFrame, AnswerStates, t

\* After CFR.
LEMMA CfrEnds ==
  ASSUME NEW s, NEW r, EndInv(s), Through(s, r), s.step = 1, Free(s), s.phase = "B_TX", s.state = "F_CFR"
  PROVE  LET t == SendComplete(r) IN Told(s, t) /\ t.on = "off"
<1> DEFINE a == NextPage(r)
           t == [a EXCEPT !.next_rx_step = "MPS"]
<1>1. r.state = s.state /\ r.step = 1  BY DEF Through, SameTalk
<1>2. t = SendComplete(r)
  BY <1>1 DEF SendComplete
<1>3. /\ EndInv(a) /\ SameDoc(s, a) /\ a.state = "F_DOC" /\ a.hears = "no" /\ a.buffer = NoFrame
      /\ a.on = "off" /\ a.timer_t2_t4 = TRUE
  BY NextPageFacts DEF ReceiveStates, AnswerStates, Talking
<1> HIDE DEF a
<1>4. Fields \subseteq DOMAIN a  BY <1>3 DEF EndInv
<1>5. /\ Fields \subseteq DOMAIN t /\ SameModems(a, t) /\ SameTalk(a, t) /\ SameCall(a, t)
      /\ t.buffer = a.buffer /\ t.on = a.on /\ t.tx_end = a.tx_end /\ t.next_rx_step = "MPS"
  BY <1>4 DEF Fields, SameModems, SameTalk, SameCall, SameTimers
<1>6. /\ t.page = a.page /\ t.ecm_block = a.ecm_block /\ t.ecm_len = a.ecm_len
      /\ t.ecm_current_frame = a.ecm_current_frame /\ t.ecm_at_page_end = a.ecm_at_page_end
      /\ t.in_message = a.in_message /\ t.image = a.image /\ t.got = a.got /\ t.ecm = a.ecm
      /\ t.ppr_count = a.ppr_count /\ t.next_tx_step = a.next_tx_step
      /\ t.tx_file = a.tx_file /\ t.rx_file = a.rx_file /\ t.compatible = a.compatible
      /\ t.ecm_allowed = a.ecm_allowed
  BY <1>4 DEF Fields
<1> HIDE DEF t
<1>7. Radio(t) /\ Signals(t)  BY <1>3, <1>5, ModemsKept DEF EndInv
<1>8. Mode(t)
  <2>1. InF_DOC(a)  BY <1>3 DEF EndInv, Mode
  <2>2. InF_DOC(t)  BY <1>5, <1>6, <2>1 DEF InF_DOC, SameModems, SameTalk, SameCall, SameTimers, Free, Empty
  <2> QED  BY <1>3, <1>5, <2>2 DEF Mode, SameTalk, States
<1>9. Sides(t)  BY <1>3, <1>5, <1>6 DEF EndInv, Sides, SameTalk, SameCall
<1>10. Counts(t)
  <2>1. Counts(a)  BY <1>3 DEF EndInv
  <2> QED  BY <2>1, <1>3, <1>5, <1>6 DEF Counts, SameTalk, SameCall, SameTimers, Steps
<1>11. Carries(t)  BY <1>3, <1>5 DEF Carries, NoFrame, SameTalk
<1>12. EndInv(t)  BY <1>5, <1>7, <1>8, <1>9, <1>10, <1>11 DEF EndInv
<1>13. SameBook(s, t)  BY <1>3, <1>6 DEF SameBook, SameDoc
<1>14. t.state = "F_DOC" /\ t.hears = "no" /\ t.buffer = NoFrame /\ t.on = "off"
  BY <1>3, <1>5 DEF SameTalk, SameModems
<1>15. Told(s, t)  BY <1>12, <1>13, <1>14 DEF Told, Onward, NoFrame, AnswerStates
<1> QED  BY <1>2, <1>14, <1>15

\* What follows a command or an answer when its signal has ended.
LEMMA CommandEnds ==
  ASSUME NEW s, NEW r, EndInv(s), Through(s, r), s.step = 1, Free(s), s.state \in CommandStates,
         s.phase = CommandPhase(s)
  PROVE  LET t == SendComplete(r) IN Told(s, t) /\ t.on = "off" /\ t.state # "F_POST_RCP_PPR"
<1>1. r.state = s.state /\ r.step = 1  BY DEF Through, SameTalk
<1>2. CASE s.state \in AnswerStates \cup {"F_POST_RCP_PPR", "F_POST_RCP_MCF"}
  <2>1. s.phase = "D_TX"  BY <1>2 DEF CommandPhase, AnswerStates
  <2> QED  BY <1>2, <2>1, AnswerEnds
<1>3. CASE s.state = "C"
  <2>1. s.phase = "D_TX"  BY <1>3 DEF CommandPhase
  <2>2. Told(s, SendComplete(r)) /\ SendComplete(r).on = "off"  BY <1>3, <2>1, DcnEnds
  <2> QED  BY <1>3, <2>2 DEF Told, Onward, AnswerStates
<1>4. CASE s.state = "F_CFR"
  <2>1. s.phase = "B_TX"  BY <1>4 DEF CommandPhase
  <2>2. Told(s, SendComplete(r)) /\ SendComplete(r).on = "off"  BY <1>4, <2>1, CfrEnds
  <2> QED  BY <1>4, <2>2 DEF Told, Onward, AnswerStates
<1>5. CASE s.state = "F_FTT"
  <2>1. SendComplete(r) = Wait(r, "B_RX") /\ s.phase = "B_TX"  BY <1>1, <1>5 DEF SendComplete, CommandPhase
  <2>2. Told(s, SendComplete(r)) /\ SendComplete(r).on = "off"  BY <1>5, <2>1, FttWaits
  <2> QED  BY <1>5, <2>2 DEF Told, Onward, AnswerStates
<1>6. CASE s.state \in {"II_Q", "IV_PPS_NULL", "IV_PPS_Q"}
  <2>1. SendComplete(r) = Wait(r, "D_RX") /\ s.phase = "D_TX"  BY <1>1, <1>6 DEF SendComplete, CommandPhase
  <2>2. Told(s, SendComplete(r)) /\ SendComplete(r).on = "off"  BY <1>6, <2>1, CommandWaits
  <2> QED  BY <1>6, <2>2 DEF Told, Onward, AnswerStates
<1> QED  BY <1>2, <1>3, <1>4, <1>5, <1>6 DEF CommandStates

-----------------------------------------------------------------------------
(* A frame has been sent                                                    *)

\* An HDLC transmitter is up in phases B_TX, D_TX and C_ECM_TX only.
LEMMA NotTalking ==
  ASSUME NEW s, Tuned(s), s.tx_hdlc = TRUE
  PROVE  s.phase \in Talking \cup {"C_ECM_TX"}
BY DEF Tuned, Modems, Phases, TxPhases, Listening, Talking

\* The ends that have a frame to send.
LEMMA HasFrame ==
  ASSUME NEW s, EndInv(s), s.tx_hdlc = TRUE, s.buffer # NoFrame
  PROVE  /\ Free(s) /\ s.tx_end = FALSE /\ s.hears = "no"
         /\ \/ s.state \in CommandStates /\ s.phase = CommandPhase(s) /\ s.step \in {0, 1}
            \/ /\ s.state = "R" /\ s.phase = "B_TX"
               /\ (s.step = 1 /\ s.buffer = Simple("CSI")) \/ (s.step = 2 /\ s.buffer = DisFrame(s))
            \/ /\ s.state = "D" /\ s.phase = "B_TX"
               /\ \/ s.step = 1 /\ s.buffer = Simple("CSI")
                  \/ s.step = 2 /\ s.buffer = Simple("TSI")
                  \/ s.step = 3 /\ s.buffer = DcsFrame(s)
            \/ s.state = "IV" /\ s.phase = "C_ECM_TX" /\ s.step = 0 /\ s.buffer.type \in {"FCD", "RCP"}
<1>1. Mode(s) /\ Radio(s) /\ Signals(s)  BY DEF EndInv
<1>2. s.phase \in Talking \cup {"C_ECM_TX"}  BY <1>1, NotTalking DEF Radio
<1>3. s.phase \in {"B_TX", "D_TX", "C_ECM_TX"} /\ s.phase \notin Hearing
  BY <1>2 DEF Talking, Hearing, Listening, Receiving
<1>4. s.hears = "no"
  BY <1>1, <1>2, TalkersHearNothing DEF Radio, SendingFast
<1>5. ~Empty(s) /\ ~Ended(s)  BY DEF Empty, Ended
<1>6. CASE s.state \in CommandStates
  <2>1. CASE s.state \in {"F_CFR", "F_FTT", "II_Q", "IV_PPS_NULL", "IV_PPS_Q"}
    BY <1>1, <1>3, <1>4, <1>5, <1>6, <2>1
    DEF Mode, InF_CFR, InF_FTT, InII_Q, InIV_PPS, Asked, Command, CommandPhase
  <2>2. CASE s.state \in AnswerStates \cup {"F_POST_RCP_MCF", "F_POST_RCP_PPR", "C"}
    BY <1>1, <1>3, <1>4, <1>5, <1>6, <2>2
    DEF Mode, InIII, InC, Answer, Command, CommandPhase, AnswerStates
  <2> QED  BY <1>6, <2>1, <2>2 DEF CommandStates
<1>7. CASE s.state \in {"ANSWERING", "T", "R", "D", "D_TCF", "D_POST_TCF"}
  <2>1. CASE s.state \in {"ANSWERING", "T", "D_TCF", "D_POST_TCF"}
    BY <1>1, <1>3, <1>5, <2>1 DEF Mode, InAnswering, InT, InD_TCF, InD_POST_TCF
  <2>2. CASE s.state = "R"
    BY <1>1, <1>3, <1>4, <1>5, <2>2 DEF Mode, InR
  <2>3. CASE s.state = "D"
    BY <1>1, <1>3, <1>4, <1>5, <2>3 DEF Mode, InD, Listening, Hearing
  <2> QED  BY <1>7, <2>1, <2>2, <2>3
<1>8. CASE s.state = "IV"
  BY <1>1, <1>3, <1>4, <1>5, <1>8 DEF Mode, InIV, Command, Listening, Hearing
<1>9. CASE s.state \in {"I", "IV_CTC", "F_TCF", "F_DOC", "F_POST_DOC_NON_ECM", "F_POST_DOC_ECM", "B", "CALL_FINISHED"}
  <2>1. CASE s.state \in {"I", "IV_CTC", "F_TCF"}
    BY <1>1, <1>3, <1>5, <2>1 DEF Mode, InI, InIV_CTC, InF_TCF
  <2>2. CASE s.state \in {"F_DOC", "F_POST_DOC_NON_ECM", "F_POST_DOC_ECM"}
    BY <1>1, <1>3, <1>5, <2>2 DEF Mode, InF_DOC, InF_POST_DOC_NON_ECM, InF_POST_DOC_ECM
  <2>3. CASE s.state \in {"B", "CALL_FINISHED"}
    BY <1>1, <1>3, <2>3 DEF Mode, InB, InFinished
  <2> QED  BY <1>9, <2>1, <2>2, <2>3
<1> QED  BY <1>1, <1>6, <1>7, <1>8, <1>9 DEF Mode, States, CommandStates, AnswerStates

\* What follows a frame.
Sent(s, t) ==
  /\ Told(s, t)
  /\ Final(s.buffer) => Spent(t)
  /\ t.on # "off" => t.state = s.state /\ t.on = "frames"
  /\ t.state = "F_POST_RCP_PPR" => Ended(t)
  /\ s.state = "IV" => t.state = "IV" /\ (RestSent(s) => RestSent(t) /\ t.buffer.type # "FCD")

\* In a state with one command, hdlc_send_complete after its frame ends the signal.
LEMMA CommandFrameSent ==
  ASSUME NEW s, EndInv(s), s.tx_hdlc = TRUE, s.buffer # NoFrame, s.state \in CommandStates
  PROVE  Sent(s, SendComplete(Wants(s)))
<1>1. Mode(s) /\ Radio(s) /\ Signals(s) /\ Sides(s) /\ Counts(s) /\ Fields \subseteq DOMAIN s  BY DEF EndInv
<1>2. Free(s) /\ s.tx_end = FALSE /\ s.phase = CommandPhase(s) /\ s.step \in {0, 1} /\ s.hears = "no"
  BY HasFrame DEF CommandStates, AnswerStates
<1>3. /\ Fields \subseteq DOMAIN Wants(s) /\ SameTalk(s, Wants(s))
  BY <1>1, WantsFacts
<1>4. CASE s.step = 0
  <2> DEFINE t == SendNull(Stepped(Wants(s)))
  <2>1. SendComplete(Wants(s)) = t
    BY <1>3, <1>4 DEF SendComplete, SameTalk, CommandStates, AnswerStates
  <2>2. /\ Fields \subseteq DOMAIN t /\ Radio(t) /\ Signals(t) /\ Sides(t) /\ Counts(t)
        /\ t.state = s.state /\ t.step = s.step + 1 /\ t.phase = s.phase /\ t.next_phase = s.next_phase
        /\ Ended(t) /\ SameCall(s, t) /\ SameDoc(s, t) /\ t.hears = s.hears
    <3>1. s.step \in 0 .. 3  BY <1>4
    <3> QED  BY <3>1, CommandSent
  <2> HIDE DEF t
  <2>3. \A types : Command(t, CommandPhase(s), types)
    BY <1>2, <1>4, <2>2 DEF Command, Free
  <2>4. Mode(t)
    <3>1. s.state \in {"F_CFR", "F_FTT", "II_Q", "IV_PPS_NULL", "IV_PPS_Q"} =>
            CommandPhase(s) = IF s.state \in {"F_CFR", "F_FTT"} THEN "B_TX" ELSE "D_TX"
      BY DEF CommandPhase
    <3>2. NoTimer(t) = NoTimer(s) /\ t.timer_is_t4 = s.timer_is_t4
      BY <2>2 DEF NoTimer, SameCall, SameTimers
    <3>3. CASE s.state \in {"F_CFR", "F_FTT"}
      <4>1. NoTimer(s)
        BY <1>1, <1>2, <3>3 DEF Mode, InF_CFR, InF_FTT, Asked, CommandPhase
      <4>2. Command(t, "B_TX", {"CFR"}) /\ Command(t, "B_TX", {"FTT"})  BY <2>3, <3>1, <3>3
      <4> QED  BY <2>2, <3>2, <3>3, <4>1, <4>2 DEF Mode, States, InF_CFR, InF_FTT
    <3>4. CASE s.state = "II_Q"
      <4>1. NoTimer(s) /\ s.ecm = FALSE /\ s.next_tx_step = CheckNextTxStep(s)
        BY <1>1, <1>2, <3>4 DEF Mode, InII_Q, Asked, CommandPhase
      <4>2. Command(t, "D_TX", {t.next_tx_step})  BY <2>3, <3>1, <3>4
      <4>3. t.ecm = FALSE /\ t.next_tx_step = CheckNextTxStep(t)
        BY <2>2, <4>1 DEF SameDoc, CheckNextTxStep
      <4> QED  BY <2>2, <3>2, <3>4, <4>1, <4>2, <4>3 DEF Mode, States, InII_Q
    <3>5. CASE s.state \in {"IV_PPS_NULL", "IV_PPS_Q"}
      <4>1. /\ NoTimer(s) /\ s.ecm = TRUE /\ s.next_tx_step = CheckNextTxStep(s)
            /\ (s.state = "IV_PPS_Q" => s.ecm_at_page_end = TRUE)
            /\ (s.state = "IV_PPS_NULL" => s.ecm_at_page_end = FALSE)
        BY <1>1, <1>2, <3>5 DEF Mode, InIV_PPS, Asked, CommandPhase
      <4>2. Command(t, "D_TX", {"PPS"})  BY <2>3, <3>1, <3>5
      <4>3. /\ t.ecm = TRUE /\ t.next_tx_step = CheckNextTxStep(t)
            /\ (t.state = "IV_PPS_Q" => t.ecm_at_page_end = TRUE)
            /\ (t.state = "IV_PPS_NULL" => t.ecm_at_page_end = FALSE)
        BY <2>2, <4>1 DEF SameDoc, CheckNextTxStep
      <4> QED  BY <2>2, <3>2, <3>5, <4>1, <4>2, <4>3 DEF Mode, States, InIV_PPS
    <3>6. CASE s.state \in AnswerStates \cup {"F_POST_RCP_MCF", "F_POST_RCP_PPR"}
      <4>1. NoTimer(s) /\ (s.ecm = TRUE \/ s.ecm = FALSE)
            /\ (s.state \in AnswerStates => s.ecm = FALSE) /\ (s.state \notin AnswerStates => s.ecm = TRUE)
        BY <1>1, <3>6 DEF Mode, InIII, AnswerStates
      <4>2. \A answer : Answer(t, {answer})
        BY <2>3, <3>6 DEF Answer, CommandPhase, AnswerStates
      <4>3. t.ecm = s.ecm  BY <2>2 DEF SameDoc
      <4> QED  BY <2>2, <3>2, <3>6, <4>1, <4>2, <4>3 DEF Mode, States, InIII, AnswerStates
    <3>7. CASE s.state = "C"
      <4>1. NoTimer(s) \/ s.timer_is_t4 = TRUE
        BY <1>1, <3>7 DEF Mode, InC
      <4>2. Answer(t, {"DCN", "TSI", "CTC"})
        BY <2>3, <3>7 DEF Answer, CommandPhase
      <4> QED  BY <2>2, <3>2, <3>7, <4>1, <4>2 DEF Mode, States, InC
    <3> QED  BY <3>3, <3>4, <3>5, <3>6, <3>7 DEF CommandStates
  <2>5. Carries(t)
    <3>1. t.buffer = NoFrame  BY <2>2 DEF Ended, Empty
    <3>2. t.state \notin {"ANSWERING", "T", "R"}  BY <2>2 DEF CommandStates, AnswerStates
    <3> QED  BY <3>1, <3>2 DEF Carries, NoFrame
  <2>6. EndInv(t)  BY <2>2, <2>4, <2>5 DEF EndInv
  <2>7. Told(s, t)
    <3>1. SameBook(s, t)  BY <2>2, BookOfDoc
    <3>2. t.buffer.type \notin {"MCF", "CTC"}  BY <2>2 DEF Ended, Empty, NoFrame
    <3>3. Onward(s, t) /\ t.hears = "no" /\ t.next_rx_step = s.next_rx_step  BY <1>2, <2>2 DEF Onward, SameDoc
    <3> QED  BY <2>6, <3>1, <3>2, <3>3 DEF Told
  <2>8. Spent(t) /\ Ended(t) /\ t.on = "frames" /\ t.state = s.state  BY <2>2 DEF Ended, Spent
  <2>9. s.state # "IV"  BY DEF CommandStates, AnswerStates
  <2> QED  BY <2>1, <2>7, <2>8, <2>9 DEF Sent
<1>5. CASE s.step = 1
  <2>1. Through(s, Wants(s))  BY <1>1, <1>2, WantsThrough
  <2>2. Told(s, SendComplete(Wants(s))) /\ SendComplete(Wants(s)).on = "off"
        /\ SendComplete(Wants(s)).state # "F_POST_RCP_PPR"
    BY <1>2, <1>5, <2>1, CommandEnds
  <2>3. s.state # "IV"  BY DEF CommandStates, AnswerStates
  <2> QED  BY <2>2, <2>3 DEF Sent, Spent
<1> QED  BY <1>2, <1>4, <1>5

\* A set of numbers that is not empty has a least member.
LEMMA Least ==
  ASSUME NEW T \in SUBSET Nat, T # {}
  PROVE  Min(T) \in T /\ \A y \in T : Min(T) <= y
<1>1. \E x \in T : \A y \in T : ~(<<y, x>> \in OpToRel(<, Nat))
  BY NatLessThanWellFounded, WFMin
<1>2. \E x \in T : \A y \in T : x =< y
  <2>1. PICK x \in T : \A y \in T : ~(<<y, x>> \in OpToRel(<, Nat))  BY <1>1
  <2>2. \A y \in T : <<y, x>> \in OpToRel(<, Nat) <=> y < x  BY Zenon DEF OpToRel
  <2>3. \A y \in T : ~(y < x)  BY <2>1, <2>2
  <2> QED  BY <2>3
<1> QED  BY <1>2 DEF Min

\* All but the frame that is being sent.
SameBlock(s, t) ==
  /\ SameBook(s, t) /\ t.compatible = s.compatible /\ t.ppr_count = s.ppr_count
  /\ t.ecm_len = s.ecm_len /\ t.ecm_at_page_end = s.ecm_at_page_end
  /\ t.next_tx_step = s.next_tx_step /\ t.next_rx_step = s.next_rx_step

\* The next frame of a block, or RCP.
LEMMA NextEcmFrame ==
  ASSUME NEW s, Fields \subseteq DOMAIN s, s.buffer = NoFrame, s.ecm_len \subseteq 1 .. BlockFrames,
         s.ecm_current_frame \in 0 .. BlockFrames + ExtraRcp
  PROVE  LET t == SendNextEcmFrame(s) IN
         /\ Fields \subseteq DOMAIN t /\ SameModems(s, t) /\ SameTalk(s, t) /\ SameCall(s, t)
         /\ SameBlock(s, t) /\ t.on = s.on /\ t.tx_end = FALSE
         /\ t.ecm_current_frame \in 0 .. BlockFrames + ExtraRcp + 1
         /\ \/ /\ t.buffer.type = "FCD" /\ t.buffer = FcdFrame(s.page, s.ecm_block, t.buffer.no)
               /\ t.buffer.no \in 1 .. BlockFrames /\ ~RestSent(s)
            \/ t.buffer = Simple("RCP") /\ RestSent(s) /\ RestSent(t)
<1> DEFINE rest == {i \in s.ecm_len : i > s.ecm_current_frame}
           t == SendNextEcmFrame(s)
<1>0. BlockFrames \in Nat /\ ExtraRcp \in Nat  BY T30Assumption
<1>1. CASE rest # {}
  <2> DEFINE n == Min(rest)
             f == FcdFrame(s.page, s.ecm_block, n)
             a == SendFrame(s, f)
  <2>1. n \in rest
    <3>1. rest \in SUBSET Nat  BY <1>0
    <3> QED  BY <1>1, <3>1, Least
  <2>2. n \in 1 .. BlockFrames /\ ~RestSent(s)  BY <2>1 DEF RestSent
  <2>3. t = [a EXCEPT !.ecm_current_frame = n]  BY <1>1 DEF SendNextEcmFrame, FcdFrame
  <2>4. f.type = "FCD" /\ f.no = n /\ f = FcdFrame(s.page, s.ecm_block, f.no)  BY DEF FcdFrame
  <2> HIDE DEF n, f, rest
  <2>5. /\ Fields \subseteq DOMAIN a /\ a.tx_end = FALSE /\ a.buffer = f
        /\ SameModems(s, a) /\ SameTalk(s, a) /\ SameCall(s, a) /\ SameDoc(s, a) /\ a.on = s.on
    BY FrameTaken
  <2> HIDE DEF a, t
  <2>6. SameModems(a, t) /\ SameTalk(a, t) /\ SameCall(a, t)
    BY <2>3, <2>5 DEF Fields, SameModems, SameTalk, SameCall, SameTimers
  <2>7. SameBlock(a, t)  BY <2>3, <2>5 DEF Fields, SameBlock, SameBook
  <2>8. Fields \subseteq DOMAIN t /\ t.ecm_current_frame = n /\ t.buffer = f /\ t.on = s.on /\ t.tx_end = FALSE
    BY <2>3, <2>5 DEF Fields
  <2>9. SameModems(s, t) /\ SameTalk(s, t) /\ SameCall(s, t)
    BY <2>5, <2>6 DEF SameModems, SameTalk, SameCall, SameTimers
  <2>10. SameBlock(s, t)  BY <2>5, <2>7 DEF SameBlock, SameBook, SameDoc
  <2>11. n \in 0 .. BlockFrames + ExtraRcp + 1  BY <1>0, <2>2
  <2> QED  BY <2>2, <2>4, <2>8, <2>9, <2>10, <2>11 DEF t
<1>2. CASE rest = {}
  <2> DEFINE a == SendFrame(s, Simple("RCP"))
  <2>1. RestSent(s)  BY <1>2 DEF RestSent
  <2>2. t = [a EXCEPT !.ecm_current_frame = @ + 1]  BY <1>2 DEF SendNextEcmFrame
  <2>3. /\ Fields \subseteq DOMAIN a /\ a.tx_end = FALSE /\ a.buffer = Simple("RCP")
        /\ SameModems(s, a) /\ SameTalk(s, a) /\ SameCall(s, a) /\ SameDoc(s, a) /\ a.on = s.on
    BY FrameTaken
  <2> HIDE DEF a, t
  <2>4. SameModems(a, t) /\ SameTalk(a, t) /\ SameCall(a, t)
    BY <2>2, <2>3 DEF Fields, SameModems, SameTalk, SameCall, SameTimers
  <2>5. SameBlock(a, t)  BY <2>2, <2>3 DEF Fields, SameBlock, SameBook
  <2>6. /\ Fields \subseteq DOMAIN t /\ t.ecm_current_frame = a.ecm_current_frame + 1
        /\ t.buffer = Simple("RCP") /\ t.on = s.on /\ t.tx_end = FALSE
    BY <2>2, <2>3 DEF Fields
  <2>7. SameModems(s, t) /\ SameTalk(s, t) /\ SameCall(s, t)
    BY <2>3, <2>4 DEF SameModems, SameTalk, SameCall, SameTimers
  <2>8. SameBlock(s, t)  BY <2>3, <2>5 DEF SameBlock, SameBook, SameDoc
  <2>9. t.ecm_current_frame = s.ecm_current_frame + 1  BY <2>3, <2>6 DEF SameDoc
  <2>10. t.ecm_current_frame \in 0 .. BlockFrames + ExtraRcp + 1  BY <1>0, <2>9
  <2>11. RestSent(t)
    <3>1. t.ecm_len = s.ecm_len  BY <2>8 DEF SameBlock
    <3> QED  BY <1>0, <2>1, <2>9, <3>1 DEF RestSent
  <2> QED  BY <2>1, <2>6, <2>7, <2>8, <2>10, <2>11 DEF t
<1> QED  BY <1>1, <1>2

\* A frame of a block has been sent.
LEMMA BlockFrameSent ==
  ASSUME NEW s, EndInv(s), s.tx_hdlc = TRUE, s.buffer # NoFrame, s.state = "IV"
  PROVE  Sent(s, SendComplete(Wants(s)))
<1> DEFINE r == Wants(s)
           t == SendComplete(r)
<1>0. BlockFrames \in Nat /\ ExtraRcp \in Nat  BY T30Assumption
<1>1. Mode(s) /\ Radio(s) /\ Signals(s) /\ Sides(s) /\ Counts(s) /\ Fields \subseteq DOMAIN s  BY DEF EndInv
<1>2. /\ Free(s) /\ s.tx_end = FALSE /\ s.hears = "no" /\ s.phase = "C_ECM_TX" /\ s.step = 0
      /\ s.buffer.type \in {"FCD", "RCP"}
  BY HasFrame DEF CommandStates, AnswerStates
<1>3. s.ecm = TRUE /\ NoTimer(s) /\ (s.buffer.type = "FCD" \/ RestSent(s))  BY <1>1 DEF Mode, InIV
<1>4. /\ Fields \subseteq DOMAIN r /\ r.buffer = NoFrame /\ r.on = "frames" /\ r.tx_end = s.tx_end
      /\ SameModems(s, r) /\ SameTalk(s, r) /\ SameCall(s, r) /\ SameDoc(s, r)
  BY <1>1, WantsFacts
<1>5. Radio(r) /\ Signals(r)  BY <1>1, WantsRadio
<1>6. t = IF RcpDue(r) THEN SendNextEcmFrame(r) ELSE SendNull(Stepped(r))
  <2>1. r.state = "IV" /\ r.step = 0  BY <1>2, <1>4 DEF SameTalk
  <2> QED  BY <2>1 DEF SendComplete
<1>7. s.ecm_len \subseteq 1 .. BlockFrames /\ s.ecm_current_frame \in 0 .. BlockFrames + ExtraRcp + 1
      /\ s.tx_file = TRUE /\ s.ecm_allowed = TRUE
  BY <1>1, <1>3 DEF Counts, Sides, SendStates
<1>8. r.ecm_len = s.ecm_len /\ r.ecm_current_frame = s.ecm_current_frame  BY <1>4 DEF SameDoc
<1>9. CASE RcpDue(r)
  <2>1. r.ecm_current_frame \in 0 .. BlockFrames + ExtraRcp  BY <1>0, <1>7, <1>8, <1>9 DEF RcpDue
  <2> HIDE DEF r
  <2>2. /\ Fields \subseteq DOMAIN t /\ SameModems(r, t) /\ SameTalk(r, t) /\ SameCall(r, t)
         /\ SameBlock(r, t) /\ t.on = r.on /\ t.tx_end = FALSE
         /\ t.ecm_current_frame \in 0 .. BlockFrames + ExtraRcp + 1
         /\ \/ /\ t.buffer.type = "FCD" /\ t.buffer = FcdFrame(r.page, r.ecm_block, t.buffer.no)
               /\ t.buffer.no \in 1 .. BlockFrames /\ ~RestSent(r)
            \/ t.buffer = Simple("RCP") /\ RestSent(r) /\ RestSent(t)
    BY <1>4, <1>6, <1>7, <1>8, <1>9, <2>1, NextEcmFrame
  <2> HIDE DEF t
  <2>3. Radio(t) /\ Signals(t)  BY <1>5, <2>2, ModemsKept
  <2>4. t.state = "IV" /\ t.step = 0 /\ Free(t) /\ t.phase = "C_ECM_TX" /\ t.hears = "no"
    BY <1>2, <1>4, <2>2 DEF SameTalk, SameModems, Free
  <2>5. SameCall(s, t)  BY <1>4, <2>2 DEF SameCall, SameTimers
  <2>6. SameBlock(s, t)  BY <1>4, <2>2 DEF SameBlock, SameBook, SameDoc
  <2>7. RestSent(r) <=> RestSent(s)  BY <1>8 DEF RestSent
  <2>8. t.buffer.type = "FCD" \/ (t.buffer.type = "RCP" /\ RestSent(t))  BY <2>2 DEF Simple
  <2>9. Mode(t)
    <3>1. t.ecm = TRUE  BY <1>3, <2>6 DEF SameBlock, SameBook
    <3>2. NoTimer(t)  BY <1>3, <2>5 DEF NoTimer, SameCall, SameTimers
    <3>3. InIV(t)  BY <2>2, <2>4, <2>8, <3>1, <3>2 DEF InIV, Command
    <3> QED  BY <2>4, <3>3 DEF Mode, States
  <2>10. Sides(t)  BY <1>1, <1>2, <2>4, <2>5, <2>6 DEF Sides, SameCall, SameBlock, SameBook
  <2>11. Counts(t)
    <3>1. t.next_phase \in Phases \cup {"IDLE"} /\ t.step \in 0 .. 4  BY <2>4 DEF Free
    <3>2. t.tx_end \in BOOLEAN  BY <2>2
    <3>3. Counts(s)  BY <1>1
    <3> QED  BY <2>2, <2>4, <2>5, <2>6, <3>1, <3>2, <3>3 DEF Counts, SameCall, SameTimers, SameBlock, SameBook
  <2>12. Carries(t)
    <3>1. t.page = s.page /\ t.ecm_block = s.ecm_block /\ t.ecm_allowed = TRUE
      BY <1>7, <2>6 DEF SameBlock, SameBook
    <3>2. r.page = s.page /\ r.ecm_block = s.ecm_block  BY <1>4 DEF SameDoc
    <3> QED  BY <2>2, <2>4, <2>8, <3>1, <3>2 DEF Carries, FcdFrame, Simple
  <2>13. EndInv(t)  BY <2>2, <2>3, <2>9, <2>10, <2>11, <2>12 DEF EndInv
  <2>14. Told(s, t)
    <3>1. SameBook(s, t) /\ t.next_rx_step = s.next_rx_step  BY <2>6 DEF SameBlock
    <3>2. Onward(s, t) /\ t.hears = "no" /\ t.buffer.type \notin {"MCF", "CTC"}  BY <2>4, <2>8 DEF Onward
    <3> QED  BY <2>13, <3>1, <3>2 DEF Told
  <2>15. RestSent(s) => RestSent(t) /\ t.buffer.type # "FCD"
    BY <2>2, <2>7, <2>8 DEF Simple
  <2>16. t.on = "frames"  BY <1>4, <2>2
  <2>17. ~Final(s.buffer)  BY <1>2 DEF Final
  <2> QED  BY <2>4, <2>14, <2>15, <2>16, <2>17 DEF Sent, t, r
<1>10. CASE ~RcpDue(r)
  <2>1. s.step \in 0 .. 3  BY <1>2
  <2>2. t = SendNull(Stepped(Wants(s)))  BY <1>6, <1>10
  <2>3. /\ Fields \subseteq DOMAIN t /\ Radio(t) /\ Signals(t) /\ Sides(t) /\ Counts(t)
        /\ t.state = s.state /\ t.step = s.step + 1 /\ t.phase = s.phase /\ t.next_phase = s.next_phase
        /\ Ended(t) /\ SameCall(s, t) /\ SameDoc(s, t) /\ t.hears = s.hears
    BY <2>1, <2>2, CommandSent
  <2> HIDE DEF t
  <2>4. RestSent(t)
    <3>1. t.ecm_len \subseteq 1 .. BlockFrames /\ t.ecm_current_frame = r.ecm_current_frame
      BY <1>7, <1>8, <2>3 DEF SameDoc
    <3>2. t.ecm_current_frame \in Nat /\ t.ecm_current_frame > BlockFrames
      BY <1>0, <1>7, <1>8, <1>10, <3>1 DEF RcpDue
    <3> QED  BY <1>0, <3>1, <3>2 DEF RestSent
  <2>5. Mode(t)
    <3>1. t.ecm = TRUE /\ NoTimer(t)  BY <1>3, <2>3 DEF SameDoc, SameCall, SameTimers, NoTimer
    <3>2. t.step = 1  BY <1>2, <2>3
    <3>3. Command(t, "C_ECM_TX", {"FCD", "RCP"})  BY <1>2, <2>3, <3>2 DEF Command, Free
    <3>4. InIV(t)  BY <2>3, <2>4, <3>1, <3>3 DEF InIV
    <3> QED  BY <2>3, <3>4 DEF Mode, States
  <2>6. Carries(t)  BY <2>3 DEF Carries, NoFrame, Ended, Empty
  <2>7. EndInv(t)  BY <2>3, <2>5, <2>6 DEF EndInv
  <2>8. Told(s, t)
    <3>1. SameBook(s, t)  BY <2>3, BookOfDoc
    <3>2. t.buffer.type \notin {"MCF", "CTC"}  BY <2>3 DEF Ended, Empty, NoFrame
    <3>3. Onward(s, t) /\ t.hears = "no" /\ t.next_rx_step = s.next_rx_step  BY <1>2, <2>3 DEF Onward, SameDoc
    <3> QED  BY <2>7, <3>1, <3>2, <3>3 DEF Told
  <2>9. t.buffer.type # "FCD" /\ t.on = "frames" /\ t.state = "IV"  BY <2>3 DEF Ended, Empty, NoFrame
  <2>10. ~Final(s.buffer)  BY <1>2 DEF Final
  <2> QED  BY <2>4, <2>8, <2>9, <2>10 DEF Sent, t
<1> QED  BY <1>9, <1>10

\* CSI and DIS.
LEMMA DisFrameSent ==
  ASSUME NEW s, EndInv(s), s.tx_hdlc = TRUE, s.buffer # NoFrame, s.state = "R"
  PROVE  Sent(s, SendComplete(Wants(s)))
<1> DEFINE r == Wants(s)
           t == SendComplete(r)
<1>1. Mode(s) /\ Radio(s) /\ Signals(s) /\ Sides(s) /\ Counts(s) /\ Carries(s) /\ Fields \subseteq DOMAIN s  BY DEF EndInv
<1>2. /\ Free(s) /\ s.tx_end = FALSE /\ s.hears = "no" /\ s.phase = "B_TX"
      /\ (s.step = 1 /\ s.buffer = Simple("CSI")) \/ (s.step = 2 /\ s.buffer = DisFrame(s))
  BY HasFrame DEF CommandStates, AnswerStates
<1>3. /\ Fields \subseteq DOMAIN r /\ r.buffer = NoFrame /\ r.on = "frames" /\ r.tx_end = s.tx_end
      /\ SameModems(s, r) /\ SameTalk(s, r) /\ SameCall(s, r) /\ SameDoc(s, r)
  BY <1>1, WantsFacts
<1>4. Radio(r) /\ Signals(r)  BY <1>1, WantsRadio
<1>5. r.state = "R" /\ r.step = s.step  BY <1>3 DEF SameTalk
<1>6. CASE s.step = 1
  <2> DEFINE f == DisFrame(r)
             u == SendFrame(Stepped(r), f)
  <2>1. t = u
    BY <1>5, <1>6 DEF SendComplete, DisSent
  <2>2. f.type = "DIS" /\ f.ecm = s.ecm_allowed /\ f = DisFrame(s)  BY <1>3 DEF DisFrame, SameDoc
  <2> HIDE DEF r, f, t
  <2>3. /\ Fields \subseteq DOMAIN t /\ t.step = r.step + 1 /\ t.tx_end = FALSE /\ t.buffer = f
        /\ t.state = r.state /\ t.next_phase = r.next_phase /\ t.on = r.on
        /\ SameModems(r, t) /\ SameCall(r, t) /\ SameDoc(r, t)
    <3>1. /\ Fields \subseteq DOMAIN u /\ u.step = r.step + 1 /\ u.tx_end = FALSE /\ u.buffer = f
          /\ u.state = r.state /\ u.next_phase = r.next_phase /\ u.on = r.on
          /\ SameModems(r, u) /\ SameCall(r, u) /\ SameDoc(r, u)
      BY <1>3, SendFrameFacts
    <3> HIDE DEF u
    <3> QED  BY <2>1, <3>1
  <2>4. Radio(t) /\ Signals(t)  BY <1>4, <2>3, ModemsKept
  <2>5. t.state = "R" /\ t.step = 2 /\ Free(t) /\ t.phase = "B_TX" /\ t.hears = "no"
    BY <1>2, <1>3, <1>5, <1>6, <2>3 DEF SameTalk, SameModems, Free
  <2>6. SameCall(s, t) /\ SameDoc(s, t)  BY <1>3, <2>3 DEF SameCall, SameTimers, SameDoc
  <2>7. f = DisFrame(t)  BY <2>2, <2>6 DEF DisFrame, SameDoc
  <2>8. Mode(t)
    <3>1. InR(t)  BY <2>3, <2>5, <2>7 DEF InR
    <3> QED  BY <2>5, <3>1 DEF Mode, States
  <2>9. Sides(t)  BY <1>1, <2>5, <2>6, SidesKept DEF SameCall
  <2>10. Counts(t)
    <3>1. t.step \in 0 .. 4  BY <2>5
    <3>2. t.tx_end \in BOOLEAN  BY <2>3
    <3>3. t.next_phase = s.next_phase  BY <1>2, <2>5 DEF Free
    <3> QED  BY <1>1, <2>5, <2>6, <3>1, <3>2, <3>3, CountsKept
  <2>11. Carries(t)  BY <1>1, <2>2, <2>3, <2>5, <2>6 DEF Carries, SameDoc
  <2>12. EndInv(t)  BY <2>3, <2>4, <2>8, <2>9, <2>10, <2>11 DEF EndInv
  <2>13. Told(s, t)
    <3>1. SameBook(s, t)  BY <2>6, BookOfDoc
    <3>2. t.buffer.type \notin {"MCF", "CTC"}  BY <2>2, <2>3
    <3>3. Onward(s, t) /\ t.next_rx_step = s.next_rx_step  BY <2>5, <2>6 DEF Onward, SameDoc
    <3> QED  BY <2>5, <2>12, <3>1, <3>2, <3>3 DEF Told
  <2>14. s.buffer.type = "CSI"  BY <1>2, <1>6 DEF Simple
  <2>15. t.on = "frames"  BY <1>3, <2>3
  <2> QED  BY <2>5, <2>13, <2>14, <2>15 DEF Sent, Final, t, r
<1>7. CASE s.step = 2
  <2>1. s.step \in 0 .. 3  BY <1>7
  <2>2. t = SendNull(Stepped(Wants(s)))  BY <1>5, <1>7 DEF SendComplete, DisSent
  <2>3. /\ Fields \subseteq DOMAIN t /\ Radio(t) /\ Signals(t) /\ Sides(t) /\ Counts(t)
        /\ t.state = s.state /\ t.step = s.step + 1 /\ t.phase = s.phase /\ t.next_phase = s.next_phase
        /\ Ended(t) /\ SameCall(s, t) /\ SameDoc(s, t) /\ t.hears = s.hears
    BY <2>1, <2>2, CommandSent
  <2> HIDE DEF t
  <2>4. t.state = "R" /\ t.step = 3 /\ Free(t) /\ t.phase = "B_TX" /\ t.hears = "no"
    BY <1>2, <1>7, <2>3 DEF Free
  <2>5. Mode(t)
    <3>1. InR(t)  BY <2>3, <2>4 DEF InR
    <3> QED  BY <2>4, <3>1 DEF Mode, States
  <2>6. Carries(t)  BY <1>1, <2>3 DEF Carries, NoFrame, Ended, Empty, SameDoc
  <2>7. EndInv(t)  BY <2>3, <2>5, <2>6 DEF EndInv
  <2>8. Told(s, t)
    <3>1. SameBook(s, t)  BY <2>3, BookOfDoc
    <3>2. t.buffer.type \notin {"MCF", "CTC"}  BY <2>3 DEF Ended, Empty, NoFrame
    <3>3. Onward(s, t) /\ t.hears = "no" /\ t.next_rx_step = s.next_rx_step  BY <1>2, <2>3 DEF Onward, SameDoc
    <3> QED  BY <2>7, <3>1, <3>2, <3>3 DEF Told
  <2>9. Spent(t) /\ t.on = "frames"  BY <2>3 DEF Ended, Spent
  <2> QED  BY <2>4, <2>8, <2>9 DEF Sent, t
<1> QED  BY <1>2, <1>6, <1>7

\* CSI, TSI and DCS.
LEMMA DcsFrameSent ==
  ASSUME NEW s, EndInv(s), s.tx_hdlc = TRUE, s.buffer # NoFrame, s.state = "D"
  PROVE  Sent(s, SendComplete(Wants(s)))
<1> DEFINE r == Wants(s)
           t == SendComplete(r)
<1>1. Mode(s) /\ Radio(s) /\ Signals(s) /\ Sides(s) /\ Counts(s) /\ Carries(s) /\ Fields \subseteq DOMAIN s  BY DEF EndInv
<1>2. /\ Free(s) /\ s.tx_end = FALSE /\ s.hears = "no" /\ s.phase = "B_TX"
      /\ \/ s.step = 1 /\ s.buffer = Simple("CSI")
         \/ s.step = 2 /\ s.buffer = Simple("TSI")
         \/ s.step = 3 /\ s.buffer = DcsFrame(s)
  BY HasFrame DEF CommandStates, AnswerStates
<1>3. /\ Fields \subseteq DOMAIN r /\ r.buffer = NoFrame /\ r.on = "frames" /\ r.tx_end = s.tx_end
      /\ SameModems(s, r) /\ SameTalk(s, r) /\ SameCall(s, r) /\ SameDoc(s, r)
  BY <1>1, WantsFacts
<1>4. Radio(r) /\ Signals(r)  BY <1>1, WantsRadio
<1>5. r.state = "D" /\ r.step = s.step  BY <1>3 DEF SameTalk
<1>6. NoTimer(s)  BY <1>1, <1>2 DEF Mode, InD, Listening
<1>7. s.ecm = s.ecm_allowed  BY <1>1 DEF Sides, SendStates
<1>8. ASSUME NEW f, Fields \subseteq DOMAIN t, t.tx_end = FALSE, t.buffer = f,
             t.state = r.state, t.next_phase = r.next_phase, t.on = r.on,
             SameModems(r, t), SameCall(r, t), SameDoc(r, t), t.step \in {2, 3},
             t.step = 2 => f = Simple("TSI"), t.step = 3 => f = DcsFrame(r), s.step \in {1, 2}
      PROVE  Sent(s, t)
  <2> HIDE DEF r, t
  <2>1. Radio(t) /\ Signals(t)  BY <1>4, <1>8, ModemsKept
  <2>2. t.state = "D" /\ Free(t) /\ t.phase = "B_TX" /\ t.hears = "no"
    BY <1>2, <1>3, <1>5, <1>8 DEF SameTalk, SameModems, Free
  <2>3. SameCall(s, t) /\ SameDoc(s, t)  BY <1>3, <1>8 DEF SameCall, SameTimers, SameDoc
  <2>4. DcsFrame(r) = DcsFrame(t)  BY <1>8 DEF DcsFrame, SameDoc
  <2>5. NoTimer(t)  BY <1>6, <2>3 DEF NoTimer, SameCall, SameTimers
  <2>6. Mode(t)
    <3>1. InD(t)  BY <1>8, <2>2, <2>4, <2>5 DEF InD
    <3> QED  BY <2>2, <3>1 DEF Mode, States
  <2>7. Sides(t)  BY <1>1, <2>2, <2>3, SidesKept DEF SameCall
  <2>8. Counts(t)
    <3>1. t.step \in 0 .. 4  BY <1>8
    <3>2. t.tx_end \in BOOLEAN  BY <1>8
    <3>3. t.next_phase = s.next_phase  BY <1>2, <2>2 DEF Free
    <3> QED  BY <1>1, <2>2, <2>3, <3>1, <3>2, <3>3, CountsKept
  <2>9. t.buffer.type = "TSI" \/ (t.buffer.type = "DCS" /\ t.buffer.ecm = t.ecm_allowed)
    BY <1>7, <1>8, <2>3, <2>4 DEF Simple, DcsFrame, SameDoc
  <2>10. Carries(t)  BY <2>2, <2>9 DEF Carries
  <2>11. EndInv(t)  BY <1>8, <2>1, <2>6, <2>7, <2>8, <2>10 DEF EndInv
  <2>12. Told(s, t)
    <3>1. SameBook(s, t)  BY <2>3, BookOfDoc
    <3>2. t.buffer.type \notin {"MCF", "CTC"}  BY <2>9
    <3>3. Onward(s, t) /\ t.next_rx_step = s.next_rx_step  BY <2>2, <2>3 DEF Onward, SameDoc
    <3> QED  BY <2>2, <2>11, <3>1, <3>2, <3>3 DEF Told
  <2>13. s.buffer.type \in {"CSI", "TSI"}  BY <1>2, <1>8 DEF Simple
  <2>14. t.on = "frames"  BY <1>3, <1>8
  <2> QED  BY <2>2, <2>12, <2>13, <2>14 DEF Sent, Final
<1>9. CASE s.step = 1
  <2> DEFINE a == SendFrame(r, Simple("TSI"))
  <2>1. t = [a EXCEPT !.step = 2]
    BY <1>5, <1>9 DEF SendComplete, DcsSent, SendDcs
  <2> HIDE DEF r
  <2>2. /\ Fields \subseteq DOMAIN a /\ a.tx_end = FALSE /\ a.buffer = Simple("TSI")
        /\ SameModems(r, a) /\ SameTalk(r, a) /\ SameCall(r, a) /\ SameDoc(r, a) /\ a.on = r.on
    BY <1>3, FrameTaken
  <2> HIDE DEF a
  <2>3. /\ Fields \subseteq DOMAIN t /\ t.tx_end = FALSE /\ t.buffer = Simple("TSI") /\ t.step = 2
        /\ t.state = r.state /\ t.next_phase = r.next_phase /\ t.on = r.on
    BY <2>1, <2>2 DEF Fields, SameTalk
  <2>4. SameModems(a, t) /\ SameCall(a, t) /\ SameDoc(a, t)
    BY <2>1, <2>2 DEF Fields, SameModems, SameCall, SameTimers, SameDoc
  <2>5. SameModems(r, t) /\ SameCall(r, t) /\ SameDoc(r, t)
    BY <2>2, <2>4 DEF SameModems, SameCall, SameTimers, SameDoc
  <2> HIDE DEF t
  <2>6. Sent(s, t)
    <3>1. t.step \in {2, 3} /\ s.step \in {1, 2} /\ t.step # 3  BY <1>9, <2>3
    <3> QED  BY <1>8, <2>3, <2>5, <3>1
  <2> QED  BY <2>6 DEF t, r
<1>10. CASE s.step = 2
  <2> DEFINE u == SendFrame(Stepped(r), DcsFrame(r))
  <2>1. t = u
    BY <1>5, <1>10 DEF SendComplete, DcsSent
  <2> HIDE DEF r, t
  <2>2. /\ Fields \subseteq DOMAIN t /\ t.step = r.step + 1 /\ t.tx_end = FALSE /\ t.buffer = DcsFrame(r)
        /\ t.state = r.state /\ t.next_phase = r.next_phase /\ t.on = r.on
        /\ SameModems(r, t) /\ SameCall(r, t) /\ SameDoc(r, t)
    <3>1. /\ Fields \subseteq DOMAIN u /\ u.step = r.step + 1 /\ u.tx_end = FALSE /\ u.buffer = DcsFrame(r)
          /\ u.state = r.state /\ u.next_phase = r.next_phase /\ u.on = r.on
          /\ SameModems(r, u) /\ SameCall(r, u) /\ SameDoc(r, u)
      BY <1>3, SendFrameFacts
    <3> HIDE DEF u
    <3> QED  BY <2>1, <3>1
  <2>3. Sent(s, t)
    <3>1. t.step = 3  BY <1>5, <1>10, <2>2
    <3>2. t.step \in {2, 3} /\ t.step # 2 /\ s.step \in {1, 2}  BY <1>10, <3>1
    <3> QED  BY <1>8, <2>2, <3>2
  <2> QED  BY <2>3 DEF t, r
<1>11. CASE s.step = 3
  <2>1. s.step \in 0 .. 3  BY <1>11
  <2>2. t = SendNull(Stepped(Wants(s)))  BY <1>5, <1>11 DEF SendComplete, DcsSent
  <2>3. /\ Fields \subseteq DOMAIN t /\ Radio(t) /\ Signals(t) /\ Sides(t) /\ Counts(t)
        /\ t.state = s.state /\ t.step = s.step + 1 /\ t.phase = s.phase /\ t.next_phase = s.next_phase
        /\ Ended(t) /\ SameCall(s, t) /\ SameDoc(s, t) /\ t.hears = s.hears
    BY <2>1, <2>2, CommandSent
  <2> HIDE DEF t
  <2>4. t.state = "D" /\ t.step = 4 /\ Free(t) /\ t.phase = "B_TX" /\ t.hears = "no"
    BY <1>2, <1>11, <2>3 DEF Free
  <2>5. Mode(t)
    <3>1. NoTimer(t)  BY <1>6, <2>3 DEF NoTimer, SameCall, SameTimers
    <3>2. InD(t)  BY <2>3, <2>4, <3>1 DEF InD
    <3> QED  BY <2>4, <3>2 DEF Mode, States
  <2>6. Carries(t)  BY <2>3, <2>4 DEF Carries, NoFrame, Ended, Empty
  <2>7. EndInv(t)  BY <2>3, <2>5, <2>6 DEF EndInv
  <2>8. Told(s, t)
    <3>1. SameBook(s, t)  BY <2>3, BookOfDoc
    <3>2. t.buffer.type \notin {"MCF", "CTC"}  BY <2>3 DEF Ended, Empty, NoFrame
    <3>3. Onward(s, t) /\ t.hears = "no" /\ t.next_rx_step = s.next_rx_step  BY <1>2, <2>3 DEF Onward, SameDoc
    <3> QED  BY <2>7, <3>1, <3>2, <3>3 DEF Told
  <2>9. Spent(t) /\ t.on = "frames"  BY <2>3 DEF Ended, Spent
  <2> QED  BY <2>4, <2>8, <2>9 DEF Sent, t
<1> QED  BY <1>2, <1>9, <1>10, <1>11

\* What an end does when it has sent a frame.
LEMMA FrameSent ==
  ASSUME NEW s, EndInv(s), s.tx_hdlc = TRUE, s.buffer # NoFrame
  PROVE  Sent(s, SendComplete(Wants(s)))
<1>1. s.state \in CommandStates \cup {"R", "D", "IV"}  BY HasFrame
<1> QED  BY <1>1, CommandFrameSent, DisFrameSent, DcsFrameSent, BlockFrameSent

-----------------------------------------------------------------------------
(* A signal has ended                                                       *)

\* Training is sent after DCS.
LEMMA DcsEnds ==
  ASSUME NEW s, NEW r, EndInv(s), Through(s, r), s.step = 4, Free(s), s.state = "D", s.phase = "B_TX"
  PROVE  LET t == SendComplete(r) IN Told(s, t) /\ t.on = "off"
<1> DEFINE a == SetState(r, "D_TCF")
           u == SetPhase(a, "C_NON_ECM_TX")
           t == SendComplete(r)
<1>1. /\ Fields \subseteq DOMAIN r /\ Tuned(r) /\ Signals(r) /\ r.buffer = NoFrame /\ r.tx_end = FALSE
      /\ SameTalk(s, r) /\ SameCall(s, r) /\ SameDoc(s, r) /\ r.phase = s.phase /\ r.hears = s.hears
  BY DEF Through
<1>2. Mode(s) /\ Sides(s) /\ Counts(s)  BY DEF EndInv
<1>3. r.state = "D" /\ r.step = 4  BY <1>1 DEF SameTalk
<1>4. t = u  BY <1>3 DEF SendComplete, DcsSent
<1>5. /\ Fields \subseteq DOMAIN a /\ a.state = "D_TCF" /\ a.step = 0
      /\ SameModems(r, a) /\ SameCall(r, a) /\ SameDoc(r, a)
      /\ a.buffer = r.buffer /\ a.next_phase = r.next_phase /\ a.on = r.on /\ a.tx_end = r.tx_end
  BY <1>1, <1>3, StateSet
<1> HIDE DEF a, t
<1>6. Tuned(a) /\ Signals(a) /\ a.phase = "B_TX"
  BY <1>1, <1>5 DEF SameModems, Tuned, Modems, Signals
<1>7. Moved(a, u, "C_NON_ECM_TX") /\ SameTimers(a, u) /\ u.hears = "no" /\ u.tx_end = FALSE
      /\ u.far_end_detected = a.far_end_detected
  <2>1. a.tx_end \in BOOLEAN  BY <1>1, <1>5
  <2> QED  BY <1>5, <1>6, <2>1, TalkNonEcm DEF Talking
<1> HIDE DEF u
<1>8. Fields \subseteq DOMAIN t /\ Radio(t) /\ Signals(t) /\ Quiet(a, t) /\ t.phase = "C_NON_ECM_TX" /\ t.on = "off"
      /\ SameTimers(a, t) /\ t.hears = "no" /\ t.tx_end = FALSE /\ t.far_end_detected = a.far_end_detected
  BY <1>4, <1>7 DEF Moved
<1>9. SameDoc(s, t)  BY <1>1, <1>5, <1>8 DEF Quiet, SameDoc
<1>10. SameCall(s, t)  BY <1>1, <1>5, <1>8 DEF Quiet, SameCall, SameTimers
<1>11. t.state = "D_TCF" /\ t.step = 0 /\ t.buffer = NoFrame /\ t.next_phase = "IDLE"
  BY <1>1, <1>5, <1>8 DEF Quiet, SameTalk, Free
<1>12. Mode(t)
  <2>1. NoTimer(t)  BY <1>2, <1>10 DEF Mode, InD, NoTimer, SameCall, SameTimers
  <2>2. InD_TCF(t)  BY <1>8, <1>11, <2>1 DEF InD_TCF, Free, Empty
  <2> QED  BY <1>11, <2>2 DEF Mode, States
<1>13. Sides(t)
  <2>1. s.timer_t0_t1 # TRUE /\ s.tx_file = TRUE /\ s.ecm = s.ecm_allowed  BY <1>2 DEF Sides, SendStates
  <2> QED  BY <1>2, <1>9, <1>10, <1>11, <2>1 DEF Sides, SameDoc, SameCall, ReceiveStates, AnswerStates
<1>14. Counts(t)
  <2>1. t.next_phase \in Phases \cup {"IDLE"} /\ t.step \in 0 .. 4  BY <1>11
  <2>2. t.tx_end \in BOOLEAN  BY <1>8
  <2> QED  BY <1>2, <1>9, <1>10, <1>11, <2>1, <2>2 DEF Counts, SameDoc, SameCall, SameTimers, SendStates, Over
<1>15. Carries(t)  BY <1>11 DEF Carries, NoFrame
<1>16. EndInv(t)  BY <1>8, <1>12, <1>13, <1>14, <1>15 DEF EndInv
<1>17. Told(s, t)
  <2>1. SameBook(s, t)  BY <1>9, BookOfDoc
  <2>2. Onward(s, t) /\ t.buffer.type \notin {"MCF", "CTC"} /\ t.state \notin AnswerStates
    BY <1>11 DEF Onward, NoFrame, AnswerStates
  <2> QED  BY <1>8, <1>16, <2>1, <2>2 DEF Told
<1> QED  BY <1>8, <1>17 DEF t

\* The answer to training is awaited.
LEMMA TcfEnds ==
  ASSUME NEW s, NEW r, EndInv(s), Through(s, r), s.state = "D_TCF"
  PROVE  LET t == SendComplete(r) IN Told(s, t) /\ t.on = "off" /\ t.state = "D_POST_TCF"
<1> DEFINE a == Wait(r, "B_RX")
           u == SetState(a, "D_POST_TCF")
           t == SendComplete(r)
<1>1. Mode(s) /\ Sides(s) /\ Counts(s)  BY DEF EndInv
<1>2. s.phase = "C_NON_ECM_TX" /\ Free(s)  BY <1>1 DEF Mode, InD_TCF
<1>3. t = u
  <2>1. r.state = "D_TCF"  BY DEF Through, SameTalk
  <2> QED  BY <2>1 DEF SendComplete
<1>4. /\ Fields \subseteq DOMAIN a /\ Radio(a) /\ Signals(a) /\ a.phase = "B_RX" /\ a.on = "off"
      /\ a.hears = "no" /\ a.buffer = NoFrame /\ a.tx_end = FALSE
      /\ a.timer_t2_t4 = TRUE /\ a.timer_is_t4 = TRUE /\ SameDoc(s, a)
      /\ a.state = s.state /\ a.step = s.step /\ a.next_phase = s.next_phase
      /\ a.retries = s.retries /\ a.current_status = s.current_status
      /\ a.timer_t0_t1 = s.timer_t0_t1 /\ a.far_end_detected = s.far_end_detected /\ a.waited = s.waited
  BY <1>2, Waits, ZenonT(60) DEF Listening, SendingFast
<1> HIDE DEF a
<1>5. /\ Fields \subseteq DOMAIN u /\ u.state = "D_POST_TCF" /\ u.step = 0
      /\ SameModems(a, u) /\ SameCall(a, u) /\ SameDoc(a, u)
      /\ u.buffer = a.buffer /\ u.next_phase = a.next_phase /\ u.on = a.on /\ u.tx_end = a.tx_end
  BY <1>4, StateSet
<1> HIDE DEF u
<1>6. Radio(u) /\ Signals(u)  BY <1>4, <1>5, ModemsKept
<1>7. u.phase = "B_RX" /\ u.hears = "no"  BY <1>4, <1>5 DEF SameModems
<1>8. u.timer_t2_t4 = TRUE /\ u.timer_is_t4 = TRUE /\ u.retries = s.retries /\ u.current_status = s.current_status
      /\ u.timer_t0_t1 = s.timer_t0_t1 /\ u.far_end_detected = s.far_end_detected /\ u.waited = s.waited
  BY <1>4, <1>5 DEF SameCall, SameTimers
<1>9. SameDoc(s, u)  BY <1>4, <1>5 DEF SameDoc
<1>10. u.buffer = NoFrame /\ u.next_phase = "IDLE" /\ u.on = "off" /\ u.tx_end = FALSE  BY <1>2, <1>4, <1>5 DEF Free
<1>11. Mode(u)
  <2>1. InD_POST_TCF(u)  BY <1>5, <1>7, <1>8, <1>10 DEF InD_POST_TCF, Free, Empty
  <2> QED  BY <1>5, <2>1 DEF Mode, States
<1>12. Sides(u)
  <2>1. s.timer_t0_t1 # TRUE /\ s.tx_file = TRUE /\ s.ecm = s.ecm_allowed  BY <1>1 DEF Sides, SendStates
  <2> QED  BY <1>1, <1>5, <1>8, <1>9, <2>1 DEF Sides, SameDoc, ReceiveStates, AnswerStates
<1>13. Counts(u)
  <2>1. u.next_phase \in Phases \cup {"IDLE"} /\ u.step \in 0 .. 4  BY <1>5, <1>10
  <2>2. u.tx_end \in BOOLEAN  BY <1>10
  <2> QED  BY <1>1, <1>5, <1>8, <1>9, <2>1, <2>2 DEF Counts, SameDoc, SendStates, Over
<1>14. Carries(u)  BY <1>5, <1>10 DEF Carries, NoFrame
<1>15. EndInv(u)  BY <1>5, <1>6, <1>11, <1>12, <1>13, <1>14 DEF EndInv
<1>16. Told(s, u)
  <2>1. SameBook(s, u)  BY <1>9, BookOfDoc
  <2>2. Onward(s, u) /\ u.buffer.type \notin {"MCF", "CTC"} /\ u.state \notin AnswerStates
    BY <1>5, <1>10 DEF Onward, NoFrame, AnswerStates
  <2> QED  BY <1>7, <1>15, <2>1, <2>2 DEF Told
<1> QED  BY <1>3, <1>5, <1>10, <1>16 DEF t

\* MPS, EOP or PPS comes after the page or the block.
LEMMA PageEnds ==
  ASSUME NEW s, NEW r, EndInv(s), Through(s, r), Free(s), s.phase \in SendingFast,
         s.state = "I" \/ (s.state = "IV" /\ s.step = 1)
  PROVE  LET t == SendComplete(r) IN Told(s, t) /\ t.on = "off"
<1> DEFINE ask == SetPhase(r, "D_TX")
           t == SendComplete(r)
<1>0. Pages \in Nat  BY T30Assumption
<1>1. /\ Fields \subseteq DOMAIN r /\ Tuned(r) /\ Signals(r) /\ r.buffer = NoFrame /\ r.tx_end = FALSE
      /\ SameTalk(s, r) /\ SameCall(s, r) /\ SameDoc(s, r) /\ r.phase = s.phase /\ r.hears = s.hears
  BY DEF Through
<1>2. Mode(s) /\ Sides(s) /\ Counts(s)  BY DEF EndInv
<1>3. /\ Moved(r, ask, "D_TX") /\ SameTimers(r, ask) /\ ask.hears = "no" /\ ask.tx_end = FALSE
      /\ ask.far_end_detected = (r.far_end_detected \/ r.timer_t0_t1)
  <2>1. r.tx_end \in BOOLEAN  BY <1>1
  <2>2. r.phase \notin Calling  BY <1>1 DEF Calling, SendingFast
  <2>3. r.timer_t0_t1 \in BOOLEAN  BY <1>1, <1>2 DEF Counts, SameCall
  <2> QED  BY <1>1, <2>1, <2>2, <2>3, TalkPhase DEF Talking
<1>4. /\ Fields \subseteq DOMAIN ask /\ Radio(ask) /\ Signals(ask) /\ Quiet(r, ask) /\ ask.phase = "D_TX" /\ ask.on = "off"
  BY <1>3 DEF Moved
<1>5. ask.state = s.state /\ ask.buffer = NoFrame /\ ask.next_phase = "IDLE" /\ ask.retries = s.retries
      /\ ask.current_status = s.current_status /\ ask.timer_t0_t1 = s.timer_t0_t1 /\ ask.step = s.step
  BY <1>1, <1>4 DEF Quiet, SameTalk, SameCall, Free
<1>6. SameDoc(s, ask)  BY <1>1, <1>4 DEF Quiet, SameDoc
<1>7. SameTimers(s, ask)  BY <1>1, <1>3 DEF SameCall, SameTimers
<1>8. s.far_end_detected \in BOOLEAN /\ s.timer_t0_t1 = FALSE /\ s.tx_file = TRUE /\ s.ecm = s.ecm_allowed
      /\ s.page \in 1 .. Pages /\ NoTimer(s)
  <2>1. s.far_end_detected \in BOOLEAN /\ s.timer_t0_t1 \in BOOLEAN  BY <1>2 DEF Counts
  <2>2. s.timer_t0_t1 # TRUE /\ s.tx_file = TRUE /\ s.ecm = s.ecm_allowed  BY <1>2 DEF Sides, SendStates
  <2>3. s.page \in 1 .. Pages  BY <1>0, <1>2 DEF Counts, Over
  <2>4. NoTimer(s)  BY <1>2 DEF Mode, InI, InIV
  <2> QED  BY <2>1, <2>2, <2>3, <2>4
<1>9. ask.far_end_detected \in BOOLEAN  BY <1>3
<1>10. r.state = s.state /\ r.step = s.step /\ CheckNextTxStep(r) = CheckNextTxStep(s)
       /\ r.ecm_at_page_end = s.ecm_at_page_end
  BY <1>1 DEF SameTalk, SameDoc, CheckNextTxStep
<1> DEFINE step == CheckNextTxStep(s)
<1>11. step \in {"MPS", "EOP"}  BY DEF CheckNextTxStep
<1> HIDE DEF ask
\* What is common to both.
<1>12. ASSUME NEW u, Fields \subseteq DOMAIN u, SameModems(ask, u), SameCall(ask, u), u.on = "off",
              u.page = s.page, SameBook(s, u), u.next_phase = "IDLE", u.step \in 0 .. 4, u.tx_end = FALSE,
              u.state \in {"II_Q", "IV_PPS_NULL", "IV_PPS_Q"}, u.buffer.type \in {"MPS", "EOP", "PPS"},
              u.next_tx_step = step, u.compatible = s.compatible, u.ppr_count = s.ppr_count,
              u.ecm_len = s.ecm_len, u.ecm_at_page_end = s.ecm_at_page_end, u.next_rx_step = s.next_rx_step,
              u.ecm_current_frame = s.ecm_current_frame, Mode(u), Onward(s, u),
              u.buffer.type = "PPS" => s.ecm_allowed = TRUE /\ u.buffer = PpsFrame(u)
       PROVE  Told(s, u)
  <2>1. Radio(u) /\ Signals(u)  BY <1>4, <1>12, ModemsKept
  <2>2. u.hears = "no"  BY <1>3, <1>12 DEF SameModems
  <2>3. /\ u.retries = s.retries /\ u.current_status = s.current_status /\ u.timer_t0_t1 = s.timer_t0_t1
        /\ SameTimers(s, u) /\ u.far_end_detected = ask.far_end_detected
    BY <1>5, <1>7, <1>12 DEF SameCall, SameTimers
  <2>4. Sides(u)  BY <1>2, <1>8, <1>12, <2>3 DEF Sides, SameBook, ReceiveStates, AnswerStates
  <2>5. Counts(u)
    <3>1. u.next_phase \in Phases \cup {"IDLE"} /\ u.next_tx_step \in Steps  BY <1>11, <1>12 DEF Steps
    <3>2. u.tx_end \in BOOLEAN  BY <1>12
    <3>3. u.far_end_detected \in BOOLEAN  BY <1>9, <2>3
    <3>4. Counts(s) /\ s.state \in {"I", "IV"}  BY <1>2
    <3>5. s.state \in SendStates \ {"IV_CTC"} /\ u.state \in SendStates \ {"IV_CTC"}
          /\ s.state \notin Over /\ u.state \notin Over
      BY <1>12, <3>4 DEF SendStates, Over
    <3> QED  BY <1>12, <2>3, <3>1, <3>2, <3>3, <3>4, <3>5 DEF Counts, SameBook, SameTimers
  <2>6. Carries(u)
    <3>1. u.ecm_allowed = s.ecm_allowed  BY <1>12 DEF SameBook
    <3> QED  BY <1>11, <1>12, <3>1 DEF Carries
  <2>7. EndInv(u)  BY <1>12, <2>1, <2>4, <2>5, <2>6 DEF EndInv
  <2>8. u.buffer.type \notin {"MCF", "CTC"} /\ u.state \notin AnswerStates  BY <1>12 DEF AnswerStates
  <2> QED  BY <1>12, <2>2, <2>7, <2>8 DEF Told
<1>13. CASE s.state = "I"
  <2> DEFINE a == SetState(ask, "II_Q")
             b == [a EXCEPT !.next_tx_step = step]
             u == SendFrame(b, Simple(step))
  <2>1. t = u
    BY <1>10, <1>13 DEF SendComplete, ask
  <2>2. /\ Fields \subseteq DOMAIN a /\ a.state = "II_Q" /\ a.step = 0
        /\ SameModems(ask, a) /\ SameCall(ask, a) /\ SameDoc(ask, a)
        /\ a.buffer = ask.buffer /\ a.next_phase = ask.next_phase /\ a.on = ask.on /\ a.tx_end = ask.tx_end
    BY <1>4, <1>5, <1>13, StateSet
  <2> HIDE DEF a, step
  <2>3. /\ Fields \subseteq DOMAIN b /\ b.next_tx_step = step /\ SameModems(a, b) /\ SameCall(a, b) /\ SameTalk(a, b)
        /\ b.buffer = a.buffer /\ b.on = a.on /\ SameBook(a, b)
    BY <2>2 DEF Fields, SameModems, SameCall, SameTimers, SameTalk, SameBook
  <2>4. /\ b.compatible = a.compatible /\ b.ppr_count = a.ppr_count
        /\ b.ecm_len = a.ecm_len /\ b.ecm_at_page_end = a.ecm_at_page_end /\ b.next_rx_step = a.next_rx_step
        /\ b.ecm_current_frame = a.ecm_current_frame
    BY <2>2 DEF Fields
  <2> HIDE DEF b
  <2>5. /\ Fields \subseteq DOMAIN u /\ u.tx_end = FALSE /\ u.buffer = Simple(step)
         /\ SameModems(b, u) /\ SameTalk(b, u) /\ SameCall(b, u) /\ SameDoc(b, u) /\ u.on = b.on
    <3>1. b.buffer = NoFrame  BY <1>5, <2>2, <2>3
    <3>2. Fields \subseteq DOMAIN b  BY <2>3
    <3> QED  BY <3>1, <3>2, FrameTaken
  <2> HIDE DEF u, t
  <2>6. SameModems(ask, u)  BY <2>2, <2>3, <2>5 DEF SameModems
  <2>7. SameCall(ask, u)  BY <2>2, <2>3, <2>5 DEF SameCall, SameTimers
  <2>8. SameBook(s, u)  BY <1>6, <2>2, <2>3, <2>5 DEF SameBook, SameDoc
  <2>9. /\ u.compatible = s.compatible /\ u.ppr_count = s.ppr_count
        /\ u.ecm_len = s.ecm_len /\ u.ecm_at_page_end = s.ecm_at_page_end /\ u.next_rx_step = s.next_rx_step
        /\ u.ecm_current_frame = s.ecm_current_frame /\ u.next_tx_step = step
    BY <1>6, <2>2, <2>3, <2>4, <2>5 DEF SameDoc
  <2>10. u.state = "II_Q" /\ u.step = 0 /\ u.next_phase = "IDLE" /\ u.on = "off" /\ u.phase = "D_TX"
    BY <1>4, <1>5, <2>2, <2>3, <2>5, <2>6 DEF SameTalk, SameModems
  <2>11. Mode(u)
    <3>1. s.ecm = FALSE  BY <1>2, <1>13 DEF Mode, InI
    <3>2. NoTimer(u)  BY <1>7, <1>8, <2>7 DEF NoTimer, SameCall, SameTimers
    <3>3. Command(u, "D_TX", {u.next_tx_step})  BY <2>5, <2>9, <2>10 DEF Command, Free, Simple
    <3>4. u.ecm = FALSE /\ u.page = s.page  BY <2>8, <3>1 DEF SameBook
    <3>5. u.next_tx_step = CheckNextTxStep(u)  BY <2>9, <3>4 DEF step, CheckNextTxStep
    <3>6. InII_Q(u)  BY <3>2, <3>3, <3>4, <3>5 DEF InII_Q
    <3> QED  BY <2>10, <3>6 DEF Mode, States
  <2>12. u.buffer.type \in {"MPS", "EOP", "PPS"}  BY <1>11, <2>5 DEF Simple
  <2>13. Onward(s, u) /\ u.page = s.page /\ u.step \in 0 .. 4  BY <1>13, <2>8, <2>10 DEF Onward, SameBook
  <2>15. u.buffer.type # "PPS"  BY <1>11, <2>5 DEF Simple
  <2>14. Told(s, u)  BY <1>12, <2>5, <2>6, <2>7, <2>8, <2>9, <2>10, <2>11, <2>12, <2>13, <2>15
  <2> QED  BY <2>1, <2>10, <2>14 DEF t
<1>14. CASE s.state = "IV" /\ s.step = 1
  <2> DEFINE b == [ask EXCEPT !.next_tx_step = step]
             f == PpsFrame(b)
             a == SendFrame(b, f)
             state == IF s.ecm_at_page_end THEN "IV_PPS_Q" ELSE "IV_PPS_NULL"
             u == SetState(a, state)
  <2>1. t = u
    BY <1>10, <1>14 DEF SendComplete, ask
  <2> HIDE DEF step
  <2>3. /\ Fields \subseteq DOMAIN b /\ b.next_tx_step = step /\ SameModems(ask, b) /\ SameCall(ask, b) /\ SameTalk(ask, b)
        /\ b.buffer = ask.buffer /\ b.on = ask.on /\ SameBook(ask, b)
    BY <1>4 DEF Fields, SameModems, SameCall, SameTimers, SameTalk, SameBook
  <2>4. /\ b.compatible = ask.compatible /\ b.ppr_count = ask.ppr_count
        /\ b.ecm_len = ask.ecm_len /\ b.ecm_at_page_end = ask.ecm_at_page_end /\ b.next_rx_step = ask.next_rx_step
        /\ b.ecm_current_frame = ask.ecm_current_frame
    BY <1>4 DEF Fields
  <2>2. f.type = "PPS"  BY DEF PpsFrame
  <2>17. f = [type |-> "PPS", post |-> IF b.ecm_at_page_end THEN b.next_tx_step ELSE "NULL"]  BY DEF PpsFrame
  <2> HIDE DEF b, f
  <2>5. /\ Fields \subseteq DOMAIN a /\ a.tx_end = FALSE /\ a.buffer = f
         /\ SameModems(b, a) /\ SameTalk(b, a) /\ SameCall(b, a) /\ SameDoc(b, a) /\ a.on = b.on
    <3>1. b.buffer = NoFrame  BY <1>5, <2>3
    <3>2. Fields \subseteq DOMAIN b  BY <2>3
    <3> QED  BY <3>1, <3>2, FrameTaken
  <2> HIDE DEF a, t
  <2>6. a.state = "IV"  BY <1>5, <1>14, <2>3, <2>5 DEF SameTalk
  <2>7. /\ Fields \subseteq DOMAIN u /\ u.state = state /\ u.step = 0
        /\ SameModems(a, u) /\ SameCall(a, u) /\ SameDoc(a, u)
        /\ u.buffer = a.buffer /\ u.next_phase = a.next_phase /\ u.on = a.on /\ u.tx_end = a.tx_end
    BY <2>5, <2>6, StateSet
  <2> HIDE DEF u
  <2>8. SameModems(ask, u)  BY <2>3, <2>5, <2>7 DEF SameModems
  <2>9. SameCall(ask, u)  BY <2>3, <2>5, <2>7 DEF SameCall, SameTimers
  <2>10. SameBook(s, u)  BY <1>6, <2>3, <2>5, <2>7 DEF SameBook, SameDoc
  <2>11. /\ u.compatible = s.compatible /\ u.ppr_count = s.ppr_count
        /\ u.ecm_len = s.ecm_len /\ u.ecm_at_page_end = s.ecm_at_page_end /\ u.next_rx_step = s.next_rx_step
        /\ u.ecm_current_frame = s.ecm_current_frame /\ u.next_tx_step = step
    BY <1>6, <2>3, <2>4, <2>5, <2>7 DEF SameDoc
  <2>12. u.state \in {"IV_PPS_NULL", "IV_PPS_Q"} /\ u.step = 0 /\ u.next_phase = "IDLE" /\ u.on = "off" /\ u.phase = "D_TX"
    BY <1>4, <1>5, <2>3, <2>5, <2>7, <2>8 DEF SameTalk, SameModems
  <2>13. u.buffer.type = "PPS" /\ u.tx_end = FALSE  BY <2>2, <2>5, <2>7
  <2>14. Mode(u)
    <3>1. s.ecm = TRUE /\ s.ecm_at_page_end \in BOOLEAN  BY <1>2, <1>14 DEF Mode, InIV, Counts
    <3>2. NoTimer(u)  BY <1>7, <1>8, <2>9 DEF NoTimer, SameCall, SameTimers
    <3>3. Command(u, "D_TX", {"PPS"})  BY <2>12, <2>13 DEF Command, Free
    <3>4. u.ecm = TRUE /\ u.page = s.page  BY <2>10, <3>1 DEF SameBook
    <3>5. u.next_tx_step = CheckNextTxStep(u)  BY <2>11, <3>4 DEF step, CheckNextTxStep
    <3>6. u.state = "IV_PPS_Q" => u.ecm_at_page_end = TRUE  BY <2>7, <2>11, <3>1
    <3>7. u.state = "IV_PPS_NULL" => u.ecm_at_page_end = FALSE  BY <2>7, <2>11, <3>1
    <3>8. InIV_PPS(u)  BY <3>2, <3>3, <3>4, <3>5, <3>6, <3>7 DEF InIV_PPS
    <3> QED  BY <2>12, <3>8 DEF Mode, States
  <2>15. Onward(s, u) /\ u.page = s.page /\ u.step \in 0 .. 4  BY <1>14, <2>10, <2>12 DEF Onward, SameBook
  <2>18. u.buffer.type = "PPS" => s.ecm_allowed = TRUE /\ u.buffer = PpsFrame(u)
    <3>1. u.ecm_at_page_end = b.ecm_at_page_end /\ u.next_tx_step = b.next_tx_step
      BY <1>6, <2>3, <2>4, <2>11 DEF SameDoc
    <3>2. u.buffer = PpsFrame(u)  BY <2>5, <2>7, <2>17, <3>1 DEF PpsFrame
    <3>3. s.ecm = TRUE  BY <1>2, <1>14 DEF Mode, InIV
    <3> QED  BY <1>2, <3>2, <3>3 DEF Sides
  <2>16. Told(s, u)  BY <1>12, <2>18, <2>7, <2>8, <2>9, <2>10, <2>11, <2>12, <2>13, <2>14, <2>15
  <2> QED  BY <2>1, <2>12, <2>16 DEF t
<1> QED  BY <1>13, <1>14

\* The ends whose signal has ended.
LEMMA SignalSpent ==
  ASSUME NEW s, EndInv(s),
         \/ s.tx = "fast" /\ ~s.tx_hdlc
         \/ s.tx_hdlc /\ s.on = "frames" /\ s.buffer = NoFrame /\ s.tx_end
  PROVE  /\ Free(s) /\ s.buffer = NoFrame
         /\ \/ s.state \in CommandStates /\ s.phase = CommandPhase(s) /\ s.step = 1
            \/ s.state = "R" /\ s.phase = "B_TX" /\ s.step = 3
            \/ s.state = "D" /\ s.phase = "B_TX" /\ s.step = 4
            \/ s.state = "D_TCF"
            \/ s.phase \in SendingFast /\ (s.state = "I" \/ (s.state = "IV" /\ s.step = 1))
<1>1. Mode(s) /\ Radio(s) /\ Signals(s)  BY DEF EndInv
<1>2. CASE s.tx = "fast" /\ ~s.tx_hdlc
  <2>1. s.phase = "C_NON_ECM_TX"
    BY <1>1, <1>2 DEF Radio, Tuned, Modems, Phases, TxPhases, Listening, Talking
  <2>2. s.state \in {"D_TCF", "I"}
    <3>1. s.phase \notin Hearing  BY <2>1 DEF Hearing, Listening, Receiving
    <3>2. s.state \notin {"ANSWERING", "T", "R", "D", "D_POST_TCF"}
      BY <1>1, <2>1, <3>1 DEF Mode, InAnswering, InT, InR, InD, InD_POST_TCF, Hearing
    <3>3. s.state \notin {"II_Q", "IV", "IV_PPS_NULL", "IV_PPS_Q", "IV_CTC"}
      BY <1>1, <2>1, <3>1 DEF Mode, InII_Q, InIV, InIV_PPS, InIV_CTC, Asked, Command, Hearing
    <3>4. s.state \notin {"F_TCF", "F_CFR", "F_FTT", "F_DOC", "F_POST_DOC_NON_ECM", "F_POST_DOC_ECM"}
      BY <1>1, <2>1, <3>1 DEF Mode, InF_TCF, InF_CFR, InF_FTT, InF_DOC, InF_POST_DOC_NON_ECM, InF_POST_DOC_ECM,
                              Asked, Command, Hearing
    <3>5. s.state \notin AnswerStates \cup {"F_POST_RCP_MCF", "F_POST_RCP_PPR"} \cup Over
      BY <1>1, <2>1, <3>1 DEF Mode, InIII, InB, InC, InFinished, Answer, Command, Over, AnswerStates
    <3> QED  BY <1>1, <3>2, <3>3, <3>4, <3>5 DEF Mode, States, AnswerStates, Over
  <2> QED  BY <1>1, <2>1, <2>2 DEF Mode, InD_TCF, InI, SendingFast, Empty, Free, Listening
<1>3. CASE s.tx_hdlc /\ s.on = "frames" /\ s.buffer = NoFrame /\ s.tx_end
  <2>1. s.phase \in {"B_TX", "D_TX", "C_ECM_TX"} /\ s.phase \notin Hearing
    BY <1>1, <1>3 DEF Radio, Tuned, Modems, Phases, TxPhases, Listening, Talking, Hearing, Receiving
  <2>2. \A type : NoFrame # Simple(type) \/ type = "none"  BY DEF NoFrame, Simple
  <2>3. NoFrame.type = "none"  BY DEF NoFrame
  <2>4. s.tx_end # FALSE  BY <1>3
  <2>5. s.state \notin {"ANSWERING", "T", "D_TCF", "D_POST_TCF", "I", "IV_CTC"}
    BY <1>1, <2>1, <2>4 DEF Mode, InAnswering, InT, InD_TCF, InD_POST_TCF, InI, InIV_CTC, Listening
  <2>6. s.state \notin {"F_TCF", "F_DOC", "F_POST_DOC_NON_ECM", "F_POST_DOC_ECM", "B", "CALL_FINISHED"}
    BY <1>1, <2>1 DEF Mode, InF_TCF, InF_DOC, InF_POST_DOC_NON_ECM, InF_POST_DOC_ECM, InB, InFinished
  <2>7. s.hears = "no"
    BY <1>1, <1>3, NotTalking, TalkersHearNothing DEF Radio, SendingFast
  <2>8. CASE s.state = "R"
    BY <1>1, <1>3, <2>1, <2>4, <2>7, <2>8 DEF Mode, InR
  <2>9. CASE s.state = "D"
    BY <1>1, <1>3, <2>1, <2>4, <2>7, <2>9 DEF Mode, InD, Listening, Hearing
  <2>10. CASE s.state = "IV"
    BY <1>1, <1>3, <2>1, <2>4, <2>7, <2>10 DEF Mode, InIV, Command, Listening, Hearing, SendingFast
  <2>11. CASE s.state \in {"F_CFR", "F_FTT", "II_Q", "IV_PPS_NULL", "IV_PPS_Q"}
    BY <1>1, <1>3, <2>1, <2>4, <2>11
    DEF Mode, InF_CFR, InF_FTT, InII_Q, InIV_PPS, Asked, Command, CommandPhase, CommandStates
  <2>12. CASE s.state \in AnswerStates \cup {"F_POST_RCP_MCF", "F_POST_RCP_PPR", "C"}
    BY <1>1, <1>3, <2>1, <2>4, <2>12
    DEF Mode, InIII, InC, Answer, Command, CommandPhase, AnswerStates, CommandStates
  <2> QED  BY <1>1, <1>3, <2>5, <2>6, <2>8, <2>9, <2>10, <2>11, <2>12 DEF Mode, States, AnswerStates
<1> QED  BY <1>2, <1>3

\* What an end is when its signal has ended.
Falls(s, t) ==
  /\ Told(s, t) /\ t.on = "off" /\ t.state # "F_POST_RCP_PPR"
  /\ s.state = "D_TCF" => t.state = "D_POST_TCF"
  /\ s.state \in CommandStates \cup {"R", "D", "D_TCF", "I", "IV"}

\* What an end does when its signal has ended.
LEMMA SignalEnded ==
  ASSUME NEW s, EndInv(s),
         \/ s.tx = "fast" /\ ~s.tx_hdlc
         \/ s.tx_hdlc /\ s.on = "frames" /\ s.buffer = NoFrame /\ s.tx_end
  PROVE  Falls(s, SendComplete(Stops(s)))
<1> DEFINE t == SendComplete(Stops(s))
<1>1. /\ Free(s) /\ s.buffer = NoFrame
      /\ \/ s.state \in CommandStates /\ s.phase = CommandPhase(s) /\ s.step = 1
         \/ s.state = "R" /\ s.phase = "B_TX" /\ s.step = 3
         \/ s.state = "D" /\ s.phase = "B_TX" /\ s.step = 4
         \/ s.state = "D_TCF"
         \/ s.phase \in SendingFast /\ (s.state = "I" \/ (s.state = "IV" /\ s.step = 1))
  BY SignalSpent
<1>2. Fields \subseteq DOMAIN s /\ Radio(s) /\ Signals(s)  BY DEF EndInv
<1>3. Through(s, Stops(s))  BY <1>1, <1>2, StopsThrough
<1>4. CASE s.state \in CommandStates /\ s.phase = CommandPhase(s) /\ s.step = 1
  <2>1. Told(s, t) /\ t.on = "off" /\ t.state # "F_POST_RCP_PPR"  BY <1>1, <1>3, <1>4, CommandEnds
  <2> HIDE DEF t
  <2>2. s.state # "D_TCF"  BY <1>4 DEF CommandStates, AnswerStates
  <2>3. Falls(s, t)  BY <1>4, <2>1, <2>2 DEF Falls
  <2> QED  BY <2>3 DEF t
<1>5. CASE s.state = "R" /\ s.phase = "B_TX" /\ s.step = 3
  <2>1. Stops(s).state = "R" /\ Stops(s).step = 3  BY <1>3, <1>5 DEF Through, SameTalk
  <2>2. SendComplete(Stops(s)) = Wait(Stops(s), "B_RX")
    BY <2>1 DEF SendComplete, DisSent
  <2>3. Told(s, t) /\ t.on = "off"  BY <1>1, <1>3, <1>5, <2>2, DisWaits
  <2> HIDE DEF t
  <2>4. Falls(s, t)  BY <1>5, <2>3 DEF Falls, Told, Onward, AnswerStates
  <2> QED  BY <2>4 DEF t
<1>6. CASE s.state = "D" /\ s.phase = "B_TX" /\ s.step = 4
  <2>1. Told(s, t) /\ t.on = "off"  BY <1>1, <1>3, <1>6, DcsEnds
  <2> HIDE DEF t
  <2>2. Falls(s, t)  BY <1>6, <2>1 DEF Falls, Told, Onward, AnswerStates
  <2> QED  BY <2>2 DEF t
<1>7. CASE s.state = "D_TCF"
  <2>1. Told(s, t) /\ t.on = "off" /\ t.state = "D_POST_TCF"  BY <1>3, <1>7, TcfEnds
  <2> HIDE DEF t
  <2>2. Falls(s, t)  BY <1>7, <2>1 DEF Falls
  <2> QED  BY <2>2 DEF t
<1>8. CASE s.phase \in SendingFast /\ (s.state = "I" \/ (s.state = "IV" /\ s.step = 1))
  <2>1. Told(s, t) /\ t.on = "off"  BY <1>1, <1>3, <1>8, PageEnds
  <2> HIDE DEF t
  <2>2. Falls(s, t)  BY <1>8, <2>1 DEF Falls, Told, Onward, AnswerStates
  <2> QED  BY <2>2 DEF t
<1> QED  BY <1>1, <1>4, <1>5, <1>6, <1>7, <1>8 DEF t

\* What an end does when its tone has ended.
LEMMA ToneEnded ==
  ASSUME NEW s, EndInv(s), Tone(s)
  PROVE  LET t == SendComplete([s EXCEPT !.transmit = FALSE]) IN
         /\ EndInv(t) /\ SameBook(s, t) /\ Onward(s, t) /\ t.hears = "no" /\ t.on = "off"
         /\ \/ s.state = "ANSWERING" /\ t.state = "R" /\ t.buffer = Simple("CSI")
            \/ s.state = "B" /\ t.state = "CALL_FINISHED"
<1> DEFINE r == [s EXCEPT !.transmit = FALSE]
           t == SendComplete(r)
<1>1. Mode(s) /\ Radio(s) /\ Signals(s) /\ Sides(s) /\ Counts(s) /\ Carries(s) /\ Fields \subseteq DOMAIN s  BY DEF EndInv
<1>2. s.phase \in {"A_CED", "E"}
  BY <1>1 DEF Tone, Radio, Tuned, Modems, Phases, TxPhases, Listening, Talking
<1>3. s.state \in {"ANSWERING", "B"}
  <2>0. s.phase \notin Hearing  BY <1>2 DEF Hearing, Listening, Receiving
  <2>1. s.state \notin {"T", "R", "D", "D_TCF", "D_POST_TCF"}
    BY <1>1, <1>2 DEF Mode, InT, InR, InD, InD_TCF, InD_POST_TCF, Listening
  <2>2. s.state \notin {"I", "II_Q", "IV", "IV_PPS_NULL", "IV_PPS_Q", "IV_CTC"}
    BY <1>1, <1>2 DEF Mode, InI, InII_Q, InIV, InIV_PPS, InIV_CTC, Asked, Command, Listening
  <2>3. s.state \notin {"F_TCF", "F_CFR", "F_FTT", "F_DOC", "F_POST_DOC_NON_ECM", "F_POST_DOC_ECM"}
    BY <1>1, <1>2 DEF Mode, InF_TCF, InF_CFR, InF_FTT, InF_DOC, InF_POST_DOC_NON_ECM, InF_POST_DOC_ECM,
                            Asked, Command
  <2>4. s.state \notin AnswerStates \cup {"F_POST_RCP_MCF", "F_POST_RCP_PPR"} \cup {"C", "CALL_FINISHED"}
    BY <1>1, <1>2, <2>0 DEF Mode, InIII, InC, InFinished, Answer, Command, AnswerStates
  <2> QED  BY <1>1, <2>1, <2>2, <2>3, <2>4 DEF Mode, States, AnswerStates
<1>4. /\ Fields \subseteq DOMAIN r /\ r.phase = s.phase /\ r.tx = s.tx /\ r.tx_hdlc = s.tx_hdlc /\ r.rx = s.rx
      /\ r.rx_hdlc = s.rx_hdlc /\ r.early = s.early /\ r.hears = s.hears
      /\ r.rx_trained = s.rx_trained /\ r.rx_signal_present = s.rx_signal_present /\ r.transmit = FALSE
  BY <1>1 DEF Fields
<1>5. SameTalk(s, r) /\ SameCall(s, r) /\ SameDoc(s, r) /\ r.on = s.on /\ r.buffer = s.buffer /\ r.tx_end = s.tx_end
  BY <1>1 DEF Fields, SameTalk, SameCall, SameTimers, SameDoc
<1> HIDE DEF r
<1>6. Tuned(r)  BY <1>1, <1>4 DEF Radio, Tuned, Modems
<1>7. Signals(r)  BY <1>1, <1>4, <1>5 DEF Signals
<1>8. r.tx_end \in BOOLEAN /\ r.timer_t0_t1 \in BOOLEAN /\ s.far_end_detected \in BOOLEAN
      /\ s.timer_t0_t1 \in BOOLEAN
  BY <1>1, <1>5 DEF Counts, SameCall
<1>9. CASE s.state = "ANSWERING"
  <2> DEFINE a == SetPhase(r, "B_TX")
             b == StartT2(a)
             c == SetState(b, "R")
             d == SendFrame(c, Simple("CSI"))
             u == [d EXCEPT !.step = 1]
  <2>0. r.state = "ANSWERING"  BY <1>5, <1>9 DEF SameTalk
  <2>1. t = u  BY <2>0 DEF SendComplete, SendDis
  <2>2. s.phase = "A_CED" /\ Free(s) /\ Empty(s) /\ NoTimer(s) /\ s.step = 0 /\ s.hears = "no"
    BY <1>1, <1>9 DEF Mode, InAnswering
  <2>3. r.rx_signal_present = FALSE  BY <1>1, <1>4, <2>2 DEF Signals
  <2>4. /\ Moved(r, a, "B_TX") /\ SameTimers(r, a) /\ a.hears = "no" /\ a.tx_end = FALSE
        /\ a.far_end_detected = (r.far_end_detected \/ r.timer_t0_t1)
    <3>1. r.phase \in Calling \cup Hearing \cup SendingFast  BY <1>4, <2>2 DEF Calling
    <3> QED  BY <1>4, <1>6, <1>7, <1>8, <2>3, <3>1, TalkPhase DEF Talking
  <2> HIDE DEF a
  <2>5. Fields \subseteq DOMAIN a /\ Radio(a) /\ Signals(a) /\ Quiet(r, a) /\ a.phase = "B_TX" /\ a.on = "off"
    BY <2>4 DEF Moved
  <2>6. /\ Fields \subseteq DOMAIN b /\ b.timer_t2_t4 = TRUE /\ b.timer_is_t4 = FALSE /\ b.waited = FALSE
        /\ SameModems(a, b) /\ b.on = a.on /\ b.tx_end = a.tx_end /\ b.far_end_detected = a.far_end_detected
    BY <2>5 DEF StartT2, Fields, SameModems
  <2>7. Quiet(a, b)  BY <2>5 DEF StartT2, Fields, Quiet, SameDoc
  <2> HIDE DEF b
  <2>8. /\ Fields \subseteq DOMAIN c /\ c.state = "R" /\ SameModems(b, c) /\ SameCall(b, c) /\ SameDoc(b, c)
        /\ c.buffer = b.buffer /\ c.next_phase = b.next_phase /\ c.on = b.on /\ c.tx_end = b.tx_end
    BY <2>6, StateSet
  <2> HIDE DEF c
  <2>9. /\ Fields \subseteq DOMAIN d /\ d.tx_end = FALSE /\ d.buffer = Simple("CSI")
        /\ SameModems(c, d) /\ SameTalk(c, d) /\ SameCall(c, d) /\ SameDoc(c, d) /\ d.on = c.on
    <3>1. c.buffer = NoFrame  BY <1>5, <2>2, <2>5, <2>7, <2>8 DEF Quiet, Empty
    <3> QED  BY <2>8, <3>1, FrameTaken
  <2> HIDE DEF d, t
  <2>10. /\ Fields \subseteq DOMAIN u /\ u.step = 1 /\ u.tx_end = FALSE /\ u.buffer = Simple("CSI") /\ u.on = d.on
         /\ u.state = d.state /\ u.next_phase = d.next_phase /\ SameModems(d, u) /\ SameCall(d, u)
    BY <2>9 DEF Fields, SameModems, SameCall, SameTimers
  <2>11. SameDoc(d, u)  BY <2>9 DEF Fields, SameDoc
  <2> HIDE DEF u
  <2>12. SameModems(a, u)  BY <2>6, <2>8, <2>9, <2>10 DEF SameModems
  <2>13. u.on = "off"  BY <2>5, <2>6, <2>8, <2>9, <2>10
  <2>14. Radio(u) /\ Signals(u)  BY <2>5, <2>12, <2>13, ModemsKept
  <2>15. SameDoc(s, u)  BY <1>5, <2>5, <2>7, <2>8, <2>9, <2>11 DEF Quiet, SameDoc
  <2>16. u.state = "R" /\ u.next_phase = "IDLE" /\ u.phase = "B_TX" /\ u.hears = "no"
    BY <1>5, <2>2, <2>4, <2>5, <2>7, <2>8, <2>9, <2>10, <2>12 DEF Quiet, SameTalk, SameModems, Free
  <2>17. u.timer_t2_t4 = TRUE /\ u.timer_is_t4 = FALSE /\ u.waited = FALSE /\ u.far_end_detected = a.far_end_detected
    BY <2>6, <2>8, <2>9, <2>10 DEF SameCall, SameTimers
  <2>18. u.retries = s.retries /\ u.current_status = s.current_status /\ u.timer_t0_t1 = s.timer_t0_t1
    BY <1>5, <2>5, <2>7, <2>8, <2>9, <2>10 DEF Quiet, SameCall
  <2>19. Mode(u)
    <3>1. InR(u)  BY <2>10, <2>16 DEF InR, Free
    <3> QED  BY <2>16, <3>1 DEF Mode, States
  <2>20. Sides(u)  BY <1>1, <1>9, <2>15, <2>16, <2>18 DEF Sides, SameDoc, SendStates, ReceiveStates, AnswerStates
  <2>21. Counts(u)
    <3>1. u.next_phase \in Phases \cup {"IDLE"} /\ u.step \in 0 .. 4  BY <2>10, <2>16
    <3>2. u.tx_end \in BOOLEAN  BY <2>10
    <3>3. u.far_end_detected \in BOOLEAN
      <4>1. a.far_end_detected \in BOOLEAN  BY <2>4
      <4> QED  BY <2>17, <4>1
    <3>4. u.timer_t2_t4 \in BOOLEAN /\ u.timer_is_t4 \in BOOLEAN /\ u.waited \in BOOLEAN  BY <2>17
    <3> QED  BY <1>1, <1>9, <2>15, <2>16, <2>18, <3>1, <3>2, <3>3, <3>4 DEF Counts, SameDoc, SendStates, Over
  <2>22. Carries(u)  BY <1>1, <1>9, <2>10, <2>15 DEF Carries, Simple, SameDoc
  <2>23. EndInv(u)  BY <2>10, <2>14, <2>19, <2>20, <2>21, <2>22 DEF EndInv
  <2>24. SameBook(s, u)  BY <2>15, BookOfDoc
  <2> QED  BY <1>9, <2>1, <2>10, <2>13, <2>16, <2>23, <2>24 DEF Onward, t, r
<1>10. CASE s.state = "B"
  <2> DEFINE a == SetState(r, "CALL_FINISHED")
             u == SetPhase(a, "CALL_FINISHED")
  <2>0. r.state = "B"  BY <1>5, <1>10 DEF SameTalk
  <2>1. t = u  BY <2>0 DEF SendComplete
  <2>2. /\ Fields \subseteq DOMAIN a /\ a.state = "CALL_FINISHED" /\ a.step = 0
        /\ SameModems(r, a) /\ SameCall(r, a) /\ SameDoc(r, a)
        /\ a.buffer = r.buffer /\ a.next_phase = r.next_phase /\ a.on = r.on /\ a.tx_end = r.tx_end
    BY <1>4, <2>0, StateSet
  <2> HIDE DEF a
  <2>3. Tuned(a) /\ Signals(a) /\ a.phase = "E"
    <3>1. s.phase = "E"  BY <1>1, <1>10 DEF Mode, InB
    <3> QED  BY <1>4, <1>6, <1>7, <2>2, <3>1 DEF SameModems, Tuned, Modems, Signals
  <2>4. Moved(a, u, "CALL_FINISHED") /\ SameTimers(a, u) /\ u.hears = "no" /\ u.tx_end = a.tx_end
        /\ u.far_end_detected = a.far_end_detected
    <3>1. a.tx_end \in BOOLEAN  BY <1>8, <2>2
    <3> QED  BY <2>2, <2>3, <3>1, FinishPhase DEF Calling
  <2> HIDE DEF u, t
  <2>5. Fields \subseteq DOMAIN u /\ Radio(u) /\ Signals(u) /\ Quiet(a, u) /\ u.phase = "CALL_FINISHED" /\ u.on = "off"
    BY <2>4 DEF Moved
  <2>6. SameDoc(s, u)  BY <1>5, <2>2, <2>5 DEF Quiet, SameDoc
  <2>7. SameCall(s, u)  BY <1>5, <2>2, <2>4, <2>5 DEF Quiet, SameCall, SameTimers
  <2>8. u.state = "CALL_FINISHED" /\ u.step = 0 /\ u.buffer = s.buffer /\ u.next_phase = s.next_phase
        /\ u.tx_end = s.tx_end
    BY <1>5, <2>2, <2>4, <2>5 DEF Quiet, SameTalk
  <2>9. Mode(u)  BY <2>5, <2>8 DEF Mode, States, InFinished
  <2>10. Sides(u)
    <3>1. s.timer_t0_t1 = FALSE  BY <1>1, <1>10 DEF Mode, InB
    <3> QED  BY <1>1, <2>6, <2>7, <2>8, <3>1 DEF Sides, SameDoc, SameCall, SendStates, ReceiveStates, AnswerStates
  <2>11. Counts(u)
    <3>1. u.step \in 0 .. 4  BY <2>8
    <3> QED  BY <1>1, <1>10, <2>6, <2>7, <2>8, <3>1 DEF Counts, SameDoc, SameCall, SameTimers, SendStates, Over
  <2>12. Carries(u)  BY <1>1, <2>6, <2>8 DEF Carries, SameDoc, FcdFrame, PpsFrame
  <2>13. EndInv(u)  BY <2>5, <2>9, <2>10, <2>11, <2>12 DEF EndInv
  <2>14. SameBook(s, u)  BY <2>6, BookOfDoc
  <2> QED  BY <1>10, <2>1, <2>4, <2>5, <2>8, <2>13, <2>14 DEF Onward, t, r
<1> QED  BY <1>3, <1>9, <1>10

\* A caller that has nothing to say.
LEMMA Underflows ==
  ASSUME NEW s, EndInv(s), s.on \in {"preamble", "missed"}, s.tx_hdlc, s.buffer = NoFrame
  PROVE  LET t == SendComplete([s EXCEPT !.on = "frames"]) IN
         /\ EndInv(t) /\ s.state = "T" /\ t.state = "T" /\ t.on = "frames" /\ t.hears = s.hears /\ t.buffer = s.buffer
         /\ t.phase = s.phase /\ t.tx_end = s.tx_end /\ SameDoc(s, t) /\ SameCall(s, t) /\ t.next_phase = s.next_phase
<1> DEFINE r == [s EXCEPT !.on = "frames"]
           t == SendComplete(r)
<1>1. Mode(s) /\ Radio(s) /\ Signals(s) /\ Sides(s) /\ Counts(s) /\ Carries(s) /\ Fields \subseteq DOMAIN s  BY DEF EndInv
<1>2. s.phase \in {"B_TX", "D_TX", "C_ECM_TX"} /\ s.phase \notin Hearing
  BY <1>1 DEF Radio, Tuned, Modems, Phases, TxPhases, Listening, Talking, Hearing, Receiving
<1>3. ~Ended(s) /\ \A types : "none" \notin types => ~Command(s, s.phase, types)
  BY DEF Ended, Command, NoFrame
<1>4. s.state = "T"
  <2>1. s.state \notin {"ANSWERING", "D_TCF", "D_POST_TCF", "IV_CTC"}
    BY <1>1, <1>2 DEF Mode, InAnswering, InD_TCF, InD_POST_TCF, InIV_CTC
  <2>2. s.state \notin {"F_TCF", "F_DOC", "F_POST_DOC_NON_ECM", "F_POST_DOC_ECM", "B", "CALL_FINISHED"}
    BY <1>1, <1>2 DEF Mode, InF_TCF, InF_DOC, InF_POST_DOC_NON_ECM, InF_POST_DOC_ECM, InB, InFinished
  <2>3. s.state # "R"
    BY <1>1, <1>2, <1>3 DEF Mode, InR, NoFrame, Simple, DisFrame, Held
  <2>4. s.state # "D"
    BY <1>1, <1>2, <1>3 DEF Mode, InD, NoFrame, Simple, DcsFrame, Hearing, Listening
  <2>5. s.state # "I"
    BY <1>1, <1>2 DEF Mode, InI, Hearing, Listening
  <2>6. s.state \notin {"II_Q", "IV", "IV_PPS_NULL", "IV_PPS_Q"}
    <3>1. CheckNextTxStep(s) # "none"  BY DEF CheckNextTxStep
    <3>2. s.state = "II_Q" => "none" \notin {s.next_tx_step}  BY <1>1, <3>1 DEF Mode, InII_Q
    <3> QED  BY <1>1, <1>2, <1>3, <3>2 DEF Mode, InII_Q, InIV, InIV_PPS, Asked, Command, Hearing, Listening, NoFrame, Ended, Empty
  <2>7. s.state \notin {"F_CFR", "F_FTT"}
    BY <1>1, <1>2, <1>3 DEF Mode, InF_CFR, InF_FTT, Asked, Command, NoFrame, Ended, Empty
  <2>8. s.state \notin AnswerStates \cup {"F_POST_RCP_MCF", "F_POST_RCP_PPR"} \cup {"C"}
    BY <1>1, <1>2, <1>3 DEF Mode, InIII, InC, Answer, Command, AnswerStates, NoFrame, Ended, Empty
  <2> QED  BY <1>1, <2>1, <2>2, <2>3, <2>4, <2>5, <2>6, <2>7, <2>8 DEF Mode, States, AnswerStates
<1>5. /\ Fields \subseteq DOMAIN r /\ SameModems(s, r) /\ SameTalk(s, r) /\ SameCall(s, r) /\ SameDoc(s, r)
      /\ r.buffer = s.buffer /\ r.tx_end = s.tx_end /\ r.on = "frames"
  BY <1>1, ZenonT(60) DEF Fields, SameModems, SameTalk, SameCall, SameDoc, SameTimers
<1> HIDE DEF r
<1>6. t = r
  <2>1. r.state = "T"  BY <1>4, <1>5 DEF SameTalk
  <2> QED  BY <2>1 DEF SendComplete
<1> HIDE DEF t
<1>7. Radio(r) /\ Signals(r)
  <2>1. s.tx_hdlc = TRUE  BY <1>1, <1>2 DEF Radio, Tuned, Modems, Talking
  <2> QED  BY <1>1, <1>5, <2>1, ModemsKeptFrames
<1>8. r.state = "T" /\ r.step = s.step /\ r.next_phase = s.next_phase /\ r.phase = s.phase /\ r.hears = s.hears
  BY <1>4, <1>5 DEF SameTalk, SameModems
<1>9. Mode(r)
  <2>1. InT(s)  BY <1>1, <1>4 DEF Mode
  <2>2. r.phase = "B_TX" /\ s.phase = "B_TX"  BY <1>2, <1>8, <2>1 DEF InT
  <2>3. InT(r)  BY <1>5, <1>8, <2>1, <2>2 DEF InT, Free, Empty, NoTimer, SameCall, SameTimers, SameDoc
  <2> QED  BY <1>8, <2>3 DEF Mode, States
<1>10. Sides(r)  BY <1>1, <1>4, <1>5, <1>8, SidesKept DEF SameCall
<1>11. Counts(r)
  <2>1. r.step \in 0 .. 4 /\ r.tx_end \in BOOLEAN  BY <1>1, <1>5, <1>8 DEF Counts
  <2> QED  BY <1>1, <1>4, <1>5, <1>8, <2>1, CountsKept
<1>12. Carries(r)  BY <1>1, <1>4, <1>5, <1>8 DEF Carries, SameDoc, FcdFrame, PpsFrame
<1>13. EndInv(r)  BY <1>5, <1>7, <1>9, <1>10, <1>11, <1>12 DEF EndInv
<1> QED  BY <1>4, <1>5, <1>6, <1>8, <1>13 DEF t, r

-----------------------------------------------------------------------------
(* Answers                                                                  *)

\* An end that can be told to speak.
Ready(s) ==
  /\ Fields \subseteq DOMAIN s /\ Radio(s) /\ Signals(s) /\ s.on = "off"
  /\ s.tx_end \in BOOLEAN /\ s.far_end_detected \in BOOLEAN /\ s.timer_t0_t1 \in BOOLEAN

SameRest(s, t) ==
  /\ t.retries = s.retries /\ t.current_status = s.current_status /\ t.timer_t0_t1 = s.timer_t0_t1
  /\ SameTimers(s, t) /\ SameDoc(s, t)

\* The phase follows at once, or when the far end falls silent.
Turned(s, t, phase) ==
  \/ /\ s.rx_signal_present = TRUE /\ t.rx_signal_present = TRUE /\ t.phase = s.phase
     /\ t.next_phase = phase /\ t.hears = s.hears
  \/ /\ s.rx_signal_present = FALSE /\ t.rx_signal_present = FALSE /\ t.phase = phase
     /\ t.next_phase = "IDLE" /\ t.hears = "no" /\ t.tx_end = FALSE

Queued(s, t, phase) ==
  /\ Ready(t) /\ SameRest(s, t) /\ Turned(s, t, phase)
  /\ t.state = s.state /\ t.step = s.step /\ t.buffer = s.buffer

\* An end that talks already, in another phase.
LEMMA TalkAgain ==
  ASSUME NEW s, NEW phase \in Talking, Ready(s), s.phase \in Talking, s.phase # phase, s.tx_end = FALSE
  PROVE  LET t == SetPhase(s, phase) IN
         /\ Moved(s, t, phase) /\ SameTimers(s, t) /\ t.hears = "no" /\ t.tx_end = FALSE
         /\ t.far_end_detected \in BOOLEAN
<1> DEFINE r == [s EXCEPT !.rx_signal_present = @ /\ s.phase \in {"A_CED", "A_CNG"},
                           !.rx_trained = FALSE, !.phase = phase]
           u == [r EXCEPT !.far_end_detected = @ \/ r.timer_t0_t1]
           t == SetPhase(s, phase)
<1>1. s.tx = "v21" /\ s.rx = "none" /\ s.tx_hdlc = TRUE /\ s.rx_hdlc = FALSE /\ s.transmit = TRUE /\ s.hears = "no"
      /\ s.rx_signal_present = FALSE /\ s.early \in BOOLEAN /\ s.on = "off"
  BY TalkersHearNothing DEF Ready, Radio, Tuned, Modems, Signals, Talking
<1>2. t = SetTxType(SetRxType(u, "none", FALSE), "v21", TRUE)
  BY DEF SetPhase, Talk, Talking
<1>3. /\ Fields \subseteq DOMAIN u /\ u.phase = phase /\ u.rx_trained = FALSE
      /\ u.tx = s.tx /\ u.rx = s.rx /\ u.hears = s.hears /\ u.on = s.on
      /\ u.tx_hdlc = s.tx_hdlc /\ u.rx_hdlc = s.rx_hdlc /\ u.transmit = s.transmit /\ u.early = s.early
      /\ u.tx_end = s.tx_end
  BY DEF Fields, Ready
<1>4. u.rx_signal_present = FALSE
  BY <1>1 DEF Fields, Ready
<1>5. u.far_end_detected \in BOOLEAN  BY DEF Fields, Ready
<1>6. Quiet(s, u) /\ SameTimers(s, u)  BY DEF Fields, Ready, Quiet, SameDoc, SameTimers
<1> HIDE DEF u
<1>7. t = u
  BY <1>1, <1>2, <1>3 DEF SetTxType, SetRxType
<1> HIDE DEF t
<1>8. Radio(u)  BY <1>1, <1>3 DEF Radio, Tuned, Modems, Phases, TxPhases, Listening, Talking
<1>9. Signals(u)  BY <1>1, <1>3, <1>4 DEF Signals
<1>10. Moved(s, u, phase)  BY <1>1, <1>3, <1>4, <1>6, <1>8, <1>9 DEF Moved
<1> QED  BY <1>1, <1>3, <1>5, <1>6, <1>7, <1>10 DEF t

\* queue_phase moves on at once, or leaves the phase for the end of what is heard.
LEMMA QueuePhaseFacts ==
  ASSUME NEW s, NEW phase, Ready(s),
         \/ s.phase \in Hearing /\ phase \in Talking
         \/ s.phase \in Talking /\ phase \in Talking /\ s.phase # phase /\ s.tx_end = FALSE
         \/ s.phase \in Listening /\ phase \in SendingFast
         \/ s.rx_signal_present = TRUE
  PROVE  Queued(s, QueuePhase(s, phase), phase)
<1> DEFINE t == QueuePhase(s, phase)
<1>0. Fields \subseteq DOMAIN s /\ Tuned(s) /\ Radio(s) /\ Signals(s) /\ s.on = "off"
      /\ s.tx_end \in BOOLEAN /\ s.far_end_detected \in BOOLEAN /\ s.timer_t0_t1 \in BOOLEAN
      /\ s.rx_signal_present \in BOOLEAN
  BY DEF Ready, Radio, Signals
<1>1. CASE s.rx_signal_present = TRUE
  <2>1. t = [s EXCEPT !.next_phase = phase]  BY <1>1 DEF QueuePhase
  <2> HIDE DEF t
  <2>2. /\ Fields \subseteq DOMAIN t /\ SameModems(s, t) /\ t.next_phase = phase /\ t.state = s.state
        /\ t.step = s.step /\ t.buffer = s.buffer /\ t.on = s.on
    BY <1>0, <2>1 DEF Fields, SameModems
  <2>3. /\ t.tx_end = s.tx_end /\ t.far_end_detected = s.far_end_detected /\ t.timer_t0_t1 = s.timer_t0_t1
    BY <1>0, <2>1 DEF Fields
  <2>4. SameRest(s, t)  BY <1>0, <2>1 DEF Fields, SameRest, SameTimers, SameDoc
  <2>5. Radio(t) /\ Signals(t)  BY <1>0, <2>2, ModemsKept
  <2>6. Ready(t)  BY <1>0, <2>2, <2>3, <2>5 DEF Ready
  <2>7. Turned(s, t, phase)  BY <1>1, <2>2 DEF Turned, SameModems
  <2> QED  BY <2>2, <2>4, <2>6, <2>7 DEF Queued, t
<1>2. CASE s.rx_signal_present = FALSE
  <2> DEFINE a == SetPhase(s, phase)
  <2>1. t = [a EXCEPT !.next_phase = "IDLE"]  BY <1>2 DEF QueuePhase
  <2>2. /\ Moved(s, a, phase) /\ SameTimers(s, a) /\ a.hears = "no" /\ a.tx_end = FALSE
        /\ a.far_end_detected \in BOOLEAN
    <3>1. CASE s.phase \in Hearing /\ phase \in Talking
      <4>1. s.phase \notin Calling  BY <3>1 DEF Hearing, Listening, Receiving, Calling
      <4>2. /\ Moved(s, a, phase) /\ SameTimers(s, a) /\ a.hears = "no" /\ a.tx_end = FALSE
            /\ a.far_end_detected = (s.far_end_detected \/ s.timer_t0_t1)
        BY <1>0, <3>1, <4>1, TalkPhase
      <4> HIDE DEF a
      <4> QED  BY <4>2
    <3>2. CASE s.phase \in Talking /\ phase \in Talking /\ s.phase # phase /\ s.tx_end = FALSE
      BY <3>2, TalkAgain
    <3>3. CASE s.phase \in Listening /\ phase \in SendingFast
      <4>1. /\ Moved(s, a, phase) /\ SameTimers(s, a) /\ a.hears = "no" /\ a.tx_end = FALSE
            /\ a.far_end_detected = s.far_end_detected
        BY <1>0, <3>3, TalkNonEcm, TalkEcm DEF SendingFast
      <4> HIDE DEF a
      <4> QED  BY <1>0, <4>1
    <3> QED  BY <1>2, <3>1, <3>2, <3>3
  <2> HIDE DEF a, t
  <2>3. Fields \subseteq DOMAIN a /\ Radio(a) /\ Signals(a) /\ Quiet(s, a) /\ a.phase = phase /\ a.on = "off"
        /\ a.rx_signal_present = FALSE
    BY <2>2 DEF Moved
  <2>4. /\ Fields \subseteq DOMAIN t /\ SameModems(a, t) /\ t.next_phase = "IDLE" /\ t.state = a.state
        /\ t.step = a.step /\ t.buffer = a.buffer /\ t.on = a.on
    BY <2>1, <2>3 DEF Fields, SameModems
  <2>5. /\ t.tx_end = a.tx_end /\ t.far_end_detected = a.far_end_detected /\ t.timer_t0_t1 = a.timer_t0_t1
    BY <2>1, <2>3 DEF Fields
  <2>6. SameRest(a, t)  BY <2>1, <2>3 DEF Fields, SameRest, SameTimers, SameDoc
  <2>7. Radio(t) /\ Signals(t)  BY <2>3, <2>4, ModemsKept
  <2>8. SameRest(s, t)  BY <2>2, <2>3, <2>6 DEF SameRest, Quiet, SameDoc, SameTimers
  <2>9. Ready(t)
    <3>1. t.tx_end = FALSE  BY <2>2, <2>5
    <3>2. t.tx_end \in BOOLEAN  BY <3>1
    <3>3. t.far_end_detected \in BOOLEAN  BY <2>2, <2>5
    <3>4. t.timer_t0_t1 = s.timer_t0_t1  BY <2>8 DEF SameRest
    <3> QED  BY <1>0, <2>3, <2>4, <2>7, <3>2, <3>3, <3>4 DEF Ready
  <2>10. Turned(s, t, phase)  BY <1>2, <2>2, <2>3, <2>4, <2>5 DEF Turned, SameModems
  <2>11. t.state = s.state /\ t.step = s.step /\ t.buffer = s.buffer  BY <2>3, <2>4 DEF Quiet
  <2> QED  BY <2>8, <2>9, <2>10, <2>11 DEF Queued, t
<1> QED  BY <1>0, <1>1, <1>2

\* A state with something to send, in a phase that follows.
Said(s, t, phase, state, f) ==
  /\ Ready(t) /\ SameRest(s, t) /\ Turned(s, t, phase) /\ t.state = state
  /\ s.state # state => t.step = 0
  /\ s.state = state => t.step = s.step
  /\ t.buffer = IF s.buffer = NoFrame THEN f ELSE s.buffer

\* A phase, a state and a frame ordered together: the frame is sent in that state.
LEMMA SayFacts ==
  ASSUME NEW s, NEW phase, NEW state, NEW f, Ready(s), phase \in Talking \cup SendingFast,
         \/ s.phase \in Hearing /\ phase \in Talking
         \/ s.phase \in Talking /\ phase \in Talking /\ s.phase # phase /\ s.tx_end = FALSE
         \/ s.phase \in Listening /\ phase \in SendingFast
  PROVE  /\ Said(s, SendFrame(SetState(QueuePhase(s, phase), state), f), phase, state, f)
         /\ Said(s, SetState(QueuePhase(s, phase), state), phase, state, s.buffer)
<1> DEFINE a == QueuePhase(s, phase)
           b == SetState(a, state)
           t == SendFrame(b, f)
<1>1. Queued(s, a, phase)  BY QueuePhaseFacts
<1>2. /\ Ready(a) /\ SameRest(s, a) /\ Turned(s, a, phase)
      /\ a.state = s.state /\ a.step = s.step /\ a.buffer = s.buffer
  BY <1>1 DEF Queued
<1> HIDE DEF a
<1>3. Fields \subseteq DOMAIN a  BY <1>2 DEF Ready
<1>4. /\ Fields \subseteq DOMAIN b /\ b.state = state /\ (a.state # state => b.step = 0)
      /\ (a.state = state => b.step = a.step)
      /\ SameModems(a, b) /\ SameCall(a, b) /\ SameDoc(a, b)
      /\ b.buffer = a.buffer /\ b.next_phase = a.next_phase /\ b.on = a.on /\ b.tx_end = a.tx_end
  BY <1>3, StateSet
<1> HIDE DEF b
<1>5. Ready(b)
  <2>1. Radio(b) /\ Signals(b)  BY <1>2, <1>4, ModemsKept DEF Ready
  <2> QED  BY <1>2, <1>4, <2>1 DEF Ready, SameCall
<1>6. SameRest(s, b)  BY <1>2, <1>4 DEF SameRest, SameCall, SameTimers, SameDoc
<1>7. Turned(s, b, phase)  BY <1>2, <1>4 DEF Turned, SameModems
<1>8. Said(s, b, phase, state, s.buffer)
  BY <1>2, <1>4, <1>5, <1>6, <1>7 DEF Said
<1>9. Said(s, t, phase, state, f)
  <2>1. CASE s.buffer # NoFrame
    <3>1. t = b  BY <1>2, <1>4, <2>1 DEF SendFrame
    <3> QED  BY <1>8, <2>1, <3>1 DEF Said
  <2>2. CASE s.buffer = NoFrame
    <3>1. /\ Fields \subseteq DOMAIN t /\ t.tx_end = FALSE /\ t.buffer = f
         /\ SameModems(b, t) /\ SameTalk(b, t) /\ SameCall(b, t) /\ SameDoc(b, t) /\ t.on = b.on
      <4>1. b.buffer = NoFrame  BY <1>2, <1>4, <2>2
      <4>2. Fields \subseteq DOMAIN b  BY <1>4
      <4> QED  BY <4>1, <4>2, FrameTaken
    <3> HIDE DEF t
    <3>2. Ready(t)
      <4>1. Radio(t) /\ Signals(t)  BY <1>5, <3>1, ModemsKept DEF Ready
      <4>2. t.tx_end \in BOOLEAN  BY <3>1
      <4> QED  BY <1>5, <3>1, <4>1, <4>2 DEF Ready, SameCall
    <3>3. SameRest(s, t)  BY <1>6, <3>1 DEF SameRest, SameCall, SameTimers, SameDoc
    <3>4. Turned(s, t, phase)  BY <1>7, <3>1 DEF Turned, SameModems, SameTalk
    <3>5. t.state = b.state /\ t.step = b.step  BY <3>1 DEF SameTalk
    <3> QED  BY <1>2, <1>4, <2>2, <3>1, <3>2, <3>3, <3>4, <3>5 DEF Said
  <2> QED  BY <2>1, <2>2
<1> QED  BY <1>8, <1>9 DEF t, b, a

\* What an end is when it has heard a frame.
HeardAs(s, r, final) ==
  /\ Ready(r) /\ SameModems(s, r) /\ SameTalk(s, r) /\ SameDoc(s, r)
  /\ r.buffer = s.buffer /\ r.on = s.on /\ r.tx_end = s.tx_end
  /\ r.retries = s.retries /\ r.current_status = s.current_status /\ r.far_end_detected = s.far_end_detected
  /\ r.timer_is_t4 = s.timer_is_t4 /\ r.waited = FALSE
  /\ r.timer_t2_t4 \in BOOLEAN /\ (final => r.timer_t2_t4 = FALSE)
  /\ ~final /\ s.timer_is_t4 = TRUE => r.timer_t2_t4 = TRUE
  /\ (final => r.timer_t0_t1 = FALSE) /\ (~final => r.timer_t0_t1 = s.timer_t0_t1)

\* How a frame may come to be heard.
Comes(m, quality) == quality \in {"GOOD", "POOR", "BAD"} \/ (quality = "CUT" /\ ~Final(m))

\* What hdlc_accept does before the handler of a frame: a final frame stops the timers, another one starts T4 again.
LEMMA HeardFacts ==
  ASSUME NEW s, NEW m, NEW cut \in BOOLEAN, EndInv(s), s.on = "off"
  PROVE  HeardAs(s, Heard(s, m, cut), Final(m))
<1> DEFINE r == Heard(s, m, cut)
<1>1. Fields \subseteq DOMAIN s /\ Radio(s) /\ Signals(s) /\ Counts(s)  BY DEF EndInv
<1>2. Final(m) \in BOOLEAN  BY DEF Final
<1>3. s.tx_end \in BOOLEAN /\ s.far_end_detected \in BOOLEAN /\ s.timer_t0_t1 \in BOOLEAN /\ s.timer_is_t4 \in BOOLEAN
  BY <1>1 DEF Counts
<1> HIDE DEF Final
<1>4. Fields \subseteq DOMAIN r /\ SameModems(s, r) /\ SameTalk(s, r)
  BY <1>1 DEF Heard, Fields, SameModems, SameTalk
<1>5. SameDoc(s, r)  BY <1>1 DEF Heard, Fields, SameDoc
<1>6. /\ r.buffer = s.buffer /\ r.on = s.on /\ r.tx_end = s.tx_end
      /\ r.retries = s.retries /\ r.current_status = s.current_status /\ r.far_end_detected = s.far_end_detected
      /\ r.timer_is_t4 = s.timer_is_t4 /\ r.waited = FALSE
  BY <1>1 DEF Heard, Fields
<1>7. r.timer_t2_t4 = ((s.timer_is_t4 \/ cut) /\ ~Final(m)) /\ r.timer_t0_t1 = (s.timer_t0_t1 /\ ~Final(m))
  BY <1>1 DEF Heard, Fields
<1> HIDE DEF r
<1>8. (Final(m) => r.timer_t0_t1 = FALSE) /\ (~Final(m) => r.timer_t0_t1 = s.timer_t0_t1) /\ r.timer_t0_t1 \in BOOLEAN
  BY <1>2, <1>3, <1>7
<1>9. r.timer_t2_t4 \in BOOLEAN /\ (Final(m) => r.timer_t2_t4 = FALSE)
       /\ (~Final(m) /\ s.timer_is_t4 = TRUE => r.timer_t2_t4 = TRUE)
  BY <1>2, <1>3, <1>7
<1>10. Radio(r) /\ Signals(r)  BY <1>1, <1>4, <1>6, ModemsKept
<1>11. Ready(r)  BY <1>3, <1>4, <1>6, <1>8, <1>10 DEF Ready
<1> QED  BY <1>4, <1>5, <1>6, <1>8, <1>9, <1>11 DEF HeardAs, r

-----------------------------------------------------------------------------
(* The counters, apart from and together with the state                     *)

\* What holds of the counters in every state.
Whole(s) ==
  /\ s.tx_file \in BOOLEAN /\ s.rx_file \in BOOLEAN /\ s.rx_file # s.tx_file
  /\ s.rx_file = TRUE => s.page = 1 /\ s.ppr_count = 0
  /\ s.ecm \in BOOLEAN /\ s.ecm_allowed \in BOOLEAN /\ (s.ecm = TRUE => s.ecm_allowed = TRUE)
  /\ s.ecm # s.ecm_allowed => s.page = 1 /\ s.ecm_block = 0 /\ s.image = <<>> /\ s.got = {}
  /\ s.retries \in 0 .. Tries + 1 /\ s.page \in 1 .. Pages + 1
  /\ s.ecm_block \in 0 .. Blocks /\ (s.ecm_allowed = FALSE => s.ecm_block = 0)
  /\ s.ecm_at_page_end \in BOOLEAN /\ s.ppr_count \in 0 .. 4
  /\ s.ecm_len \subseteq 1 .. BlockFrames
  /\ s.ecm_current_frame \in 0 .. BlockFrames + ExtraRcp + 1
  /\ s.current_status \in {"OK", "NOCARRIER", "ERROR"}
  /\ s.next_tx_step \in Steps /\ s.next_rx_step \in Steps
  /\ s.timer_t2_t4 \in BOOLEAN /\ s.timer_is_t4 \in BOOLEAN /\ s.waited \in BOOLEAN
  /\ s.in_message \in BOOLEAN /\ s.compatible \in BOOLEAN

\* What the state says of them.
Stands(s) ==
  /\ s.state \in SendStates => s.tx_file = TRUE
  /\ s.state \in ReceiveStates => s.rx_file = TRUE
  /\ s.timer_t0_t1 = TRUE => s.state \in {"ANSWERING", "T", "R", "C", "CALL_FINISHED"}
  /\ s.state \in SendStates \cup ReceiveStates => s.ecm = s.ecm_allowed
  /\ s.state \notin Over => s.retries <= Tries /\ s.page <= Pages
  /\ s.ecm = TRUE /\ s.state \in SendStates =>
       /\ s.ecm_block \in 1 .. Blocks
       /\ s.ecm_block = Blocks => s.ecm_at_page_end = TRUE
       /\ s.ecm_block # Blocks => s.ecm_at_page_end = FALSE
  /\ s.state \in SendStates \ {"IV_CTC"} => s.ppr_count <= 3

\* The side and the counts of an end fall into a part that holds while it changes state ...
LEMMA Parts ==
  ASSUME NEW s, Sides(s), Counts(s)
  PROVE  Whole(s) /\ Stands(s)
<1>1. Whole(s)  BY DEF Whole, Sides, Counts
<1>2. Stands(s)  BY DEF Stands, Sides, Counts
<1> QED  BY <1>1, <1>2

\* ... and a part that does not, and are made of them again.
LEMMA Joined ==
  ASSUME NEW s, Whole(s), Stands(s), Ready(s), s.step \in 0 .. 4, s.next_phase \in Phases \cup {"IDLE"}
  PROVE  Sides(s) /\ Counts(s)
<1>1. Sides(s)  BY DEF Whole, Stands, Sides
<1>2. Counts(s)
  <2>1. s.far_end_detected \in BOOLEAN /\ s.timer_t0_t1 \in BOOLEAN /\ s.tx_end \in BOOLEAN  BY DEF Ready
  <2> QED  BY <2>1 DEF Whole, Stands, Counts
<1> QED  BY <1>1, <1>2

\* The first part is kept by a step that leaves its fields alone.
LEMMA WholeKept ==
  ASSUME NEW s, NEW t, Whole(s), SameRest(s, t)
  PROVE  Whole(t)
BY DEF Whole, SameRest, SameTimers, SameDoc

\* Two such steps in a row are one.
LEMMA RestKept ==
  ASSUME NEW r, NEW s, NEW t, SameRest(r, s), SameRest(s, t)
  PROVE  SameRest(r, t)
BY DEF SameRest, SameTimers, SameDoc

\* Where the phase turns to when an end that hears V.21 has something to say.
LEMMA TurnedPhase ==
  ASSUME NEW s, NEW t, NEW phase, Turned(s, t, phase), Signals(s),
         s.rx_signal_present = TRUE => s.hears = "v21" /\ s.phase \in Hearing
  PROVE  \/ Held(t, phase) /\ t.phase \in Hearing /\ t.phase = s.phase /\ t.hears = s.hears
         \/ t.phase = phase /\ Free(t) /\ t.tx_end = FALSE /\ t.hears = "no"
BY DEF Turned, Held, Free

\* An end that gives up says DCN.
LEMMA DcnSent ==
  ASSUME NEW r, Ready(r), Whole(r),
         r.rx_signal_present = TRUE => r.hears = "v21" /\ r.phase \in Hearing,
         r.phase \in Hearing \/ (r.phase = "B_TX" /\ r.tx_end = FALSE),
         r.buffer = NoFrame \/ r.buffer.type \in {"DCN", "TSI", "CTC"},
         r.state = "C" => r.step = 0,
         NoTimer(r) \/ r.timer_is_t4 = TRUE
  PROVE  LET t == SendDcn(r) IN
         /\ EndInv(t) /\ SameRest(r, t) /\ t.state = "C" /\ t.on = "off" /\ Turned(r, t, "D_TX")
         /\ t.buffer = IF r.buffer = NoFrame THEN Simple("DCN") ELSE r.buffer
<1> DEFINE t == SendDcn(r)
<1>1. Said(r, t, "D_TX", "C", Simple("DCN"))
  <2>1. t = SendFrame(SetState(QueuePhase(r, "D_TX"), "C"), Simple("DCN"))  BY DEF SendDcn, Say
  <2>2. r.phase = "B_TX" => r.phase \in Talking /\ r.phase # "D_TX"  BY DEF Talking
  <2> QED  BY <2>1, <2>2, SayFacts DEF Talking
<1> HIDE DEF t
<1>2. /\ Ready(t) /\ SameRest(r, t) /\ Turned(r, t, "D_TX") /\ t.state = "C"
      /\ (r.state # "C" => t.step = 0) /\ (r.state = "C" => t.step = r.step)
      /\ t.buffer = IF r.buffer = NoFrame THEN Simple("DCN") ELSE r.buffer
  BY <1>1 DEF Said
<1>3. t.step = 0  BY <1>2
<1>4. Fields \subseteq DOMAIN t /\ Radio(t) /\ Signals(t) /\ t.on = "off"  BY <1>2 DEF Ready
<1>5. t.buffer.type \in {"DCN", "TSI", "CTC"}  BY <1>2 DEF Simple
<1>6. \/ Held(t, "D_TX") /\ t.phase \in Hearing
      \/ t.phase = "D_TX" /\ Free(t) /\ t.tx_end = FALSE
  <2>1. Signals(r)  BY DEF Ready
  <2> QED  BY <1>2, <2>1, TurnedPhase
<1>7. InC(t)
  <2>1. Answer(t, {"DCN", "TSI", "CTC"})  BY <1>3, <1>5, <1>6 DEF Answer, Command
  <2>2. NoTimer(t) \/ t.timer_is_t4 = TRUE  BY <1>2 DEF NoTimer, SameRest, SameTimers
  <2> QED  BY <2>1, <2>2 DEF InC
<1>8. Mode(t)  BY <1>2, <1>7 DEF Mode, States
<1>9. Whole(t)  BY <1>2, WholeKept
<1>10. Stands(t)  BY <1>2 DEF Stands, SendStates, ReceiveStates, AnswerStates, Over
<1>11. t.next_phase \in Phases \cup {"IDLE"}  BY <1>6 DEF Held, Free, Phases, TxPhases
<1>12. t.step \in 0 .. 4  BY <1>3
<1>13. Sides(t) /\ Counts(t)  BY <1>2, <1>9, <1>10, <1>11, <1>12, Joined
<1>14. Carries(t)  BY <1>2, <1>5 DEF Carries
<1>15. EndInv(t)  BY <1>4, <1>8, <1>13, <1>14 DEF EndInv
<1> QED  BY <1>2, <1>4, <1>15 DEF t

-----------------------------------------------------------------------------
(* An end that is told something                                            *)

\* An end that has nothing ready to say yet, unless it is DCN.
Attends(s) ==
  /\ EndInv(s) /\ s.hears \in {"v21", "fast"}
  /\ s.hears = "v21" /\ s.next_phase # "IDLE" => s.state = "C"

\* An end that hears a signal is in a phase that listens, and sends no frames.
LEMMA HearingPhase ==
  ASSUME NEW s, Tuned(s), Signals(s), s.hears \in {"v21", "fast"}
  PROVE  s.phase \in Calling \cup Hearing /\ s.on = "off"
<1>1. s.phase \in Calling \cup Hearing
  BY DEF Tuned, Modems, Signals, Phases, TxPhases, Calling, Hearing, Listening, Receiving, Talking
<1>2. s.on = "off"
  BY <1>1 DEF Tuned, Modems, Signals, Calling, Hearing, Listening, Receiving
<1> QED  BY <1>1, <1>2

\* The states in which an end listens.
LEMMA Attending ==
  ASSUME NEW s, Attends(s)
  PROVE  /\ s.on = "off" /\ s.phase \in Hearing
         /\ \/ s.state = "T" /\ s.phase = "B_RX" /\ Free(s) /\ Empty(s)
            \/ s.state = "R" /\ s.phase = "B_RX" /\ Free(s) /\ Empty(s) /\ s.step = 3 /\ s.timer_is_t4 = TRUE
            \/ /\ s.state = "D" /\ s.phase = "B_RX" /\ Free(s) /\ s.buffer = Simple("TSI") /\ s.step = 2
               /\ s.timer_is_t4 = TRUE
            \/ s.state = "D_POST_TCF" /\ s.phase = "B_RX" /\ Free(s) /\ Empty(s) /\ s.step = 0
            \/ s.state = "F_FTT" /\ s.phase = "B_RX" /\ Free(s) /\ Empty(s) /\ s.step = 1
            \/ s.state \in {"II_Q", "IV_PPS_NULL", "IV_PPS_Q"} /\ s.phase = "D_RX" /\ Free(s) /\ Empty(s)
               /\ s.step = 1
            \/ s.state = "IV_CTC" /\ s.phase = "D_RX" /\ Free(s) /\ s.buffer = Simple("CTC") /\ s.step = 0
            \/ s.state = "F_TCF" /\ s.phase = "C_NON_ECM_RX" /\ Free(s) /\ Empty(s) /\ s.step = 0
            \/ /\ s.state = "F_DOC" /\ s.phase = (IF s.ecm THEN "C_ECM_RX" ELSE "C_NON_ECM_RX")
               /\ Free(s) /\ Empty(s) /\ s.step = 0
            \/ s.state = "F_POST_DOC_NON_ECM" /\ s.phase = "D_RX" /\ Free(s) /\ Empty(s) /\ s.step = 0
            \/ /\ s.state = "F_POST_DOC_ECM" /\ Empty(s) /\ s.step = 0
               /\ \/ s.phase = "C_ECM_RX" /\ s.hears = "fast" /\ s.next_phase = "D_RX" /\ s.rx_signal_present = TRUE
                  \/ s.phase = "D_RX" /\ Free(s)
            \/ s.state = "C" /\ Held(s, "D_TX") /\ s.step = 0 /\ s.buffer.type \in {"DCN", "TSI", "CTC"}
<1>1. Mode(s) /\ Tuned(s) /\ Signals(s)  BY DEF Attends, EndInv, Radio
<1>2. s.phase \in Calling \cup Hearing /\ s.on = "off" /\ s.hears # "no"
  BY <1>1, HearingPhase DEF Attends
<1>3. s.state \notin {"ANSWERING", "D_TCF", "F_CFR", "B", "CALL_FINISHED"}
  BY <1>1, <1>2 DEF Mode, InAnswering, InD_TCF, InF_CFR, InB, InFinished, Command, Calling, Hearing,
     Listening, Receiving
<1>4. s.state \notin {"I", "IV"}
  <2>1. \A next : Held(s, next) /\ next # "IDLE" => s.state = "C"  BY DEF Held, Attends
  <2> QED  BY <1>1, <1>2, <2>1 DEF Mode, InI, InIV, Command, Calling, Hearing, Listening, Receiving
<1>5. s.state \notin {"III_Q_MCF", "III_Q_RTP", "III_Q_RTN", "F_POST_RCP_MCF", "F_POST_RCP_PPR"}
  <2>1. \A next : Held(s, next) /\ next # "IDLE" => s.state = "C"  BY DEF Held, Attends
  <2>2. \A types : Answer(s, types) => Held(s, "D_TX")
    BY <1>2 DEF Answer, Command, Calling, Hearing, Listening, Receiving
  <2> QED  BY <1>1, <2>1, <2>2 DEF Mode, InIII
<1>6. s.state \in {"T", "R", "D", "D_POST_TCF"} =>
      \/ s.state = "T" /\ s.phase = "B_RX" /\ Free(s) /\ Empty(s)
      \/ s.state = "R" /\ s.phase = "B_RX" /\ Free(s) /\ Empty(s) /\ s.step = 3 /\ s.timer_is_t4 = TRUE
      \/ /\ s.state = "D" /\ s.phase = "B_RX" /\ Free(s) /\ s.buffer = Simple("TSI") /\ s.step = 2
         /\ s.timer_is_t4 = TRUE
      \/ s.state = "D_POST_TCF" /\ s.phase = "B_RX" /\ Free(s) /\ Empty(s) /\ s.step = 0
  <2>1. \A next : Held(s, next) /\ next # "IDLE" => s.state = "C"  BY DEF Held, Attends
  <2>2. s.phase # "B_TX"  BY <1>2 DEF Calling, Hearing, Listening, Receiving
  <2>3. CASE s.state = "T"
    BY <1>1, <1>2, <2>2, <2>3 DEF Mode, InT
  <2>4. CASE s.state = "R"
    BY <1>1, <2>1, <2>2, <2>4 DEF Mode, InR
  <2>5. CASE s.state = "D"
    BY <1>1, <2>1, <2>2, <2>5 DEF Mode, InD
  <2>6. CASE s.state = "D_POST_TCF"
    BY <1>1, <2>6 DEF Mode, InD_POST_TCF
  <2> QED  BY <2>3, <2>4, <2>5, <2>6
<1>7. s.state \in {"F_FTT", "II_Q", "IV_PPS_NULL", "IV_PPS_Q", "IV_CTC"} =>
      \/ s.state = "F_FTT" /\ s.phase = "B_RX" /\ Free(s) /\ Empty(s) /\ s.step = 1
      \/ s.state \in {"II_Q", "IV_PPS_NULL", "IV_PPS_Q"} /\ s.phase = "D_RX" /\ Free(s) /\ Empty(s)
         /\ s.step = 1
      \/ s.state = "IV_CTC" /\ s.phase = "D_RX" /\ Free(s) /\ s.buffer = Simple("CTC") /\ s.step = 0
  <2>1. \A phase, types : Command(s, phase, types) => phase \in Calling \cup Hearing  BY <1>2 DEF Command
  <2>2. \A types : ~Command(s, "B_TX", types) /\ ~Command(s, "D_TX", types)
    BY <2>1 DEF Calling, Hearing, Listening, Receiving
  <2> QED  BY <1>1, <2>2 DEF Mode, InF_FTT, InII_Q, InIV_PPS, InIV_CTC, Asked
<1>8. s.state \in {"F_TCF", "F_DOC", "F_POST_DOC_NON_ECM", "F_POST_DOC_ECM"} =>
      \/ s.state = "F_TCF" /\ s.phase = "C_NON_ECM_RX" /\ Free(s) /\ Empty(s) /\ s.step = 0
      \/ /\ s.state = "F_DOC" /\ s.phase = (IF s.ecm THEN "C_ECM_RX" ELSE "C_NON_ECM_RX")
         /\ Free(s) /\ Empty(s) /\ s.step = 0
      \/ s.state = "F_POST_DOC_NON_ECM" /\ s.phase = "D_RX" /\ Free(s) /\ Empty(s) /\ s.step = 0
      \/ /\ s.state = "F_POST_DOC_ECM" /\ Empty(s) /\ s.step = 0
         /\ \/ s.phase = "C_ECM_RX" /\ s.hears = "fast" /\ s.next_phase = "D_RX" /\ s.rx_signal_present = TRUE
            \/ s.phase = "D_RX" /\ Free(s)
  BY <1>1 DEF Mode, InF_TCF, InF_DOC, InF_POST_DOC_NON_ECM, InF_POST_DOC_ECM
<1>9. s.state = "C" => Held(s, "D_TX") /\ s.step = 0 /\ s.buffer.type \in {"DCN", "TSI", "CTC"}
  BY <1>1, <1>2 DEF Mode, InC, Answer, Command, Calling, Hearing, Listening, Receiving
<1>10. s.phase \in Hearing
  <2>1. CASE s.state = "C"
    BY <1>1, <1>2, <2>1 DEF Mode, InC, Answer, Command, Calling, Hearing, Listening, Receiving
  <2>2. CASE s.state # "C"
    BY <1>1, <1>3, <1>4, <1>5, <1>6, <1>7, <1>8, <2>2 DEF Mode, States, Hearing, Listening, Receiving
  <2> QED  BY <2>1, <2>2
<1>11. s.state \in States  BY <1>1 DEF Mode
<1>12. \/ s.state \in {"T", "R", "D", "D_POST_TCF"}
       \/ s.state \in {"F_FTT", "II_Q", "IV_PPS_NULL", "IV_PPS_Q", "IV_CTC"}
       \/ s.state \in {"F_TCF", "F_DOC", "F_POST_DOC_NON_ECM", "F_POST_DOC_ECM"}
       \/ s.state = "C"
  BY <1>3, <1>4, <1>5, <1>11 DEF States
<1>13. CASE s.state \in {"T", "R", "D", "D_POST_TCF"}  BY <1>2, <1>6, <1>10, <1>13
<1>14. CASE s.state \in {"F_FTT", "II_Q", "IV_PPS_NULL", "IV_PPS_Q", "IV_CTC"}  BY <1>2, <1>7, <1>10, <1>14
<1>15. CASE s.state \in {"F_TCF", "F_DOC", "F_POST_DOC_NON_ECM", "F_POST_DOC_ECM"}  BY <1>2, <1>8, <1>10, <1>15
<1>16. CASE s.state = "C"  BY <1>2, <1>9, <1>10, <1>16
<1> QED  BY <1>12, <1>13, <1>14, <1>15, <1>16

\* All but the counters and the document.
SameMachine(s, t) ==
  /\ SameModems(s, t) /\ SameTalk(s, t) /\ t.buffer = s.buffer /\ t.on = s.on /\ t.tx_end = s.tx_end
  /\ t.far_end_detected = s.far_end_detected /\ t.timer_t0_t1 = s.timer_t0_t1 /\ SameTimers(s, t)

\* A record with the same machine is as ready as the first.
LEMMA MachineKept ==
  ASSUME NEW s, NEW t, Ready(s), SameMachine(s, t), Fields \subseteq DOMAIN t
  PROVE  Ready(t)
<1>1. Radio(t) /\ Signals(t)  BY ModemsKept DEF Ready, SameMachine
<1> QED  BY <1>1 DEF Ready, SameMachine

\* Fail sets the status and nothing else.
LEMMA FailFacts ==
  ASSUME NEW s, Fields \subseteq DOMAIN s
  PROVE  LET t == Fail(s) IN
         /\ Fields \subseteq DOMAIN t /\ SameMachine(s, t) /\ SameDoc(s, t) /\ t.retries = s.retries
         /\ t.current_status = "ERROR"
BY DEF Fail, Fields, SameMachine, SameModems, SameTalk, SameTimers, SameDoc

\* An error changes none of the counts.
LEMMA WholeFailed ==
  ASSUME NEW s, NEW t, Whole(s), SameTimers(s, t), SameDoc(s, t), t.retries = s.retries,
         t.current_status = "ERROR"
  PROVE  Whole(t)
BY DEF Whole, SameTimers, SameDoc

\* An end that has heard a frame is as it was, but for its timers.
LEMMA HeardEnd ==
  ASSUME NEW s, NEW r, NEW final \in BOOLEAN, Attends(s), HeardAs(s, r, final)
  PROVE  /\ Ready(r) /\ Whole(r) /\ Stands(r) /\ r.step \in 0 .. 4 /\ r.next_phase \in Phases \cup {"IDLE"}
         /\ r.phase \in Hearing
         /\ s.hears = "v21" => r.hears = "v21"
<1>1. Sides(s) /\ Counts(s) /\ Whole(s) /\ Stands(s)  BY Parts DEF Attends, EndInv
<1>2. s.phase \in Hearing  BY Attending
<1>3. /\ Ready(r) /\ SameModems(s, r) /\ SameTalk(s, r) /\ SameDoc(s, r)
      /\ r.retries = s.retries /\ r.current_status = s.current_status /\ r.timer_is_t4 = s.timer_is_t4
      /\ r.waited = FALSE /\ r.timer_t2_t4 \in BOOLEAN
      /\ (final => r.timer_t0_t1 = FALSE) /\ (~final => r.timer_t0_t1 = s.timer_t0_t1)
  BY DEF HeardAs
<1>4. Whole(r)
  <2>1. r.timer_t2_t4 \in BOOLEAN /\ r.waited \in BOOLEAN  BY <1>3
  <2> QED  BY <1>1, <1>3, <2>1 DEF Whole, SameDoc
<1>5. Stands(r)  BY <1>1, <1>3 DEF Stands, SameDoc, SameTalk
<1>6. r.step \in 0 .. 4 /\ r.next_phase \in Phases \cup {"IDLE"}
  BY <1>1, <1>3 DEF Counts, SameTalk
<1> QED  BY <1>2, <1>3, <1>4, <1>5, <1>6 DEF SameModems

\* What holds of the other end whatever an end has been told.
Settles(s, t) ==
  /\ EndInv(t) /\ t.on = "off" /\ t.hears \in {"no", s.hears}
  /\ t.tx_file = s.tx_file /\ t.rx_file = s.rx_file /\ t.ecm_allowed = s.ecm_allowed

GivesUp(s, t) ==
  /\ Settles(s, t) /\ t.state = "C" /\ NoTimer(t)
  /\ t.buffer = IF s.buffer = NoFrame THEN Simple("DCN") ELSE s.buffer

\* A frame that an end does not expect.
LEMMA UnexpectedHeard ==
  ASSUME NEW s, NEW r, Attends(s), HeardAs(s, r, TRUE), s.hears = "v21"
  PROVE  LET t == Unexpected(r) IN GivesUp(s, t) /\ SameDoc(s, t) /\ t.retries = s.retries
<1> DEFINE a == Fail(r)
           t == SendDcn(a)
<1>1. /\ Ready(r) /\ Whole(r) /\ r.phase \in Hearing /\ r.hears = "v21"
  BY HeardEnd
<1>2. /\ s.phase \in Hearing /\ (s.state = "C" => s.step = 0)
      /\ (s.buffer = NoFrame \/ s.buffer.type \in {"DCN", "TSI", "CTC"})
  <2>1. s.phase \in Hearing /\ (s.state = "C" => s.step = 0)  BY Attending
  <2>2. Empty(s) \/ s.buffer \in {Simple("TSI"), Simple("CTC")} \/ s.buffer.type \in {"DCN", "TSI", "CTC"}
    BY Attending
  <2> QED  BY <2>1, <2>2 DEF Empty, Simple
<1>3. /\ SameModems(s, r) /\ SameTalk(s, r) /\ SameDoc(s, r) /\ r.buffer = s.buffer
      /\ r.retries = s.retries /\ r.timer_t2_t4 = FALSE
  BY DEF HeardAs
<1>4. Fields \subseteq DOMAIN a /\ SameMachine(r, a) /\ SameDoc(r, a) /\ a.retries = r.retries
      /\ a.current_status = "ERROR"
  BY <1>1, FailFacts DEF Ready
<1>5. Unexpected(r) = t  BY DEF Unexpected
<1> HIDE DEF a
<1>6. Ready(a)  BY <1>1, <1>4, MachineKept
<1>7. Whole(a)  BY <1>1, <1>4, WholeFailed DEF SameMachine
<1>8. /\ a.hears = "v21" /\ a.phase \in Hearing /\ a.buffer = s.buffer /\ a.state = s.state /\ a.step = s.step
      /\ a.timer_t2_t4 = FALSE
  BY <1>1, <1>3, <1>4 DEF SameMachine, SameModems, SameTalk, SameTimers
<1>9. /\ EndInv(t) /\ SameRest(a, t) /\ t.state = "C" /\ t.on = "off" /\ Turned(a, t, "D_TX")
      /\ t.buffer = IF a.buffer = NoFrame THEN Simple("DCN") ELSE a.buffer
  BY <1>2, <1>6, <1>7, <1>8, DcnSent DEF NoTimer
<1> HIDE DEF t
<1>10. t.hears \in {"no", s.hears}  BY <1>8, <1>9 DEF Turned
<1>11. SameDoc(s, t) /\ t.retries = s.retries /\ NoTimer(t)
  BY <1>3, <1>4, <1>8, <1>9 DEF SameRest, SameDoc, SameTimers, NoTimer
<1> QED  BY <1>5, <1>8, <1>9, <1>10, <1>11 DEF GivesUp, Settles, SameDoc, t

\* DCN.
LEMMA DcnHeard ==
  ASSUME NEW s, NEW r, Attends(s), HeardAs(s, r, TRUE)
  PROVE  LET t == ProcessDcn(r) IN
         Settles(s, t) /\ SameDoc(s, t) /\ t.state = "B" /\ t.hears = "no" /\ t.phase = "E"
<1> DEFINE a == IF r.state = "F_POST_DOC_NON_ECM" \/ (r.state = "II_Q" /\ r.next_tx_step = "MPS")
                THEN Fail(r) ELSE r
           t == Disconnect(a)
<1>1. /\ Ready(r) /\ Whole(r) /\ Stands(r) /\ r.step \in 0 .. 4 /\ r.next_phase \in Phases \cup {"IDLE"}
      /\ r.phase \in Hearing
  BY HeardEnd
<1>2. /\ SameDoc(s, r) /\ r.buffer = s.buffer /\ r.retries = s.retries  BY DEF HeardAs
<1>3. Fields \subseteq DOMAIN a /\ SameMachine(r, a) /\ SameDoc(r, a) /\ a.retries = r.retries
      /\ (a.current_status = "ERROR" \/ a.current_status = r.current_status)
  <2>1. CASE a = Fail(r)  BY <1>1, <2>1, FailFacts DEF Ready
  <2>2. CASE a = r  BY <1>1, <2>2 DEF Ready, SameMachine, SameModems, SameTalk, SameTimers, SameDoc
  <2> QED  BY <2>1, <2>2
<1>4. ProcessDcn(r) = t  BY DEF ProcessDcn
<1> HIDE DEF a
<1>5. Ready(a)  BY <1>1, <1>3, MachineKept
<1>6. Whole(a)  BY <1>1, <1>3 DEF Whole, SameMachine, SameTimers, SameDoc
<1>7. Stands(a)  BY <1>1, <1>3 DEF Stands, SameMachine, SameTalk, SameDoc
<1>8. a.step \in 0 .. 4 /\ a.next_phase \in Phases \cup {"IDLE"} /\ a.phase \in Hearing
  BY <1>1, <1>3 DEF SameMachine, SameTalk, SameModems
<1>9. Sides(a) /\ Counts(a)  BY <1>5, <1>6, <1>7, <1>8, Joined
<1>10. a.phase \notin {"E", "CALL_FINISHED"} /\ a.phase \notin Calling
  BY <1>8 DEF Hearing, Listening, Receiving, Calling
<1>11. /\ Fields \subseteq DOMAIN t /\ Radio(t) /\ Signals(t) /\ Mode(t) /\ Sides(t) /\ Counts(t)
       /\ SameDoc(a, t) /\ t.state = "B" /\ t.hears = "no" /\ t.buffer = a.buffer /\ t.on = "off"
       /\ t.phase = "E"
  BY <1>5, <1>9, <1>10, DisconnectFacts DEF Ready, Radio
<1> HIDE DEF t
<1>12. SameDoc(s, t)  BY <1>2, <1>3, <1>11 DEF SameDoc
<1>13. t.buffer = s.buffer  BY <1>2, <1>3, <1>11 DEF SameMachine
<1>14. Carries(t)
  <2>1. Carries(s)  BY DEF Attends, EndInv
  <2> QED  BY <1>11, <1>12, <1>13, <2>1 DEF Carries, SameDoc, FcdFrame, PpsFrame
<1>15. EndInv(t)  BY <1>11, <1>14 DEF EndInv
<1> QED  BY <1>4, <1>11, <1>12, <1>15 DEF Settles, SameDoc, t

\* A frame that is not the last.
LEMMA IdentityHeard ==
  ASSUME NEW s, NEW r, Attends(s), HeardAs(s, r, FALSE), s.state = "F_TCF" => s.hears = "v21",
         s.state = "C" => s.timer_is_t4 = TRUE
  PROVE  /\ Settles(s, r) /\ SameDoc(s, r) /\ r.state = s.state /\ r.hears = s.hears /\ r.buffer = s.buffer
         /\ r.next_phase = s.next_phase /\ r.timer_is_t4 = s.timer_is_t4 /\ r.retries = s.retries
         /\ r.phase = s.phase
<1>1. /\ Ready(r) /\ Whole(r) /\ Stands(r) /\ r.step \in 0 .. 4 /\ r.next_phase \in Phases \cup {"IDLE"}
      /\ r.phase \in Hearing
  BY HeardEnd
<1>2. /\ SameModems(s, r) /\ SameTalk(s, r) /\ SameDoc(s, r)
      /\ r.buffer = s.buffer /\ r.on = s.on /\ r.tx_end = s.tx_end /\ r.retries = s.retries
      /\ r.timer_is_t4 = s.timer_is_t4 /\ r.timer_t0_t1 = s.timer_t0_t1
      /\ r.timer_t2_t4 \in BOOLEAN /\ (s.timer_is_t4 = TRUE => r.timer_t2_t4 = TRUE)
  BY DEF HeardAs
<1>3. /\ Mode(s) /\ Carries(s)  BY DEF Attends, EndInv
<1>4. /\ r.state = s.state /\ r.step = s.step /\ r.next_phase = s.next_phase /\ r.phase = s.phase
      /\ r.hears = s.hears /\ r.rx_signal_present = s.rx_signal_present
  BY <1>2 DEF SameModems, SameTalk
<1>5. Sides(r) /\ Counts(r)  BY <1>1, Joined
<1>6. Carries(r)  BY <1>2, <1>3, <1>4 DEF Carries, SameDoc, FcdFrame, PpsFrame
<1>7. Mode(r)
  <2>1. r.state \in States  BY <1>3, <1>4 DEF Mode
  <2>2. CASE s.state \in {"T", "R", "D", "D_POST_TCF"}
    <3>1. s.state = "T" => InT(r)
      <4>1. s.state = "T" => s.phase = "B_RX" /\ InT(s)  BY <1>3, Attending DEF Mode
      <4> QED  BY <1>2, <1>4, <4>1 DEF InT, Free, Empty
    <3>2. s.state = "R" => InR(r)
      <4>1. s.state = "R" => s.phase = "B_RX" /\ Free(s) /\ Empty(s) /\ s.step = 3 /\ s.timer_is_t4 = TRUE
        BY Attending
      <4> QED  BY <1>2, <1>4, <4>1 DEF InR, Free, Empty
    <3>3. s.state = "D" => InD(r)
      <4>1. s.state = "D" => s.phase = "B_RX" /\ Free(s) /\ s.buffer = Simple("TSI") /\ s.step = 2
                             /\ s.timer_is_t4 = TRUE
        BY Attending
      <4> QED  BY <1>2, <1>4, <4>1 DEF InD, Free, Empty
    <3>4. s.state = "D_POST_TCF" => InD_POST_TCF(r)
      BY <1>2, <1>3, <1>4 DEF Mode, InD_POST_TCF, Free, Empty
    <3> QED  BY <1>4, <2>1, <2>2, <3>1, <3>2, <3>3, <3>4 DEF Mode
  <2>3. CASE s.state \in {"F_FTT", "II_Q", "IV_PPS_NULL", "IV_PPS_Q", "IV_CTC"}
    <3>1. s.state = "F_FTT" => InF_FTT(r)
      <4>1. s.state = "F_FTT" => s.phase = "B_RX" /\ InF_FTT(s)  BY <1>3, Attending DEF Mode
      <4> QED  BY <1>2, <1>4, <4>1 DEF InF_FTT, Asked, Command, Free, Empty
    <3>2. s.state = "II_Q" => InII_Q(r)
      <4>1. s.state = "II_Q" => s.phase = "D_RX" /\ InII_Q(s)  BY <1>3, Attending DEF Mode
      <4> QED  BY <1>2, <1>4, <4>1 DEF InII_Q, Asked, Command, Free, Empty, SameDoc, CheckNextTxStep
    <3>3. s.state \in {"IV_PPS_NULL", "IV_PPS_Q"} => InIV_PPS(r)
      <4>1. s.state \in {"IV_PPS_NULL", "IV_PPS_Q"} => s.phase = "D_RX" /\ InIV_PPS(s)
        BY <1>3, Attending DEF Mode
      <4> QED  BY <1>2, <1>4, <4>1 DEF InIV_PPS, Asked, Command, Free, Empty, SameDoc, CheckNextTxStep
    <3>4. s.state = "IV_CTC" => InIV_CTC(r)
      BY <1>2, <1>3, <1>4 DEF Mode, InIV_CTC, Free, SameDoc
    <3> QED  BY <1>4, <2>1, <2>3, <3>1, <3>2, <3>3, <3>4 DEF Mode
  <2>4. CASE s.state \in {"F_TCF", "F_DOC", "F_POST_DOC_NON_ECM", "F_POST_DOC_ECM"}
    <3>1. s.state = "F_TCF" => InF_TCF(r)
      BY <1>2, <1>3, <1>4 DEF Mode, InF_TCF, Free, Empty
    <3>2. s.state = "F_DOC" => InF_DOC(r)
      BY <1>2, <1>3, <1>4 DEF Mode, InF_DOC, Free, Empty, SameDoc
    <3>3. s.state = "F_POST_DOC_NON_ECM" => InF_POST_DOC_NON_ECM(r)
      BY <1>2, <1>3, <1>4 DEF Mode, InF_POST_DOC_NON_ECM, Free, Empty, SameDoc
    <3>4. s.state = "F_POST_DOC_ECM" => InF_POST_DOC_ECM(r)
      BY <1>2, <1>3, <1>4 DEF Mode, InF_POST_DOC_ECM, Free, Empty, SameDoc
    <3> QED  BY <1>4, <2>1, <2>4, <3>1, <3>2, <3>3, <3>4 DEF Mode
  <2>5. CASE s.state = "C"
    <3>1. InC(r)
      <4>1. Held(s, "D_TX") /\ s.phase \in Hearing /\ s.step = 0 /\ s.buffer.type \in {"DCN", "TSI", "CTC"}
        BY <2>5, Attending
      <4>2. Answer(r, {"DCN", "TSI", "CTC"})  BY <1>2, <1>4, <4>1 DEF Held, Answer
      <4> QED  BY <1>2, <2>5, <4>2 DEF InC
    <3> QED  BY <1>4, <2>1, <2>5, <3>1 DEF Mode
  <2> QED  BY <2>2, <2>3, <2>4, <2>5, Attending
<1>8. EndInv(r)  BY <1>1, <1>5, <1>6, <1>7 DEF EndInv, Ready
<1>9. r.on = "off"  BY <1>2, Attending
<1> QED  BY <1>2, <1>4, <1>8, <1>9 DEF Settles, SameDoc

\* The answer to each command of the sender, and whether there is error correction.
IsAnswer(state, type, s) ==
  \/ state = "III_Q_MCF" /\ type = "MCF" /\ s.ecm = FALSE
  \/ state = "III_Q_RTP" /\ type = "RTP" /\ s.ecm = FALSE
  \/ state = "III_Q_RTN" /\ type = "RTN" /\ s.ecm = FALSE
  \/ state = "F_POST_RCP_MCF" /\ type = "MCF" /\ s.ecm = TRUE
  \/ state = "F_POST_RCP_PPR" /\ type = "PPR" /\ s.ecm = TRUE

\* A receiver that has heard a command.
CanAnswer(s) ==
  /\ Ready(s) /\ Whole(s) /\ s.hears = "v21" /\ s.phase \in Hearing /\ s.buffer = NoFrame
  /\ NoTimer(s) /\ s.timer_t0_t1 = FALSE
  /\ s.rx_file = TRUE /\ s.ecm = s.ecm_allowed /\ s.retries <= Tries /\ s.page <= Pages

\* The receiver answers.
LEMMA AnswerSaid ==
  ASSUME NEW r, NEW state, NEW f, CanAnswer(r), IsAnswer(state, f.type, r), r.state # state
  PROVE  LET t == SendFrame(SetState(QueuePhase(r, "D_TX"), state), f) IN
         EndInv(t) /\ SameRest(r, t) /\ t.state = state /\ t.on = "off" /\ Turned(r, t, "D_TX") /\ t.buffer = f
<1> DEFINE t == SendFrame(SetState(QueuePhase(r, "D_TX"), state), f)
<1>1. Said(r, t, "D_TX", state, f)  BY SayFacts DEF Talking, CanAnswer
<1> HIDE DEF t
<1>2. /\ Ready(t) /\ SameRest(r, t) /\ Turned(r, t, "D_TX") /\ t.state = state /\ t.step = 0 /\ t.buffer = f
  BY <1>1 DEF Said, CanAnswer
<1>3. Fields \subseteq DOMAIN t /\ Radio(t) /\ Signals(t) /\ t.on = "off"  BY <1>2 DEF Ready
<1>4. \/ Held(t, "D_TX") /\ t.phase \in Hearing
      \/ t.phase = "D_TX" /\ Free(t) /\ t.tx_end = FALSE
  <2>1. Signals(r)  BY DEF Ready, CanAnswer
  <2> QED  BY <1>2, <2>1, TurnedPhase DEF CanAnswer
<1>5. Answer(t, {f.type})  BY <1>2, <1>4 DEF Answer, Command
<1>6. t.ecm = r.ecm /\ NoTimer(t)  BY <1>2 DEF SameRest, SameDoc, SameTimers, NoTimer, CanAnswer
<1>7. InIII(t, f.type, t.ecm)  BY <1>5, <1>6 DEF InIII
<1>8. Mode(t)  BY <1>2, <1>6, <1>7 DEF Mode, States, IsAnswer
<1>9. Whole(t)  BY <1>2, WholeKept DEF CanAnswer
<1>10. Stands(t)
  <2>1. t.rx_file = TRUE /\ t.ecm = t.ecm_allowed /\ t.retries <= Tries /\ t.page <= Pages /\ t.timer_t0_t1 = FALSE
    BY <1>2 DEF SameRest, SameDoc, CanAnswer
  <2>2. t.state \notin SendStates  BY <1>2 DEF IsAnswer, SendStates
  <2> QED  BY <2>1, <2>2 DEF Stands
<1>11. t.next_phase \in Phases \cup {"IDLE"}  BY <1>4 DEF Held, Free, Phases, TxPhases
<1>12. t.step \in 0 .. 4  BY <1>2
<1>13. Sides(t) /\ Counts(t)  BY <1>2, <1>9, <1>10, <1>11, <1>12, Joined
<1>14. Carries(t)  BY <1>2 DEF Carries, IsAnswer
<1>15. EndInv(t)  BY <1>3, <1>8, <1>13, <1>14 DEF EndInv
<1> QED  BY <1>2, <1>3, <1>15 DEF t

\* Answers leave the timers off.
Answers(s, t, state, type) ==
  /\ Settles(s, t) /\ t.state = state /\ t.buffer.type = type /\ NoTimer(t) /\ t.ecm = s.ecm
  /\ t.page = s.page /\ t.ecm_block = s.ecm_block

\* The answer to the end of a page without error correction.
PageAnswered(s, t, step, quality) ==
  /\ \/ quality = "GOOD" /\ Answers(s, t, "III_Q_MCF", "MCF")
     \/ quality = "POOR" /\ Answers(s, t, "III_Q_RTP", "RTP")
     \/ quality = "BAD" /\ Answers(s, t, "III_Q_RTN", "RTN")
  /\ t.next_rx_step = step
  /\ step = "MPS" => t.image = <<>> /\ t.got = {} /\ t.in_message = s.in_message
  /\ step = "EOP" => /\ t.image = s.image /\ t.got = s.got
                     /\ quality # "BAD" => t.in_message = FALSE
                     /\ quality = "BAD" => t.in_message = s.in_message

\* MPS or EOP after a page without error correction.
LEMMA PageEndHeard ==
  ASSUME NEW s, NEW r, Attends(s), HeardAs(s, r, TRUE), s.hears = "v21", s.state = "F_POST_DOC_NON_ECM",
         NEW step \in {"MPS", "EOP"}, NEW quality \in {"GOOD", "POOR", "BAD"}
  PROVE  PageAnswered(s, ProcessPageEnd(r, step, quality), step, quality)
<1> DEFINE a == [r EXCEPT !.next_rx_step = step]
           b == IF step = "MPS" THEN RxStartPage(a)
                ELSE IF quality = "BAD" THEN a ELSE [a EXCEPT !.in_message = FALSE]
           state == IF quality = "GOOD" THEN "III_Q_MCF" ELSE IF quality = "POOR" THEN "III_Q_RTP" ELSE "III_Q_RTN"
           type == IF quality = "GOOD" THEN "MCF" ELSE IF quality = "POOR" THEN "RTP" ELSE "RTN"
           t == SendFrame(SetState(QueuePhase(b, "D_TX"), state), Simple(type))
<1>1. /\ Ready(r) /\ Whole(r) /\ Stands(r) /\ r.phase \in Hearing /\ r.hears = "v21"
  BY HeardEnd
<1>2. /\ SameModems(s, r) /\ SameTalk(s, r) /\ SameDoc(s, r) /\ r.buffer = s.buffer /\ r.timer_t2_t4 = FALSE
      /\ r.timer_t0_t1 = FALSE
  BY DEF HeardAs
<1>3. r.state = "F_POST_DOC_NON_ECM" /\ r.buffer = NoFrame  BY <1>2, Attending DEF SameTalk, Empty
<1>4. r.ecm = FALSE
  <2>1. InF_POST_DOC_NON_ECM(s)  BY DEF Attends, EndInv, Mode
  <2> QED  BY <1>2, <2>1 DEF InF_POST_DOC_NON_ECM, SameDoc
<1>5. ProcessPageEnd(r, step, quality) = t
  BY <1>3 DEF ProcessPageEnd, Say
<1>6. Fields \subseteq DOMAIN b /\ SameMachine(r, b)
  BY <1>1 DEF Ready, RxStartPage, Fields, SameMachine, SameModems, SameTalk, SameTimers
<1>7. /\ b.next_rx_step = step
      /\ step = "MPS" => b.image = <<>> /\ b.got = {} /\ b.in_message = r.in_message
      /\ step = "EOP" => /\ b.image = r.image /\ b.got = r.got
                         /\ quality # "BAD" => b.in_message = FALSE
                         /\ quality = "BAD" => b.in_message = r.in_message
  BY <1>1 DEF Ready, RxStartPage, Fields
<1>8. /\ b.page = r.page /\ b.ecm_block = r.ecm_block /\ b.ecm_len = r.ecm_len
      /\ b.ecm_current_frame = r.ecm_current_frame /\ b.ecm_at_page_end = r.ecm_at_page_end /\ b.ecm = r.ecm
      /\ b.ppr_count = r.ppr_count /\ b.next_tx_step = r.next_tx_step
      /\ b.tx_file = r.tx_file /\ b.rx_file = r.rx_file /\ b.compatible = r.compatible
      /\ b.ecm_allowed = r.ecm_allowed /\ b.retries = r.retries /\ b.current_status = r.current_status
  BY <1>1 DEF Ready, RxStartPage, Fields
<1> HIDE DEF a, b
<1>9. Ready(b)  BY <1>1, <1>6, MachineKept
<1>10. Whole(b)
  <2>1. b.in_message \in BOOLEAN
    <3>1. r.in_message \in BOOLEAN  BY <1>1 DEF Whole
    <3> QED  BY <1>7, <3>1
  <2>2. b.next_rx_step \in Steps  BY <1>7 DEF Steps
  <2>3. SameTimers(r, b)  BY <1>6 DEF SameMachine
  <2>4. b.ecm = b.ecm_allowed
    <3>1. r.ecm = r.ecm_allowed  BY <1>1, <1>3 DEF Stands, ReceiveStates
    <3> QED  BY <1>8, <3>1
  <2> QED  BY <1>1, <1>8, <2>1, <2>2, <2>3, <2>4 DEF Whole, SameTimers
<1>11. /\ b.hears = "v21" /\ b.phase \in Hearing /\ b.buffer = NoFrame /\ NoTimer(b) /\ b.timer_t0_t1 = FALSE
       /\ b.state = "F_POST_DOC_NON_ECM" /\ b.rx_signal_present = s.rx_signal_present
  BY <1>1, <1>2, <1>3, <1>6 DEF SameMachine, SameModems, SameTalk, SameTimers, NoTimer
<1>12. CanAnswer(b)
  <2>1. b.rx_file = TRUE /\ b.ecm = b.ecm_allowed /\ b.retries <= Tries /\ b.page <= Pages
    BY <1>1, <1>3, <1>8 DEF Stands, ReceiveStates, Over
  <2> QED  BY <1>9, <1>10, <1>11, <2>1 DEF CanAnswer
<1>13. IsAnswer(state, Simple(type).type, b) /\ Simple(type).type = type /\ state # "F_POST_DOC_NON_ECM"
  BY <1>4, <1>8 DEF IsAnswer, Simple
<1>14. \/ quality = "GOOD" /\ state = "III_Q_MCF" /\ type = "MCF"
       \/ quality = "POOR" /\ state = "III_Q_RTP" /\ type = "RTP"
       \/ quality = "BAD" /\ state = "III_Q_RTN" /\ type = "RTN"
  OBVIOUS
<1> HIDE DEF state, type
<1>15. EndInv(t) /\ SameRest(b, t) /\ t.state = state /\ t.on = "off" /\ Turned(b, t, "D_TX") /\ t.buffer = Simple(type)
  <2>1. b.state # state /\ IsAnswer(state, Simple(type).type, b)  BY <1>11, <1>13
  <2> QED  BY <1>12, <2>1, AnswerSaid
<1> HIDE DEF t
<1>16. t.hears \in {"no", s.hears}  BY <1>11, <1>15 DEF Turned
<1>17. NoTimer(t) /\ t.ecm = s.ecm /\ t.page = s.page /\ t.ecm_block = s.ecm_block
       /\ t.tx_file = s.tx_file /\ t.rx_file = s.rx_file /\ t.ecm_allowed = s.ecm_allowed
  BY <1>2, <1>8, <1>11, <1>15 DEF SameRest, SameDoc, SameTimers, NoTimer
<1>18. Answers(s, t, state, type)  BY <1>13, <1>15, <1>16, <1>17 DEF Answers, Settles
<1>19. /\ t.next_rx_step = step
       /\ step = "MPS" => t.image = <<>> /\ t.got = {} /\ t.in_message = s.in_message
       /\ step = "EOP" => /\ t.image = s.image /\ t.got = s.got
                          /\ quality # "BAD" => t.in_message = FALSE
                          /\ quality = "BAD" => t.in_message = s.in_message
  BY <1>2, <1>7, <1>15 DEF SameRest, SameDoc
<1>20. PageAnswered(s, t, step, quality)  BY <1>14, <1>18, <1>19 DEF PageAnswered
<1> QED  BY <1>5, <1>20 DEF t

-----------------------------------------------------------------------------
(* A block with error correction                                            *)

InBlock(s) == s.state \in {"F_DOC", "F_POST_DOC_ECM"}

\* A frame that ends a block finds the receiver in its block, able to answer.
LEMMA BlockHeard ==
  ASSUME NEW s, NEW r, Attends(s), HeardAs(s, r, TRUE), s.hears = "v21", InBlock(s), s.ecm_allowed = TRUE
  PROVE  /\ CanAnswer(r) /\ Stands(r) /\ r.state = s.state /\ r.ecm = TRUE /\ SameDoc(s, r)
         /\ r.rx_signal_present = s.rx_signal_present
<1>1. /\ Ready(r) /\ Whole(r) /\ Stands(r) /\ r.phase \in Hearing /\ r.hears = "v21"
  BY HeardEnd
<1>2. /\ SameModems(s, r) /\ SameTalk(s, r) /\ SameDoc(s, r) /\ r.buffer = s.buffer /\ r.timer_t2_t4 = FALSE
      /\ r.timer_t0_t1 = FALSE
  BY DEF HeardAs
<1>3. r.state = s.state /\ r.buffer = NoFrame /\ r.rx_signal_present = s.rx_signal_present
  BY <1>2, Attending DEF SameTalk, SameModems, Empty, InBlock
<1>4. r.rx_file = TRUE /\ r.ecm = r.ecm_allowed /\ r.retries <= Tries /\ r.page <= Pages
  BY <1>1, <1>3 DEF Stands, ReceiveStates, Over, InBlock
<1>5. r.ecm = TRUE  BY <1>2, <1>4 DEF SameDoc
<1>6. CanAnswer(r)  BY <1>1, <1>2, <1>3, <1>4 DEF CanAnswer, NoTimer
<1> QED  BY <1>1, <1>2, <1>3, <1>5, <1>6

\* PPS when frames are missing.
LEMMA PprAnswered ==
  ASSUME NEW s, NEW r, NEW m, Attends(s), HeardAs(s, r, TRUE), s.hears = "v21", InBlock(s),
         s.ecm_allowed = TRUE, Missing(r) # {}
  PROVE  LET t == ProcessPps(r, m) IN Answers(s, t, "F_POST_RCP_PPR", "PPR") /\ SameDoc(s, t)
<1> DEFINE f == [type |-> "PPR", again |-> Missing(r)]
           t == SendFrame(SetState(QueuePhase(r, "D_TX"), "F_POST_RCP_PPR"), f)
<1>1. /\ CanAnswer(r) /\ Stands(r) /\ r.state = s.state /\ r.ecm = TRUE /\ SameDoc(s, r)
      /\ r.rx_signal_present = s.rx_signal_present
  BY BlockHeard
<1>2. ProcessPps(r, m) = t  BY <1>1 DEF ProcessPps, InBlock
<1>3. f.type = "PPR"  OBVIOUS
<1> HIDE DEF f
<1>4. EndInv(t) /\ SameRest(r, t) /\ t.state = "F_POST_RCP_PPR" /\ t.on = "off" /\ Turned(r, t, "D_TX") /\ t.buffer = f
  <2>1. r.state # "F_POST_RCP_PPR" /\ IsAnswer("F_POST_RCP_PPR", f.type, r)
    BY <1>1, <1>3 DEF IsAnswer, InBlock
  <2> QED  BY <1>1, <2>1, AnswerSaid
<1> HIDE DEF t
<1>5. t.hears \in {"no", s.hears}  BY <1>1, <1>4 DEF Turned, CanAnswer
<1>6. SameDoc(s, t) /\ NoTimer(t)  BY <1>1, <1>4 DEF SameRest, SameDoc, SameTimers, NoTimer, CanAnswer
<1>7. Answers(s, t, "F_POST_RCP_PPR", "PPR")  BY <1>3, <1>4, <1>5, <1>6 DEF Answers, Settles, SameDoc
<1> QED  BY <1>2, <1>6, <1>7 DEF t

\* The answer to a block that is complete.
BlockAnswered(s, t, m, image) ==
  /\ Answers(s, t, "F_POST_RCP_MCF", "MCF") /\ t.got = {} /\ t.in_message = s.in_message
  /\ m.post = "NULL" => t.image = s.image \o image /\ t.next_rx_step = s.next_rx_step
  /\ m.post # "NULL" => t.image = <<>> /\ t.next_rx_step = m.post

\* PPS when none is: the block is added to the page.
LEMMA McfAnswered ==
  ASSUME NEW s, NEW r, NEW m, Attends(s), HeardAs(s, r, TRUE), s.hears = "v21", InBlock(s),
         s.ecm_allowed = TRUE, Missing(r) = {}, m.post \in {"NULL", "MPS", "EOP"}
  PROVE  BlockAnswered(s, ProcessPps(r, m), m, BlockImage(r))
<1> DEFINE b == IF m.post = "NULL" THEN Committed(r)
                ELSE RxStartPage([Committed(r) EXCEPT !.next_rx_step = m.post])
           t == SendFrame(SetState(QueuePhase(b, "D_TX"), "F_POST_RCP_MCF"), Simple("MCF"))
<1>1. /\ CanAnswer(r) /\ Stands(r) /\ r.state = s.state /\ r.ecm = TRUE /\ SameDoc(s, r)
      /\ r.rx_signal_present = s.rx_signal_present
  BY BlockHeard
<1>2. Fields \subseteq DOMAIN r  BY <1>1 DEF CanAnswer, Ready
<1>3. ProcessPps(r, m) = t  BY <1>1 DEF ProcessPps, InBlock, Say
<1>4. Fields \subseteq DOMAIN b /\ SameMachine(r, b)
  BY <1>2 DEF RxStartPage, Committed, Fields, SameMachine, SameModems, SameTalk, SameTimers
<1>5. /\ b.got = {} /\ b.in_message = r.in_message
      /\ m.post = "NULL" => b.image = r.image \o BlockImage(r) /\ b.next_rx_step = r.next_rx_step
      /\ m.post # "NULL" => b.image = <<>> /\ b.next_rx_step = m.post
  BY <1>2 DEF RxStartPage, Committed, Fields
<1>6. /\ b.page = r.page /\ b.ecm_block = r.ecm_block /\ b.ecm_len = r.ecm_len
      /\ b.ecm_current_frame = r.ecm_current_frame /\ b.ecm_at_page_end = r.ecm_at_page_end /\ b.ecm = r.ecm
      /\ b.ppr_count = r.ppr_count /\ b.next_tx_step = r.next_tx_step
      /\ b.tx_file = r.tx_file /\ b.rx_file = r.rx_file /\ b.compatible = r.compatible
      /\ b.ecm_allowed = r.ecm_allowed /\ b.retries = r.retries /\ b.current_status = r.current_status
  BY <1>2 DEF RxStartPage, Committed, Fields
<1> HIDE DEF b
<1>7. CanAnswer(b)
  <2>1. Ready(b)  BY <1>1, <1>4, MachineKept DEF CanAnswer
  <2>2. Whole(b)
    <3>1. b.next_rx_step \in Steps
      <4>1. r.next_rx_step \in Steps  BY <1>1 DEF CanAnswer, Whole
      <4>2. m.post # "NULL" => m.post \in Steps  BY DEF Steps
      <4> QED  BY <1>5, <4>1, <4>2
    <3>2. SameTimers(r, b)  BY <1>4 DEF SameMachine
    <3>3. b.ecm = b.ecm_allowed  BY <1>1, <1>6 DEF CanAnswer
    <3>4. Whole(r)  BY <1>1 DEF CanAnswer
    <3>5. b.in_message \in BOOLEAN  BY <1>5, <3>4 DEF Whole
    <3> QED  BY <1>6, <3>1, <3>2, <3>3, <3>4, <3>5 DEF Whole, SameTimers
  <2>3. b.hears = r.hears /\ b.phase = r.phase /\ b.buffer = r.buffer /\ b.timer_t2_t4 = r.timer_t2_t4
        /\ b.timer_t0_t1 = r.timer_t0_t1
    BY <1>4 DEF SameMachine, SameModems, SameTimers
  <2> QED  BY <1>1, <1>6, <2>1, <2>2, <2>3 DEF CanAnswer, NoTimer
<1>8. EndInv(t) /\ SameRest(b, t) /\ t.state = "F_POST_RCP_MCF" /\ t.on = "off" /\ Turned(b, t, "D_TX")
      /\ t.buffer = Simple("MCF")
  <2>1. b.state # "F_POST_RCP_MCF" /\ IsAnswer("F_POST_RCP_MCF", Simple("MCF").type, b)
    BY <1>1, <1>4, <1>6 DEF IsAnswer, InBlock, Simple, SameMachine, SameTalk
  <2> QED  BY <1>7, <2>1, AnswerSaid
<1> HIDE DEF t
<1>9. t.hears \in {"no", s.hears}  BY <1>7, <1>8 DEF Turned, CanAnswer
<1>10. /\ NoTimer(t) /\ t.ecm = s.ecm /\ t.page = s.page /\ t.ecm_block = s.ecm_block
       /\ t.tx_file = s.tx_file /\ t.rx_file = s.rx_file /\ t.ecm_allowed = s.ecm_allowed
  BY <1>1, <1>6, <1>7, <1>8 DEF SameRest, SameDoc, SameTimers, NoTimer, CanAnswer
<1>11. Answers(s, t, "F_POST_RCP_MCF", "MCF")  BY <1>8, <1>9, <1>10 DEF Answers, Settles, Simple
<1>12. /\ t.got = {} /\ t.in_message = s.in_message
       /\ m.post = "NULL" => t.image = s.image \o BlockImage(r) /\ t.next_rx_step = s.next_rx_step
       /\ m.post # "NULL" => t.image = <<>> /\ t.next_rx_step = m.post
  BY <1>1, <1>5, <1>8 DEF SameRest, SameDoc
<1>13. BlockAnswered(s, t, m, BlockImage(r))  BY <1>11, <1>12 DEF BlockAnswered
<1> QED  BY <1>3, <1>13 DEF t

\* What a frame of a block adds to the receiver.
Adds(s, m, t) ==
  /\ Settles(s, t) /\ t.state = "F_DOC" /\ t.buffer = s.buffer /\ t.next_phase = s.next_phase
  /\ t.got = {g \in s.got : g.no # m.no} \cup {m} /\ t.hears = s.hears
  /\ t.page = s.page /\ t.ecm_block = s.ecm_block /\ t.ecm = s.ecm /\ t.image = s.image
  /\ t.in_message = s.in_message /\ t.next_rx_step = s.next_rx_step

\* A frame of the block: the end stays as it is.
LEMMA FcdHeard ==
  ASSUME NEW s, NEW r, NEW m, Attends(s), HeardAs(s, r, FALSE), s.state = "F_DOC", s.ecm_allowed = TRUE
  PROVE  Adds(s, m, ProcessFcd(r, m))
<1> DEFINE t == ProcessFcd(r, m)
<1>1. /\ Settles(s, r) /\ SameDoc(s, r) /\ r.state = s.state /\ r.hears = s.hears /\ r.buffer = s.buffer
      /\ r.next_phase = s.next_phase /\ r.timer_is_t4 = s.timer_is_t4 /\ r.retries = s.retries
      /\ r.phase = s.phase
  BY IdentityHeard
<1>2. Fields \subseteq DOMAIN r /\ Radio(r) /\ Signals(r) /\ Mode(r) /\ Sides(r) /\ Counts(r) /\ Carries(r) /\ r.on = "off"
  BY <1>1 DEF Settles, EndInv
<1>3. t = [r EXCEPT !.got = {g \in @ : g.no # m.no} \cup {m}]  BY <1>1 DEF ProcessFcd
<1> HIDE DEF t
<1>4. Fields \subseteq DOMAIN t /\ SameModems(r, t) /\ SameTalk(r, t) /\ SameCall(r, t)
      /\ t.on = r.on /\ t.buffer = r.buffer /\ t.tx_end = r.tx_end
  BY <1>2, <1>3 DEF Fields, SameModems, SameTalk, SameCall, SameTimers
<1>5. /\ t.ecm_current_frame = r.ecm_current_frame
      /\ t.got = {g \in r.got : g.no # m.no} \cup {m}
  BY <1>2, <1>3 DEF Fields
<1>6. /\ t.page = r.page /\ t.ecm_block = r.ecm_block /\ t.ecm = r.ecm /\ t.image = r.image
      /\ t.in_message = r.in_message /\ t.tx_file = r.tx_file /\ t.rx_file = r.rx_file
      /\ t.ecm_allowed = r.ecm_allowed /\ t.compatible = r.compatible /\ t.ppr_count = r.ppr_count
      /\ t.ecm_len = r.ecm_len /\ t.ecm_at_page_end = r.ecm_at_page_end
      /\ t.next_tx_step = r.next_tx_step /\ t.next_rx_step = r.next_rx_step
  BY <1>2, <1>3 DEF Fields
<1>7. Radio(t) /\ Signals(t)  BY <1>2, <1>4, ModemsKept
<1>8. t.state = "F_DOC" /\ t.next_phase = r.next_phase /\ t.step = r.step /\ t.phase = r.phase
  BY <1>1, <1>4 DEF SameTalk, SameModems
<1>9. Mode(t)
  <2>1. InF_DOC(r)  BY <1>1, <1>2 DEF Mode
  <2>2. InF_DOC(t)  BY <1>4, <1>6, <1>8, <2>1 DEF InF_DOC, Free, Empty, SameCall, SameTimers
  <2> QED  BY <1>8, <2>2 DEF Mode, States
<1>10. Sides(t)
  <2>1. r.ecm = r.ecm_allowed  BY <1>1, <1>2 DEF Sides, ReceiveStates
  <2> QED  BY <1>1, <1>2, <1>4, <1>6, <1>8, <2>1 DEF Sides, SameCall
<1>11. Counts(t)
  BY <1>1, <1>2, <1>4, <1>5, <1>6, <1>8 DEF Counts, SameCall, SameTimers
<1>12. Carries(t)
  <2>1. InF_DOC(r)  BY <1>1, <1>2 DEF Mode
  <2>2. t.buffer = NoFrame  BY <1>4, <2>1 DEF InF_DOC, Empty
  <2> QED  BY <1>8, <2>2 DEF Carries, NoFrame
<1>13. EndInv(t)  BY <1>4, <1>7, <1>9, <1>10, <1>11, <1>12 DEF EndInv
<1>14. t.hears = r.hears  BY <1>1, <1>4 DEF SameModems, SameCall, SameTimers
<1> QED  BY <1>1, <1>2, <1>4, <1>5, <1>6, <1>8, <1>13, <1>14 DEF Settles, SameDoc, Adds, t

\* RCP: the end of the block.
LEMMA RcpHeard ==
  ASSUME NEW s, NEW r, Attends(s), HeardAs(s, r, FALSE), InBlock(s), s.hears = "fast", s.ecm_allowed = TRUE
  PROVE  LET t == ProcessRcp(r) IN
         /\ Settles(s, t) /\ SameDoc(s, t) /\ t.state = "F_POST_DOC_ECM" /\ t.buffer = NoFrame /\ t.hears = "fast"
<1> DEFINE t == ProcessRcp(r)
<1>1. /\ Settles(s, r) /\ SameDoc(s, r) /\ r.state = s.state /\ r.hears = s.hears /\ r.buffer = s.buffer
      /\ r.next_phase = s.next_phase /\ r.timer_is_t4 = s.timer_is_t4 /\ r.retries = s.retries
      /\ r.phase = s.phase
  BY IdentityHeard DEF InBlock
<1>2. Fields \subseteq DOMAIN r /\ Radio(r) /\ Signals(r) /\ Mode(r) /\ Sides(r) /\ Counts(r) /\ Carries(r) /\ r.on = "off"
  BY <1>1 DEF Settles, EndInv
<1>3. r.buffer = NoFrame
  BY <1>1, Attending DEF Empty, InBlock
<1>4. CASE s.state = "F_POST_DOC_ECM"
  <2>1. t = r  BY <1>1, <1>4 DEF ProcessRcp
  <2> QED  BY <1>1, <1>3, <1>4, <2>1 DEF t
<1>5. CASE s.state = "F_DOC"
  <2> DEFINE a == SetState(r, "F_POST_DOC_ECM")
  <2>1. InF_DOC(r)  BY <1>1, <1>2, <1>5 DEF Mode
  <2>2. /\ Fields \subseteq DOMAIN a /\ a.state = "F_POST_DOC_ECM" /\ a.step = 0
        /\ SameModems(r, a) /\ SameCall(r, a) /\ SameDoc(r, a)
        /\ a.buffer = r.buffer /\ a.next_phase = r.next_phase /\ a.on = r.on /\ a.tx_end = r.tx_end
    BY <1>1, <1>2, <1>5, StateSet
  <2>3. t = QueuePhase(a, "D_RX")  BY <1>1, <1>5 DEF ProcessRcp
  <2> HIDE DEF a
  <2>4. a.rx_signal_present = TRUE /\ a.hears = "fast"  BY <1>1, <1>2, <2>2 DEF Signals, SameModems
  <2>5. t = [a EXCEPT !.next_phase = "D_RX"]  BY <2>3, <2>4 DEF QueuePhase
  <2> HIDE DEF t
  <2>6. /\ Fields \subseteq DOMAIN t /\ t.next_phase = "D_RX" /\ t.state = "F_POST_DOC_ECM" /\ t.step = 0
        /\ t.buffer = NoFrame /\ t.on = "off" /\ t.tx_end = r.tx_end
    BY <1>2, <1>3, <2>2, <2>5 DEF Fields
  <2>7. SameModems(a, t)  BY <2>2, <2>5 DEF Fields, SameModems
  <2>8. SameCall(a, t)  BY <2>2, <2>5 DEF Fields, SameCall, SameTimers
  <2>9. SameDoc(a, t)  BY <2>2, <2>5 DEF Fields, SameDoc
  <2>10. SameModems(r, t) /\ SameCall(r, t) /\ SameDoc(r, t)
    BY <2>2, <2>7, <2>8, <2>9 DEF SameModems, SameCall, SameTimers, SameDoc
  <2>11. Radio(t) /\ Signals(t)  BY <1>2, <2>6, <2>10, ModemsKept
  <2>12. t.hears = "fast" /\ t.rx_signal_present = TRUE /\ t.phase = r.phase  BY <2>4, <2>7, <2>10 DEF SameModems
  <2>13. t.ecm = TRUE
    <3>1. r.ecm = r.ecm_allowed  BY <1>1, <1>2, <1>5 DEF Sides, ReceiveStates
    <3> QED  BY <1>1, <2>10, <3>1 DEF SameDoc
  <2>14. Mode(t)
    <3>1. t.phase = "C_ECM_RX"  BY <2>1, <2>10, <2>12, <2>13 DEF InF_DOC, SameDoc
    <3>2. InF_POST_DOC_ECM(t)
      BY <2>1, <2>6, <2>10, <2>12, <2>13, <3>1 DEF InF_POST_DOC_ECM, InF_DOC, Empty, SameCall, SameTimers
    <3> QED  BY <2>6, <3>2 DEF Mode, States
  <2>15. Sides(t)
    <3>1. r.timer_t0_t1 # TRUE  BY <1>1, <1>2, <1>5 DEF Sides
    <3>2. r.rx_file = TRUE /\ r.ecm = r.ecm_allowed  BY <1>1, <1>2, <1>5 DEF Sides, ReceiveStates
    <3> QED  BY <1>2, <2>6, <2>10, <3>1, <3>2 DEF Sides, SameDoc, SameCall, SendStates
  <2>16. Counts(t)
    <3>1. t.next_phase \in Phases \cup {"IDLE"} /\ t.step \in 0 .. 4  BY <2>6 DEF Phases
    <3>2. r.state \notin Over /\ t.state \notin SendStates  BY <1>1, <1>5, <2>6 DEF Over, SendStates
    <3> QED  BY <1>2, <2>6, <2>10, <3>1, <3>2 DEF Counts, SameDoc, SameCall, SameTimers
  <2>17. Carries(t)  BY <2>6 DEF Carries, NoFrame
  <2>18. EndInv(t)  BY <2>6, <2>11, <2>14, <2>15, <2>16, <2>17 DEF EndInv
  <2>19. SameDoc(s, t)  BY <1>1, <2>10 DEF SameDoc
  <2> QED  BY <2>6, <2>12, <2>18, <2>19 DEF Settles, SameDoc, t
<1> QED  BY <1>4, <1>5 DEF InBlock

-----------------------------------------------------------------------------
(* The sender                                                               *)

\* A sender that has heard an answer.
CanOrder(s) ==
  /\ Ready(s) /\ Whole(s) /\ s.hears = "v21" /\ s.phase \in Listening /\ s.buffer = NoFrame
  /\ NoTimer(s) /\ s.timer_t0_t1 = FALSE
  /\ s.tx_file = TRUE /\ s.ecm = s.ecm_allowed /\ s.retries <= Tries /\ s.page <= Pages
  /\ s.ppr_count <= 3
  /\ s.ecm = TRUE =>
       /\ s.ecm_block \in 1 .. Blocks
       /\ s.ecm_block = Blocks => s.ecm_at_page_end = TRUE
       /\ s.ecm_block # Blocks => s.ecm_at_page_end = FALSE

\* The document follows the answer: the new state is entered before the phase is queued.
LEMMA TurnSaid ==
  ASSUME NEW s, NEW phase \in SendingFast, NEW state, Ready(s), s.phase \in Listening, s.state # state
  PROVE  Said(s, QueuePhase(SetState(s, state), phase), phase, state, s.buffer)
<1> DEFINE a == SetState(s, state)
           t == QueuePhase(a, phase)
<1>1. /\ Fields \subseteq DOMAIN a /\ a.state = state /\ a.step = 0
      /\ SameModems(s, a) /\ SameCall(s, a) /\ SameDoc(s, a)
      /\ a.buffer = s.buffer /\ a.next_phase = s.next_phase /\ a.on = s.on /\ a.tx_end = s.tx_end
  BY StateSet DEF Ready
<1> HIDE DEF a
<1>2. Ready(a)
  <2>1. Radio(a) /\ Signals(a)  BY <1>1, ModemsKept DEF Ready
  <2> QED  BY <1>1, <2>1 DEF Ready, SameCall
<1>3. a.phase \in Listening  BY <1>1 DEF SameModems
<1>4. Queued(a, t, phase)  BY <1>2, <1>3, QueuePhaseFacts
<1> HIDE DEF t
<1>5. /\ Ready(t) /\ SameRest(a, t) /\ Turned(a, t, phase) /\ t.state = a.state /\ t.step = a.step
      /\ t.buffer = a.buffer
  BY <1>4 DEF Queued
<1>6. SameRest(s, t)  BY <1>1, <1>5 DEF SameRest, SameCall, SameTimers, SameDoc
<1>7. Turned(s, t, phase)  BY <1>1, <1>5 DEF Turned, SameModems
<1> QED  BY <1>1, <1>5, <1>6, <1>7 DEF Said, a, t

\* The sender turns to a block.
LEMMA BlockOrdered ==
  ASSUME NEW s, CanOrder(s), s.ecm = TRUE, s.state # "IV"
  PROVE  LET t == SendBlock(s) IN
         /\ EndInv(t) /\ SameBlock(s, t) /\ t.state = "IV" /\ t.on = "off" /\ t.hears \in {"no", "v21"}
         /\ NoTimer(t) /\ t.retries = s.retries
<1> DEFINE a == QueuePhase(SetState(s, "IV"), "C_ECM_TX")
           b == [a EXCEPT !.ecm_current_frame = 0]
           t == SendNextEcmFrame(b)
<1>0. BlockFrames \in Nat /\ ExtraRcp \in Nat  BY T30Assumption
<1>1. SendBlock(s) = t  BY DEF SendBlock
<1>2. Said(s, a, "C_ECM_TX", "IV", NoFrame)
  BY TurnSaid DEF CanOrder, SendingFast
<1> HIDE DEF a
<1>3. /\ Ready(a) /\ SameRest(s, a) /\ Turned(s, a, "C_ECM_TX") /\ a.state = "IV" /\ a.step = 0
      /\ a.buffer = NoFrame
  BY <1>2 DEF Said, CanOrder
<1>4. Fields \subseteq DOMAIN b /\ SameMachine(a, b) /\ b.ecm_current_frame = 0
  BY <1>3 DEF Ready, Fields, SameMachine, SameModems, SameTalk, SameTimers
<1>5. SameBlock(a, b) /\ b.retries = a.retries /\ b.current_status = a.current_status
  BY <1>3 DEF Ready, Fields, SameBlock, SameBook
<1> HIDE DEF b
<1>6. Ready(b)  BY <1>3, <1>4, MachineKept
<1>7. SameBlock(s, b) /\ b.retries = s.retries /\ b.current_status = s.current_status
  BY <1>3, <1>5 DEF SameBlock, SameBook, SameRest, SameDoc
<1>8. /\ \/ Held(b, "C_ECM_TX") /\ b.phase \in Listening
         \/ b.phase = "C_ECM_TX" /\ Free(b)
      /\ b.hears \in {"no", "v21"}
  <2>1. \/ Held(a, "C_ECM_TX") /\ a.phase = s.phase /\ a.hears = s.hears
        \/ a.phase = "C_ECM_TX" /\ Free(a) /\ a.tx_end = FALSE /\ a.hears = "no"
    BY <1>3, TurnedPhase DEF CanOrder, Ready, Hearing
  <2> QED  BY <1>4, <2>1 DEF CanOrder, SameMachine, SameModems, SameTalk, Held, Free
<1>9. NoTimer(b) /\ b.timer_t0_t1 = FALSE /\ b.state = "IV" /\ b.step = 0 /\ b.buffer = NoFrame
  BY <1>3, <1>4 DEF SameRest, SameMachine, SameTalk, SameTimers, NoTimer, CanOrder
<1>10. Fields \subseteq DOMAIN b /\ b.ecm_len \subseteq 1 .. BlockFrames
       /\ b.ecm_current_frame \in 0 .. BlockFrames + ExtraRcp
  BY <1>0, <1>4, <1>7 DEF SameBlock, CanOrder, Whole
<1>11. /\ Fields \subseteq DOMAIN t /\ SameModems(b, t) /\ SameTalk(b, t) /\ SameCall(b, t)
       /\ SameBlock(b, t) /\ t.on = b.on /\ t.tx_end = FALSE
       /\ t.ecm_current_frame \in 0 .. BlockFrames + ExtraRcp + 1
       /\ \/ /\ t.buffer.type = "FCD" /\ t.buffer = FcdFrame(b.page, b.ecm_block, t.buffer.no)
             /\ t.buffer.no \in 1 .. BlockFrames /\ ~RestSent(b)
          \/ t.buffer = Simple("RCP") /\ RestSent(b) /\ RestSent(t)
  BY <1>9, <1>10, NextEcmFrame
<1> HIDE DEF t
<1>12. SameBlock(s, t) /\ t.retries = s.retries /\ t.current_status = s.current_status /\ t.timer_t0_t1 = FALSE
       /\ SameTimers(b, t) /\ NoTimer(t)
  BY <1>7, <1>9, <1>11 DEF SameBlock, SameBook, SameCall, SameTimers, NoTimer
<1>13. t.state = "IV" /\ t.step = 0 /\ t.hears \in {"no", "v21"}  BY <1>8, <1>9, <1>11 DEF SameTalk, SameModems
<1>14. t.on = "off" /\ Ready(t)
  <2>1. Radio(t) /\ Signals(t)  BY <1>6, <1>11, ModemsKept DEF Ready
  <2>2. t.far_end_detected \in BOOLEAN /\ t.timer_t0_t1 \in BOOLEAN  BY <1>6, <1>11 DEF Ready, SameCall
  <2>3. t.tx_end \in BOOLEAN  BY <1>11
  <2> QED  BY <1>6, <1>11, <2>1, <2>2, <2>3 DEF Ready
<1>15. t.buffer.type \in {"FCD", "RCP"} /\ (t.buffer.type = "FCD" \/ RestSent(t))
  BY <1>11 DEF Simple
<1>16. Mode(t)
  <2>1. \/ Held(t, "C_ECM_TX") /\ t.phase \in Listening
        \/ t.phase = "C_ECM_TX" /\ Free(t)
    BY <1>8, <1>11 DEF SameModems, SameTalk, Held, Free
  <2>2. t.ecm = TRUE  BY <1>12 DEF SameBlock, SameBook
  <2>3. InIV(t)
    BY <1>11, <1>12, <1>13, <1>15, <2>1, <2>2 DEF InIV, Command
  <2> QED  BY <1>13, <2>3 DEF Mode, States
<1>17. t.next_phase \in Phases \cup {"IDLE"}
  BY <1>8, <1>11 DEF Held, Free, SameTalk, Phases, TxPhases
<1>18. t.step \in 0 .. 4  BY <1>13
<1>19. Whole(t)
  <2>1. Whole(s)  BY DEF CanOrder
  <2>2. t.timer_t2_t4 \in BOOLEAN /\ t.timer_is_t4 \in BOOLEAN /\ t.waited \in BOOLEAN
    BY <1>3, <1>4, <1>12, <2>1 DEF Whole, SameMachine, SameRest, SameTimers
  <2>3. t.ecm_current_frame \in 0 .. BlockFrames + ExtraRcp + 1  BY <1>11
  <2> QED  BY <1>12, <2>1, <2>2, <2>3 DEF Whole, SameBlock, SameBook
<1>20. Stands(t)
  <2>1. t.tx_file = TRUE /\ t.ecm = t.ecm_allowed /\ t.retries <= Tries /\ t.page <= Pages /\ t.ppr_count <= 3
    BY <1>12 DEF CanOrder, SameBlock, SameBook
  <2>2. t.ecm_block = s.ecm_block /\ t.ecm_at_page_end = s.ecm_at_page_end  BY <1>12 DEF SameBlock, SameBook
  <2>3. t.state \notin ReceiveStates  BY <1>13 DEF ReceiveStates, AnswerStates
  <2> QED  BY <1>12, <1>13, <2>1, <2>2, <2>3 DEF Stands, CanOrder
<1>21. Sides(t) /\ Counts(t)  BY <1>14, <1>17, <1>18, <1>19, <1>20, Joined
<1>22. Carries(t)
  <2>1. t.page = b.page /\ t.ecm_block = b.ecm_block /\ t.ecm_allowed = TRUE
    BY <1>7, <1>11 DEF SameBlock, SameBook, CanOrder
  <2> QED  BY <1>11, <1>13, <2>1 DEF Carries, FcdFrame, Simple
<1>23. EndInv(t)  BY <1>14, <1>16, <1>21, <1>22 DEF EndInv, Ready
<1> QED  BY <1>1, <1>12, <1>13, <1>14, <1>23 DEF t

\* The sender turns to a page without error correction.
LEMMA PageOrdered ==
  ASSUME NEW s, CanOrder(s), s.ecm = FALSE, s.state # "I"
  PROVE  LET t == QueuePhase(SetState(s, "I"), "C_NON_ECM_TX") IN
         /\ EndInv(t) /\ SameDoc(s, t) /\ t.state = "I" /\ t.on = "off" /\ t.hears \in {"no", "v21"}
         /\ NoTimer(t) /\ t.retries = s.retries /\ t.buffer = NoFrame
<1> DEFINE t == QueuePhase(SetState(s, "I"), "C_NON_ECM_TX")
<1>1. Said(s, t, "C_NON_ECM_TX", "I", NoFrame)
  BY TurnSaid DEF CanOrder, SendingFast
<1> HIDE DEF t
<1>2. /\ Ready(t) /\ SameRest(s, t) /\ Turned(s, t, "C_NON_ECM_TX") /\ t.state = "I" /\ t.step = 0
      /\ t.buffer = NoFrame
  BY <1>1 DEF Said, CanOrder
<1>3. /\ \/ Held(t, "C_NON_ECM_TX") /\ t.phase \in Listening
         \/ t.phase = "C_NON_ECM_TX" /\ Free(t) /\ t.tx_end = FALSE
      /\ t.hears \in {"no", "v21"}
  <2>1. \/ Held(t, "C_NON_ECM_TX") /\ t.phase = s.phase /\ t.hears = s.hears
        \/ t.phase = "C_NON_ECM_TX" /\ Free(t) /\ t.tx_end = FALSE /\ t.hears = "no"
    BY <1>2, TurnedPhase DEF CanOrder, Ready, Hearing
  <2> QED  BY <2>1 DEF CanOrder
<1>4. SameDoc(s, t) /\ NoTimer(t) /\ t.retries = s.retries /\ t.timer_t0_t1 = FALSE
  BY <1>2 DEF SameRest, SameTimers, NoTimer, CanOrder
<1>5. Mode(t)
  <2>1. t.ecm = FALSE  BY <1>4 DEF SameDoc
  <2>2. InI(t)  BY <1>2, <1>3, <1>4, <2>1 DEF InI, Empty
  <2> QED  BY <1>2, <2>2 DEF Mode, States
<1>6. t.next_phase \in Phases \cup {"IDLE"}  BY <1>3 DEF Held, Free, Phases, TxPhases
<1>7. t.step \in 0 .. 4  BY <1>2
<1>8. Whole(t)  BY <1>2, WholeKept DEF CanOrder
<1>9. Stands(t)
  <2>1. t.tx_file = TRUE /\ t.ecm = t.ecm_allowed /\ t.retries <= Tries /\ t.page <= Pages /\ t.ppr_count <= 3
        /\ t.ecm = FALSE
    BY <1>4 DEF CanOrder, SameDoc
  <2>2. t.state \notin ReceiveStates  BY <1>2 DEF ReceiveStates, AnswerStates
  <2> QED  BY <1>4, <2>1, <2>2 DEF Stands
<1>10. Sides(t) /\ Counts(t)  BY <1>2, <1>6, <1>7, <1>8, <1>9, Joined
<1>11. Carries(t)  BY <1>2 DEF Carries, NoFrame
<1>12. EndInv(t)  BY <1>2, <1>5, <1>10, <1>11 DEF EndInv, Ready
<1> QED  BY <1>2, <1>3, <1>4, <1>12 DEF t, Ready

\* An end that begins to say who it is and what it wants.
Introduction(s, state, f, n) == [SendFrame(SetState(s, state), f) EXCEPT !.step = n]

Introduces(s, t, state, f, n) ==
  /\ Ready(t) /\ SameModems(s, t) /\ SameCall(s, t) /\ SameDoc(s, t) /\ t.next_phase = s.next_phase
  /\ t.state = state /\ t.step = n /\ t.buffer = f /\ t.tx_end = FALSE

\* The introduction of an end is its CSI or TSI, with its step set to the frame to come.
LEMMA Introduced ==
  ASSUME NEW s, NEW state, NEW f, NEW n, Ready(s), s.buffer = NoFrame
  PROVE  Introduces(s, Introduction(s, state, f, n), state, f, n)
<1> DEFINE a == SetState(s, state)
           b == SendFrame(a, f)
           t == [b EXCEPT !.step = n]
<1>1. /\ Fields \subseteq DOMAIN a /\ a.state = state
      /\ SameModems(s, a) /\ SameCall(s, a) /\ SameDoc(s, a)
      /\ a.buffer = s.buffer /\ a.next_phase = s.next_phase /\ a.on = s.on /\ a.tx_end = s.tx_end
  BY StateSet DEF Ready
<1> HIDE DEF a
<1>2. /\ Fields \subseteq DOMAIN b /\ b.tx_end = FALSE /\ b.buffer = f
      /\ SameModems(a, b) /\ SameTalk(a, b) /\ SameCall(a, b) /\ SameDoc(a, b) /\ b.on = a.on
  BY <1>1, FrameTaken
<1> HIDE DEF b
<1>3. /\ Fields \subseteq DOMAIN t /\ t.tx_end = FALSE /\ t.buffer = f /\ t.on = b.on /\ t.step = n
      /\ t.state = b.state /\ t.next_phase = b.next_phase
  BY <1>2 DEF Fields
<1>4. SameModems(b, t)  BY <1>2 DEF Fields, SameModems
<1>5. SameCall(b, t)  BY <1>2 DEF Fields, SameCall, SameTimers
<1>6. SameDoc(b, t)  BY <1>2 DEF Fields, SameDoc
<1> HIDE DEF t
<1>7. SameModems(s, t) /\ SameCall(s, t) /\ SameDoc(s, t)
  BY <1>1, <1>2, <1>4, <1>5, <1>6 DEF SameModems, SameCall, SameTimers, SameDoc
<1>8. t.state = state /\ t.next_phase = s.next_phase  BY <1>1, <1>2, <1>3 DEF SameTalk
<1>9. Ready(t)
  <2>1. t.on = s.on  BY <1>1, <1>2, <1>3
  <2>2. Radio(t) /\ Signals(t)  BY <1>7, <2>1, ModemsKept DEF Ready
  <2>3. t.tx_end \in BOOLEAN  BY <1>3
  <2> QED  BY <1>3, <1>7, <2>1, <2>2, <2>3 DEF Ready, SameCall
<1> QED  BY <1>3, <1>7, <1>8, <1>9 DEF a, b, t, Introduction, Introduces

\* An end that can begin again.
CanOpen(s) ==
  /\ Ready(s) /\ Whole(s) /\ s.buffer = NoFrame /\ NoTimer(s) /\ s.timer_t0_t1 = FALSE
  /\ s.ecm = s.ecm_allowed /\ s.retries <= Tries /\ s.page <= Pages

\* A sender that begins again with DCS.
CanTrain(s) ==
  /\ CanOpen(s) /\ s.tx_file = TRUE /\ s.ppr_count <= 3
  /\ s.ecm = TRUE =>
       /\ s.ecm_block \in 1 .. Blocks
       /\ s.ecm_block = Blocks => s.ecm_at_page_end = TRUE
       /\ s.ecm_block # Blocks => s.ecm_at_page_end = FALSE

OpensIn(s) ==
  \/ Held(s, "B_TX") /\ s.phase \in Listening
  \/ s.phase = "B_TX" /\ Free(s)

\* An end that orders training begins with its CSI or TSI.
LEMMA TrainOrdered ==
  ASSUME NEW s, NEW t, CanTrain(s), Ready(t), SameModems(s, t), SameCall(s, t), SameDoc(s, t),
         t.next_phase = s.next_phase, t.state = "D", t.step \in {1, 2}, InD(t), t.buffer.type \in {"CSI", "TSI"}
  PROVE  EndInv(t)
<1>1. Mode(t)  BY DEF Mode, States
<1>2. Whole(t)
  <2>1. SameRest(s, t)  BY DEF SameRest, SameCall
  <2> QED  BY <2>1, WholeKept DEF CanTrain, CanOpen
<1>3. Stands(t)
  <2>1. t.tx_file = TRUE /\ t.ecm = t.ecm_allowed /\ t.retries <= Tries /\ t.page <= Pages /\ t.ppr_count <= 3
        /\ t.timer_t0_t1 = FALSE
    BY DEF CanTrain, CanOpen, SameDoc, SameCall
  <2>2. t.ecm_block = s.ecm_block /\ t.ecm_at_page_end = s.ecm_at_page_end /\ t.ecm = s.ecm  BY DEF SameDoc
  <2>3. t.state \notin ReceiveStates  BY DEF ReceiveStates, AnswerStates
  <2> QED  BY <2>1, <2>2, <2>3 DEF Stands, CanTrain
<1>4. t.next_phase \in Phases \cup {"IDLE"}
  BY DEF InD, Held, Free, Phases, TxPhases
<1>5. t.step \in 0 .. 4  OBVIOUS
<1>6. Sides(t) /\ Counts(t)  BY <1>2, <1>3, <1>4, <1>5, Joined
<1>7. Carries(t)  BY DEF Carries
<1> QED  BY <1>1, <1>6, <1>7 DEF EndInv, Ready

\* TSI and DCS.
LEMMA DcsOrdered ==
  ASSUME NEW s, CanTrain(s),
         OpensIn(s) \/ (s.phase = "B_RX" /\ Free(s) /\ s.timer_is_t4 = TRUE)
  PROVE  LET t == SendDcs(SetState(s, "D")) IN
         /\ EndInv(t) /\ SameDoc(s, t) /\ t.state = "D" /\ t.on = "off" /\ t.hears = s.hears
         /\ NoTimer(t) /\ t.retries = s.retries /\ t.buffer = Simple("TSI") /\ t.next_phase = s.next_phase
<1> DEFINE t == SendDcs(SetState(s, "D"))
<1>1. t = [SendFrame(SetState(s, "D"), Simple("TSI")) EXCEPT !.step = 2]  BY DEF SendDcs
<1>2. /\ Ready(t) /\ SameModems(s, t) /\ SameCall(s, t) /\ SameDoc(s, t) /\ t.next_phase = s.next_phase
      /\ t.state = "D" /\ t.step = 2 /\ t.buffer = Simple("TSI") /\ t.tx_end = FALSE
  <2> DEFINE u == Introduction(s, "D", Simple("TSI"), 2)
  <2>1. Ready(s) /\ s.buffer = NoFrame  BY DEF CanTrain, CanOpen
  <2>2. Introduces(s, u, "D", Simple("TSI"), 2)  BY <2>1, Introduced
  <2> HIDE DEF u, t
  <2>3. t = u  BY <1>1 DEF u, Introduction
  <2> QED  BY <2>2, <2>3 DEF Introduces
<1> HIDE DEF t
<1>3. /\ t.phase = s.phase /\ t.hears = s.hears /\ t.rx_signal_present = s.rx_signal_present
      /\ t.timer_is_t4 = s.timer_is_t4 /\ t.timer_t2_t4 = FALSE /\ t.retries = s.retries
  BY <1>2 DEF SameModems, SameCall, SameTimers, CanTrain, CanOpen, NoTimer
<1>4. InD(t)
  BY <1>2, <1>3 DEF InD, OpensIn, Held, Free, NoTimer
<1>5. EndInv(t)  BY <1>2, <1>4, TrainOrdered DEF Simple
<1> QED  BY <1>2, <1>3, <1>5 DEF Ready, NoTimer, t

\* CSI, after which the sender begins again as well.
LEMMA RestartOrdered ==
  ASSUME NEW s, CanTrain(s), OpensIn(s)
  PROVE  LET t == SendDis(SetState(s, "D")) IN
         /\ EndInv(t) /\ SameDoc(s, t) /\ t.state = "D" /\ t.on = "off" /\ t.hears = s.hears
         /\ NoTimer(t) /\ t.retries = s.retries /\ t.buffer = Simple("CSI") /\ t.next_phase = s.next_phase
<1> DEFINE t == SendDis(SetState(s, "D"))
<1>1. t = [SendFrame(SetState(s, "D"), Simple("CSI")) EXCEPT !.step = 1]  BY DEF SendDis
<1>2. /\ Ready(t) /\ SameModems(s, t) /\ SameCall(s, t) /\ SameDoc(s, t) /\ t.next_phase = s.next_phase
      /\ t.state = "D" /\ t.step = 1 /\ t.buffer = Simple("CSI") /\ t.tx_end = FALSE
  <2> DEFINE u == Introduction(s, "D", Simple("CSI"), 1)
  <2>1. Ready(s) /\ s.buffer = NoFrame  BY DEF CanTrain, CanOpen
  <2>2. Introduces(s, u, "D", Simple("CSI"), 1)  BY <2>1, Introduced
  <2> HIDE DEF u, t
  <2>3. t = u  BY <1>1 DEF u, Introduction
  <2> QED  BY <2>2, <2>3 DEF Introduces
<1> HIDE DEF t
<1>3. /\ t.phase = s.phase /\ t.hears = s.hears /\ t.rx_signal_present = s.rx_signal_present
      /\ t.timer_t2_t4 = FALSE /\ t.retries = s.retries
  BY <1>2 DEF SameModems, SameCall, SameTimers, CanTrain, CanOpen, NoTimer
<1>4. InD(t)
  BY <1>2, <1>3 DEF InD, OpensIn, Held, Free, NoTimer
<1>5. EndInv(t)  BY <1>2, <1>4, TrainOrdered DEF Simple
<1> QED  BY <1>2, <1>3, <1>5 DEF Ready, NoTimer, t

\* CSI and DIS, from an end that will receive.
LEMMA DisOrdered ==
  ASSUME NEW s, CanOpen(s), s.rx_file = TRUE,
         (Held(s, "B_TX") /\ s.phase = "B_RX") \/ (s.phase = "B_TX" /\ Free(s))
  PROVE  LET t == SendDis(SetState(s, "R")) IN
         /\ EndInv(t) /\ SameDoc(s, t) /\ t.state = "R" /\ t.on = "off" /\ t.hears = s.hears
         /\ NoTimer(t) /\ t.retries = s.retries /\ t.buffer = Simple("CSI") /\ t.next_phase = s.next_phase
<1> DEFINE t == SendDis(SetState(s, "R"))
<1>1. t = [SendFrame(SetState(s, "R"), Simple("CSI")) EXCEPT !.step = 1]  BY DEF SendDis
<1>2. /\ Ready(t) /\ SameModems(s, t) /\ SameCall(s, t) /\ SameDoc(s, t) /\ t.next_phase = s.next_phase
      /\ t.state = "R" /\ t.step = 1 /\ t.buffer = Simple("CSI") /\ t.tx_end = FALSE
  <2> DEFINE u == Introduction(s, "R", Simple("CSI"), 1)
  <2>1. Ready(s) /\ s.buffer = NoFrame  BY DEF CanOpen
  <2>2. Introduces(s, u, "R", Simple("CSI"), 1)  BY <2>1, Introduced
  <2> HIDE DEF u, t
  <2>3. t = u  BY <1>1 DEF u, Introduction
  <2> QED  BY <2>2, <2>3 DEF Introduces
<1> HIDE DEF t
<1>3. /\ t.phase = s.phase /\ t.hears = s.hears /\ t.rx_signal_present = s.rx_signal_present
      /\ t.timer_t2_t4 = FALSE /\ t.retries = s.retries /\ t.timer_t0_t1 = FALSE
  BY <1>2 DEF SameModems, SameCall, SameTimers, CanOpen, NoTimer
<1>4. InR(t)
  BY <1>2, <1>3 DEF InR, Held, Free, NoTimer
<1>5. Mode(t)  BY <1>2, <1>4 DEF Mode, States
<1>6. Whole(t)
  <2>1. SameRest(s, t)  BY <1>2 DEF SameRest, SameCall
  <2> QED  BY <2>1, WholeKept DEF CanOpen
<1>7. Stands(t)
  <2>1. t.retries <= Tries /\ t.page <= Pages /\ t.timer_t0_t1 = FALSE
    BY <1>2, <1>3 DEF CanOpen, SameDoc
  <2> QED  BY <1>2, <2>1 DEF Stands, ReceiveStates, SendStates, AnswerStates
<1>8. t.next_phase \in Phases \cup {"IDLE"}
  BY <1>2 DEF Held, Free, Phases, TxPhases
<1>9. t.step \in 0 .. 4  BY <1>2
<1>10. Sides(t) /\ Counts(t)  BY <1>2, <1>6, <1>7, <1>8, <1>9, Joined
<1>11. Carries(t)
  <2>1. t.page = 1 /\ t.ppr_count <= 3
    <3>1. s.page = 1 /\ s.ppr_count = 0  BY DEF CanOpen, Whole
    <3> QED  BY <1>2, <3>1 DEF SameDoc
  <2> QED  BY <1>2, <2>1 DEF Carries, Simple
<1>12. EndInv(t)  BY <1>2, <1>5, <1>10, <1>11 DEF EndInv, Ready
<1> QED  BY <1>2, <1>3, <1>12 DEF Ready, NoTimer, t

Asking(s) == s.state \in {"D_POST_TCF", "II_Q", "IV_PPS_NULL", "IV_PPS_Q"}

\* A sender that waits for an answer and hears one may give its next order.
LEMMA SenderHeard ==
  ASSUME NEW s, NEW r, Attends(s), HeardAs(s, r, TRUE), s.hears = "v21", Asking(s)
  PROVE  /\ CanOrder(r) /\ CanTrain(r) /\ r.state = s.state /\ SameDoc(s, r) /\ r.phase = s.phase /\ Free(r)
         /\ r.timer_is_t4 = TRUE /\ r.retries = s.retries
         /\ s.state = "D_POST_TCF" => s.phase = "B_RX"
         /\ s.state # "D_POST_TCF" => s.phase = "D_RX"
<1>1. /\ Ready(r) /\ Whole(r) /\ Stands(r) /\ r.hears = "v21"
  BY HeardEnd
<1>2. /\ SameModems(s, r) /\ SameTalk(s, r) /\ SameDoc(s, r) /\ r.buffer = s.buffer /\ r.timer_t2_t4 = FALSE
      /\ r.timer_t0_t1 = FALSE /\ r.timer_is_t4 = s.timer_is_t4 /\ r.retries = s.retries
  BY DEF HeardAs
<1>3. /\ Free(s) /\ Empty(s)
      /\ s.state = "D_POST_TCF" => s.phase = "B_RX"
      /\ s.state # "D_POST_TCF" => s.phase = "D_RX"
  BY Attending DEF Asking
<1>4. s.timer_is_t4 = TRUE
  <2>1. Mode(s)  BY DEF Attends, EndInv
  <2>2. CASE s.state = "D_POST_TCF"  BY <2>1, <2>2 DEF Mode, InD_POST_TCF
  <2>3. CASE s.state # "D_POST_TCF"
    <3>1. InII_Q(s) \/ InIV_PPS(s)  BY <2>1, <2>3 DEF Mode, Asking
    <3>2. \A types : ~Command(s, "D_TX", types)  BY <1>3, <2>3 DEF Command
    <3> QED  BY <3>1, <3>2 DEF InII_Q, InIV_PPS, Asked
  <2> QED  BY <2>2, <2>3
<1>5. r.state = s.state /\ r.phase = s.phase /\ r.next_phase = "IDLE" /\ r.buffer = NoFrame /\ r.phase \in Listening
  BY <1>2, <1>3 DEF SameTalk, SameModems, Free, Empty, Listening
<1>6. r.tx_file = TRUE /\ r.ecm = r.ecm_allowed /\ r.retries <= Tries /\ r.page <= Pages /\ r.ppr_count <= 3
  BY <1>1, <1>5 DEF Stands, SendStates, Over, Asking
<1>7. r.ecm = TRUE =>
       /\ r.ecm_block \in 1 .. Blocks
       /\ r.ecm_block = Blocks => r.ecm_at_page_end = TRUE
       /\ r.ecm_block # Blocks => r.ecm_at_page_end = FALSE
  BY <1>1, <1>5 DEF Stands, SendStates, Asking
<1>8. CanOrder(r)  BY <1>1, <1>2, <1>5, <1>6, <1>7 DEF CanOrder, NoTimer
<1>9. CanTrain(r)  BY <1>1, <1>2, <1>5, <1>6, <1>7 DEF CanTrain, CanOpen, NoTimer
<1> QED  BY <1>2, <1>3, <1>4, <1>5, <1>8, <1>9 DEF Free

\* The count of retries begins again.
Reset(r, b) ==
  /\ CanOrder(b) /\ CanTrain(b) /\ SameMachine(r, b) /\ SameDoc(r, b) /\ b.retries = 0

\* A fresh count of retries leaves the order possible.
LEMMA RetriesReset ==
  ASSUME NEW r, CanOrder(r), CanTrain(r)
  PROVE  Reset(r, [r EXCEPT !.retries = 0])
<1> DEFINE b == [r EXCEPT !.retries = 0]
<1>0. Tries \in Nat  BY T30Assumption
<1>1. Fields \subseteq DOMAIN r  BY DEF CanOrder, Ready
<1>2. Fields \subseteq DOMAIN b /\ SameMachine(r, b)
  BY <1>1 DEF Fields, SameMachine, SameModems, SameTalk, SameTimers
<1>3. SameDoc(r, b) /\ b.retries = 0 /\ b.current_status = r.current_status
  BY <1>1 DEF Fields, SameDoc
<1> HIDE DEF b
<1>4. Ready(b)  BY <1>2, MachineKept DEF CanOrder
<1>5. Whole(b)
  <2>1. Whole(r) /\ b.retries \in 0 .. Tries + 1  BY <1>0, <1>3 DEF CanOrder
  <2> QED  BY <1>2, <1>3, <2>1 DEF Whole, SameMachine, SameTimers, SameDoc
<1>6. b.hears = r.hears /\ b.phase = r.phase /\ b.buffer = r.buffer /\ b.timer_t2_t4 = r.timer_t2_t4
      /\ b.timer_t0_t1 = r.timer_t0_t1
  BY <1>2 DEF SameMachine, SameModems, SameTimers
<1>7. b.tx_file = TRUE /\ b.ecm = b.ecm_allowed /\ b.retries <= Tries /\ b.page <= Pages /\ b.ppr_count <= 3
  BY <1>0, <1>3 DEF CanOrder, SameDoc
<1>8. b.ecm = TRUE =>
       /\ b.ecm_block \in 1 .. Blocks
       /\ b.ecm_block = Blocks => b.ecm_at_page_end = TRUE
       /\ b.ecm_block # Blocks => b.ecm_at_page_end = FALSE
  BY <1>3 DEF CanOrder, SameDoc
<1>9. CanOrder(b)  BY <1>4, <1>5, <1>6, <1>7, <1>8 DEF CanOrder, NoTimer
<1>10. CanTrain(b)  BY <1>4, <1>5, <1>6, <1>7, <1>8 DEF CanOrder, CanTrain, CanOpen, NoTimer
<1> QED  BY <1>2, <1>3, <1>9, <1>10 DEF Reset, b

\* A sender that has turned to a block, or a page.
Orders(s, t) ==
  /\ Settles(s, t) /\ NoTimer(t) /\ t.ecm = s.ecm
  /\ t.image = s.image /\ t.got = s.got /\ t.in_message = s.in_message /\ t.next_rx_step = s.next_rx_step
  /\ t.ecm_allowed = TRUE => t.state = "IV"
  /\ t.ecm_allowed = FALSE => t.state = "I"

\* CFR.
LEMMA CfrHeard ==
  ASSUME NEW s, NEW r, Attends(s), HeardAs(s, r, TRUE), s.hears = "v21", s.state = "D_POST_TCF"
  PROVE  LET t == ProcessCfr(r) IN Orders(s, t) /\ t.page = s.page /\ t.ecm_block = s.ecm_block
<1> DEFINE b == [r EXCEPT !.retries = 0]
           t == ProcessCfr(r)
<1>1. /\ CanOrder(r) /\ CanTrain(r) /\ r.state = s.state /\ SameDoc(s, r) /\ r.phase = s.phase
  BY SenderHeard DEF Asking
<1>2. Reset(r, b)  BY <1>1, RetriesReset
<1>3. t = IF r.ecm THEN SendBlock(b) ELSE QueuePhase(SetState(b, "I"), "C_NON_ECM_TX")
  BY <1>1 DEF ProcessCfr
<1> HIDE DEF b, t
<1>4. CanOrder(b) /\ SameMachine(r, b) /\ SameDoc(r, b)  BY <1>2 DEF Reset
<1>5. b.state = s.state /\ b.ecm = r.ecm /\ b.ecm \in BOOLEAN /\ b.ecm = b.ecm_allowed
  BY <1>1, <1>4 DEF SameMachine, SameTalk, SameDoc, CanOrder, Whole
<1>6. CASE b.ecm = TRUE
  <2>1. /\ EndInv(t) /\ SameBlock(b, t) /\ t.state = "IV" /\ t.on = "off" /\ t.hears \in {"no", "v21"}
        /\ NoTimer(t) /\ t.retries = b.retries
    BY <1>3, <1>4, <1>5, <1>6, BlockOrdered
  <2>2. SameBook(s, t) /\ t.next_rx_step = s.next_rx_step
    BY <1>1, <1>4, <2>1 DEF SameBlock, SameBook, SameDoc
  <2>3. t.ecm_allowed = TRUE  BY <1>5, <1>6, <2>1 DEF SameBlock, SameBook
  <2> QED  BY <2>1, <2>2, <2>3 DEF Orders, Settles, SameBook, t
<1>7. CASE b.ecm = FALSE
  <2>1. /\ EndInv(t) /\ SameDoc(b, t) /\ t.state = "I" /\ t.on = "off" /\ t.hears \in {"no", "v21"}
        /\ NoTimer(t) /\ t.retries = b.retries /\ t.buffer = NoFrame
    BY <1>3, <1>4, <1>5, <1>7, PageOrdered
  <2>2. SameDoc(s, t)
    BY <1>1, <1>4, <2>1 DEF SameDoc
  <2>3. t.ecm_allowed = FALSE  BY <1>5, <1>7, <2>1 DEF SameDoc
  <2> QED  BY <2>1, <2>2, <2>3 DEF Orders, Settles, SameDoc, t
<1> QED  BY <1>5, <1>6, <1>7

\* What an end keeps that begins to train the receiver again.
Trains(s, t) ==
  /\ Settles(s, t) /\ t.state = "D" /\ NoTimer(t) /\ t.ecm = s.ecm_allowed
  /\ t.image = s.image /\ t.got = s.got /\ t.in_message = s.in_message /\ t.next_rx_step = s.next_rx_step

\* FTT.
LEMMA FttHeard ==
  ASSUME NEW s, NEW r, Attends(s), HeardAs(s, r, TRUE), s.hears = "v21", s.state = "D_POST_TCF"
  PROVE  LET t == ProcessFtt(r) IN Trains(s, t) /\ SameDoc(s, t)
<1> DEFINE b == [r EXCEPT !.retries = 0]
           t == SendDcs(SetState(b, "D"))
<1>1. /\ CanOrder(r) /\ CanTrain(r) /\ r.state = s.state /\ SameDoc(s, r) /\ r.phase = "B_RX" /\ Free(r)
      /\ r.timer_is_t4 = TRUE
  BY SenderHeard DEF Asking
<1>2. Reset(r, b)  BY <1>1, RetriesReset
<1>3. ProcessFtt(r) = t  BY <1>1 DEF ProcessFtt
<1> HIDE DEF b
<1>4. CanTrain(b) /\ SameDoc(r, b)  BY <1>2 DEF Reset
<1>5. b.phase = "B_RX" /\ Free(b) /\ b.timer_is_t4 = TRUE /\ b.hears = r.hears
  BY <1>1, <1>2 DEF Reset, SameMachine, SameModems, SameTalk, SameTimers, Free
<1>6. r.hears = s.hears  BY HeardEnd
<1>7. /\ EndInv(t) /\ SameDoc(b, t) /\ t.state = "D" /\ t.on = "off" /\ t.hears = b.hears
      /\ NoTimer(t) /\ t.retries = b.retries /\ t.buffer = Simple("TSI") /\ t.next_phase = b.next_phase
  BY <1>4, <1>5, DcsOrdered
<1> HIDE DEF t
<1>8. SameDoc(s, t)  BY <1>1, <1>4, <1>7 DEF SameDoc
<1>9. t.ecm = s.ecm_allowed  BY <1>1, <1>8 DEF SameDoc, CanOrder
<1> QED  BY <1>3, <1>5, <1>6, <1>7, <1>8, <1>9 DEF Trains, Settles, SameDoc, t

AskingBlock(s) == s.state \in {"IV_PPS_NULL", "IV_PPS_Q"}

\* A sender that asks for a block does so with error correction, in the state that its place in the page calls for.
LEMMA AsksBlock ==
  ASSUME NEW s, EndInv(s), AskingBlock(s)
  PROVE  /\ s.ecm = TRUE /\ s.ecm_allowed = TRUE /\ s.next_tx_step = CheckNextTxStep(s) /\ s.tx_file = TRUE
         /\ s.state = "IV_PPS_Q" => s.ecm_at_page_end = TRUE
         /\ s.state = "IV_PPS_NULL" => s.ecm_at_page_end = FALSE
<1>1. InIV_PPS(s)  BY DEF EndInv, Mode, AskingBlock
<1> QED  BY <1>1 DEF InIV_PPS, EndInv, Sides, SendStates, AskingBlock

\* PPR: the frames that are missing are sent again.
LEMMA PprHeard ==
  ASSUME NEW s, NEW r, NEW m, Attends(s), HeardAs(s, r, TRUE), s.hears = "v21", AskingBlock(s)
  PROVE  LET t == ProcessPpr(r, m) IN
         /\ Settles(s, t) /\ SameBook(s, t) /\ t.next_rx_step = s.next_rx_step /\ NoTimer(t)
         /\ \/ t.state = "IV"
            \/ t.state = "IV_CTC" /\ t.buffer = Simple("CTC")
<1> DEFINE a == [r EXCEPT !.ppr_count = @ + 1]
           b == [a EXCEPT !.ecm_len = @ \cap m.again]
           c == SetState(a, "IV_CTC")
           t == ProcessPpr(r, m)
<1>1. /\ CanOrder(r) /\ r.state = s.state /\ SameDoc(s, r) /\ r.phase = s.phase /\ s.phase = "D_RX" /\ Free(r)
      /\ r.timer_is_t4 = TRUE /\ r.retries = s.retries
  BY SenderHeard DEF Asking, AskingBlock
<1>2. t = IF a.ppr_count >= 4 THEN SendFrame(c, Simple("CTC")) ELSE SendBlock(b)
  BY <1>1 DEF ProcessPpr, AskingBlock
<1>3. Fields \subseteq DOMAIN r  BY <1>1 DEF CanOrder, Ready
<1>4. Fields \subseteq DOMAIN a /\ SameMachine(r, a) /\ a.ppr_count = r.ppr_count + 1
      /\ a.retries = r.retries /\ a.current_status = r.current_status
  BY <1>3 DEF Fields, SameMachine, SameModems, SameTalk, SameTimers
<1>5. /\ a.page = r.page /\ a.ecm_block = r.ecm_block /\ a.ecm_len = r.ecm_len
      /\ a.ecm_current_frame = r.ecm_current_frame /\ a.ecm_at_page_end = r.ecm_at_page_end
      /\ a.in_message = r.in_message /\ a.image = r.image /\ a.got = r.got /\ a.ecm = r.ecm
      /\ a.next_tx_step = r.next_tx_step /\ a.next_rx_step = r.next_rx_step
      /\ a.tx_file = r.tx_file /\ a.rx_file = r.rx_file /\ a.compatible = r.compatible
      /\ a.ecm_allowed = r.ecm_allowed
  BY <1>3 DEF Fields
<1>6. Fields \subseteq DOMAIN b /\ SameMachine(a, b) /\ b.ecm_len = a.ecm_len \cap m.again
      /\ b.retries = a.retries /\ b.current_status = a.current_status /\ b.ppr_count = a.ppr_count
  BY <1>4 DEF Fields, SameMachine, SameModems, SameTalk, SameTimers
<1>7. /\ b.page = a.page /\ b.ecm_block = a.ecm_block
      /\ b.ecm_current_frame = a.ecm_current_frame /\ b.ecm_at_page_end = a.ecm_at_page_end
      /\ b.in_message = a.in_message /\ b.image = a.image /\ b.got = a.got /\ b.ecm = a.ecm
      /\ b.next_tx_step = a.next_tx_step /\ b.next_rx_step = a.next_rx_step
      /\ b.tx_file = a.tx_file /\ b.rx_file = a.rx_file /\ b.compatible = a.compatible
      /\ b.ecm_allowed = a.ecm_allowed
  BY <1>4 DEF Fields
<1> HIDE DEF a, b, t
<1>8. Ready(a)  BY <1>1, <1>4, MachineKept DEF CanOrder
<1>9. r.ecm = TRUE /\ r.ecm_allowed = TRUE /\ r.ppr_count \in 0 .. 4 /\ r.ppr_count <= 3 /\ r.tx_file = TRUE
  BY <1>1, AsksBlock DEF Attends, SameDoc, CanOrder, Whole
<1>10. Whole(a)
  <2>1. a.ppr_count \in 0 .. 4  BY <1>4, <1>9
  <2>2. Whole(r)  BY <1>1 DEF CanOrder
  <2>3. a.rx_file = FALSE  BY <1>5, <1>9, <2>2 DEF Whole
  <2> QED  BY <1>4, <1>5, <2>1, <2>2, <2>3 DEF Whole, SameMachine, SameTimers
<1>11. /\ a.hears = "v21" /\ a.phase = "D_RX" /\ a.buffer = NoFrame /\ NoTimer(a) /\ a.timer_t0_t1 = FALSE
       /\ a.state = s.state /\ a.next_phase = "IDLE" /\ a.timer_is_t4 = TRUE
  BY <1>1, <1>4 DEF SameMachine, SameModems, SameTalk, SameTimers, CanOrder, NoTimer, Free
<1>12. CASE a.ppr_count >= 4
  <2>1. /\ Fields \subseteq DOMAIN c /\ c.state = "IV_CTC" /\ c.step = 0
        /\ SameModems(a, c) /\ SameCall(a, c) /\ SameDoc(a, c)
        /\ c.buffer = NoFrame /\ c.next_phase = "IDLE" /\ c.on = a.on
    BY <1>4, <1>11, StateSet DEF AskingBlock
  <2> HIDE DEF c
  <2>2. /\ Fields \subseteq DOMAIN t /\ t.tx_end = FALSE /\ t.buffer = Simple("CTC")
        /\ SameModems(c, t) /\ SameTalk(c, t) /\ SameCall(c, t) /\ SameDoc(c, t) /\ t.on = c.on
    <3>1. t = SendFrame(c, Simple("CTC"))  BY <1>2, <1>12
    <3>2. Fields \subseteq DOMAIN c /\ c.buffer = NoFrame  BY <2>1
    <3> QED  BY <3>1, <3>2, FrameTaken
  <2>3. SameModems(a, t) /\ SameCall(a, t) /\ SameDoc(a, t)
    BY <2>1, <2>2 DEF SameModems, SameCall, SameTimers, SameDoc
  <2>4. t.state = "IV_CTC" /\ t.step = 0 /\ t.next_phase = "IDLE" /\ t.on = "off"
    BY <1>8, <2>1, <2>2 DEF SameTalk, Ready
  <2>5. Ready(t)
    <3>1. Radio(t) /\ Signals(t)  BY <1>8, <2>3, <2>4, ModemsKept DEF Ready
    <3>2. t.tx_end \in BOOLEAN  BY <2>2
    <3> QED  BY <1>8, <2>2, <2>3, <2>4, <3>1, <3>2 DEF Ready, SameCall
  <2>6. t.ecm = TRUE /\ t.phase = "D_RX" /\ t.timer_is_t4 = TRUE /\ NoTimer(t) /\ t.hears = "v21"
    BY <1>5, <1>9, <1>11, <2>3 DEF SameModems, SameCall, SameTimers, SameDoc, NoTimer
  <2>7. Mode(t)
    <3>1. InIV_CTC(t)  BY <2>2, <2>4, <2>6 DEF InIV_CTC, Free
    <3> QED  BY <2>4, <3>1 DEF Mode, States
  <2>8. Whole(t)
    <3>1. SameRest(a, t)  BY <2>3 DEF SameRest, SameCall
    <3> QED  BY <1>10, <3>1, WholeKept
  <2>9. Stands(t)
    <3>1. /\ t.tx_file = TRUE /\ t.ecm_allowed = TRUE /\ t.timer_t0_t1 = FALSE
          /\ t.ecm_block = r.ecm_block /\ t.ecm_at_page_end = r.ecm_at_page_end
      BY <1>5, <1>9, <1>11, <2>3 DEF SameCall, SameDoc
    <3>2. t.retries <= Tries /\ t.page <= Pages
      BY <1>1, <1>4, <1>5, <2>3 DEF SameCall, SameDoc, CanOrder
    <3> QED  BY <1>1, <1>9, <2>4, <2>6, <3>1, <3>2 DEF Stands, CanOrder, ReceiveStates, AnswerStates
  <2>10. t.next_phase \in Phases \cup {"IDLE"} /\ t.step \in 0 .. 4  BY <2>4
  <2>11. Sides(t) /\ Counts(t)  BY <2>5, <2>8, <2>9, <2>10, Joined
  <2>12. Carries(t)  BY <2>2, <2>4 DEF Carries, Simple
  <2>13. EndInv(t)  BY <2>5, <2>7, <2>11, <2>12 DEF EndInv, Ready
  <2>14. SameBook(s, t) /\ t.next_rx_step = s.next_rx_step
    BY <1>1, <1>5, <2>3 DEF SameBook, SameDoc
  <2> QED  BY <2>2, <2>4, <2>6, <2>13, <2>14 DEF Settles, SameBook, t
<1>13. CASE ~(a.ppr_count >= 4)
  <2>1. Ready(b)  BY <1>6, <1>8, MachineKept
  <2>2. Whole(b)
    <3>1. b.ecm_len \subseteq 1 .. BlockFrames  BY <1>6, <1>10 DEF Whole
    <3> QED  BY <1>6, <1>7, <1>10, <3>1 DEF Whole, SameMachine, SameTimers
  <2>3. /\ b.hears = "v21" /\ b.phase \in Listening /\ b.buffer = NoFrame /\ NoTimer(b) /\ b.timer_t0_t1 = FALSE
        /\ b.state = s.state
    BY <1>6, <1>11 DEF SameMachine, SameModems, SameTalk, SameTimers, NoTimer, Listening
  <2>4. b.tx_file = TRUE /\ b.ecm = TRUE /\ b.ecm_allowed = TRUE /\ b.retries <= Tries /\ b.page <= Pages
    BY <1>1, <1>4, <1>5, <1>6, <1>7, <1>9 DEF CanOrder
  <2>5. b.ppr_count <= 3  BY <1>4, <1>6, <1>9, <1>13
  <2>6. b.ecm_block = r.ecm_block /\ b.ecm_at_page_end = r.ecm_at_page_end  BY <1>5, <1>7
  <2>7. CanOrder(b)  BY <1>1, <1>9, <2>1, <2>2, <2>3, <2>4, <2>5, <2>6 DEF CanOrder
  <2>8. /\ EndInv(t) /\ SameBlock(b, t) /\ t.state = "IV" /\ t.on = "off" /\ t.hears \in {"no", "v21"}
        /\ NoTimer(t) /\ t.retries = b.retries
    <3>1. t = SendBlock(b)  BY <1>2, <1>13
    <3>2. b.state # "IV"  BY <2>3 DEF AskingBlock
    <3> QED  BY <2>4, <2>7, <3>1, <3>2, BlockOrdered
  <2>9. SameBook(s, t) /\ t.next_rx_step = s.next_rx_step
    BY <1>1, <1>5, <1>7, <2>8 DEF SameBlock, SameBook, SameDoc
  <2> QED  BY <2>8, <2>9 DEF Settles, SameBook, t
<1> QED  BY <1>12, <1>13

\* A sender that can go on to the next block, to the next page or to the end.
CanTurn(s) ==
  /\ Ready(s) /\ Whole(s) /\ s.hears = "v21" /\ s.phase \in Listening /\ s.buffer = NoFrame
  /\ NoTimer(s) /\ s.timer_t0_t1 = FALSE
  /\ s.tx_file = TRUE /\ s.ecm = s.ecm_allowed /\ s.retries <= Tries

\* What the receiver's side of an end keeps.
SameFile(s, t) ==
  /\ t.ecm = s.ecm /\ t.image = s.image /\ t.got = s.got
  /\ t.in_message = s.in_message /\ t.next_rx_step = s.next_rx_step

\* The next page.
PageTurned(r) == [[r EXCEPT !.retries = 0] EXCEPT !.page = @ + 1, !.ecm_block = 0]

\* The next page of the sender starts at its first block.
LEMMA PageTurns ==
  ASSUME NEW r, CanOrder(r)
  PROVE  LET t == PageTurned(r) IN
         /\ CanTurn(t) /\ t.state = r.state /\ SameFile(r, t) /\ t.page = r.page + 1 /\ t.ecm_block = 0
         /\ t.ppr_count = r.ppr_count /\ t.hears = r.hears /\ t.phase = r.phase /\ t.step = r.step
         /\ t.tx_file = r.tx_file /\ t.rx_file = r.rx_file /\ t.ecm_allowed = r.ecm_allowed
         /\ t.next_tx_step = r.next_tx_step
<1> DEFINE b == [r EXCEPT !.retries = 0]
           t == PageTurned(r)
<1>0. Tries \in Nat /\ Pages \in Nat /\ Blocks \in Nat  BY T30Assumption
<1>1. Fields \subseteq DOMAIN r /\ Whole(r) /\ Ready(r)  BY DEF CanOrder, Ready
<1>2. Fields \subseteq DOMAIN b /\ SameMachine(r, b)
  BY <1>1 DEF Fields, SameMachine, SameModems, SameTalk, SameTimers
<1>3. SameDoc(r, b) /\ b.retries = 0 /\ b.current_status = r.current_status
  BY <1>1 DEF Fields, SameDoc
<1>4. t = [b EXCEPT !.page = @ + 1, !.ecm_block = 0]  BY DEF PageTurned
<1> HIDE DEF b, t
<1>5. Fields \subseteq DOMAIN t /\ SameMachine(b, t) /\ t.retries = b.retries /\ t.current_status = b.current_status
  BY <1>2, <1>4 DEF Fields, SameMachine, SameModems, SameTalk, SameTimers
<1>6. /\ t.page = b.page + 1 /\ t.ecm_block = 0
      /\ t.ecm_len = b.ecm_len /\ t.ecm_current_frame = b.ecm_current_frame
      /\ t.ecm_at_page_end = b.ecm_at_page_end /\ t.in_message = b.in_message /\ t.image = b.image /\ t.got = b.got
      /\ t.ecm = b.ecm /\ t.ppr_count = b.ppr_count /\ t.next_tx_step = b.next_tx_step
      /\ t.next_rx_step = b.next_rx_step /\ t.tx_file = b.tx_file /\ t.rx_file = b.rx_file
      /\ t.compatible = b.compatible /\ t.ecm_allowed = b.ecm_allowed
  BY <1>2, <1>4 DEF Fields
<1>7. SameMachine(r, t)
  BY <1>2, <1>5 DEF SameMachine, SameModems, SameTalk, SameTimers
<1>8. Ready(t)  BY <1>1, <1>5, <1>7, MachineKept
<1>9. t.page = r.page + 1 /\ t.ecm_block = 0 /\ t.retries = 0  BY <1>3, <1>5, <1>6 DEF SameDoc
<1>10. /\ t.ecm_len = r.ecm_len /\ t.ecm_current_frame = r.ecm_current_frame
       /\ t.ecm_at_page_end = r.ecm_at_page_end /\ t.ppr_count = r.ppr_count /\ t.next_tx_step = r.next_tx_step
       /\ SameFile(r, t) /\ t.tx_file = r.tx_file /\ t.rx_file = r.rx_file
       /\ t.compatible = r.compatible /\ t.ecm_allowed = r.ecm_allowed /\ t.current_status = r.current_status
  BY <1>3, <1>5, <1>6 DEF SameDoc, SameFile
<1>11. t.page \in 1 .. Pages + 1
  <2>1. r.page \in 1 .. Pages + 1 /\ r.page <= Pages  BY DEF CanOrder, Whole
  <2> QED  BY <1>0, <1>9, <2>1
<1>12. t.retries \in 0 .. Tries + 1 /\ t.ecm_block \in 0 .. Blocks  BY <1>0, <1>9
<1>13. t.tx_file = TRUE /\ t.ecm = t.ecm_allowed  BY <1>10 DEF CanOrder, SameFile
<1>14. Whole(t)
  BY <1>1, <1>7, <1>9, <1>10, <1>11, <1>12, <1>13 DEF Whole, SameFile, SameMachine, SameTimers
<1>15. t.hears = r.hears /\ t.phase = r.phase /\ t.buffer = r.buffer /\ t.timer_t2_t4 = r.timer_t2_t4
       /\ t.timer_t0_t1 = r.timer_t0_t1 /\ t.state = r.state /\ t.step = r.step
  BY <1>7 DEF SameMachine, SameModems, SameTimers, SameTalk
<1>16. CanTurn(t)  BY <1>0, <1>8, <1>9, <1>13, <1>14, <1>15 DEF CanTurn, CanOrder, NoTimer
<1> QED  BY <1>9, <1>10, <1>15, <1>16 DEF t

\* The next block.
LEMMA PartialPage ==
  ASSUME NEW r, CanTurn(r), r.ecm = TRUE, r.page <= Pages, r.ecm_block + 1 <= Blocks
  PROVE  LET t == GetPartialPage(r) IN
         /\ CanOrder(t) /\ t.state = r.state /\ SameFile(r, t) /\ t.page = r.page /\ t.ecm_block = r.ecm_block + 1
         /\ t.tx_file = r.tx_file /\ t.rx_file = r.rx_file /\ t.ecm_allowed = r.ecm_allowed
<1> DEFINE t == GetPartialPage(r)
<1>0. Blocks \in Nat \ {0} /\ BlockFrames \in Nat  BY T30Assumption
<1>1. Fields \subseteq DOMAIN r /\ Whole(r) /\ Ready(r)  BY DEF CanTurn, Ready
<1>2. t = [r EXCEPT !.ppr_count = 0, !.ecm_block = @ + 1, !.ecm_at_page_end = (r.ecm_block + 1 = Blocks),
             !.ecm_len = 1 .. BlockFrames]
  BY DEF GetPartialPage
<1> HIDE DEF t
<1>3. Fields \subseteq DOMAIN t /\ SameMachine(r, t) /\ t.retries = r.retries /\ t.current_status = r.current_status
  BY <1>1, <1>2 DEF Fields, SameMachine, SameModems, SameTalk, SameTimers
<1>4. /\ t.ppr_count = 0 /\ t.ecm_block = r.ecm_block + 1 /\ t.ecm_at_page_end = (r.ecm_block + 1 = Blocks)
      /\ t.ecm_len = 1 .. BlockFrames
  BY <1>1, <1>2 DEF Fields
<1>5. /\ t.page = r.page /\ t.ecm_current_frame = r.ecm_current_frame /\ t.next_tx_step = r.next_tx_step
      /\ SameFile(r, t) /\ t.tx_file = r.tx_file /\ t.rx_file = r.rx_file
      /\ t.compatible = r.compatible /\ t.ecm_allowed = r.ecm_allowed
  BY <1>1, <1>2 DEF Fields, SameFile
<1>6. Ready(t)  BY <1>1, <1>3, MachineKept
<1>7. /\ t.ecm_block \in 0 .. Blocks /\ t.ecm_block \in 1 .. Blocks
  <2>1. r.ecm_block \in 0 .. Blocks  BY <1>1 DEF Whole
  <2> QED  BY <1>0, <1>4, <2>1
<1>8. /\ t.ecm_block = Blocks => t.ecm_at_page_end = TRUE
      /\ t.ecm_block # Blocks => t.ecm_at_page_end = FALSE
      /\ t.ecm_at_page_end \in BOOLEAN
  BY <1>4
<1>9. t.ppr_count \in 0 .. 4 /\ t.ppr_count <= 3 /\ t.ecm_len \subseteq 1 .. BlockFrames  BY <1>4
<1>10. t.tx_file = TRUE /\ t.ecm = TRUE /\ t.ecm_allowed = TRUE  BY <1>5 DEF CanTurn, SameFile
<1>11. Whole(t)
  BY <1>1, <1>3, <1>5, <1>7, <1>8, <1>9, <1>10 DEF Whole, SameFile, SameMachine, SameTimers
<1>12. t.hears = r.hears /\ t.phase = r.phase /\ t.buffer = r.buffer /\ t.timer_t2_t4 = r.timer_t2_t4
       /\ t.timer_t0_t1 = r.timer_t0_t1 /\ t.state = r.state
  BY <1>3 DEF SameMachine, SameModems, SameTimers, SameTalk
<1>13. CanOrder(t)
  BY <1>3, <1>5, <1>6, <1>7, <1>8, <1>9, <1>10, <1>11, <1>12 DEF CanTurn, CanOrder, NoTimer
<1> QED  BY <1>4, <1>5, <1>12, <1>13 DEF t

\* How far a sender goes when its page, or block, has been acknowledged.
Advances(s, t) ==
  \/ /\ t.state \in {"I", "IV"} /\ s.ecm_allowed = TRUE
     /\ s.ecm_block < Blocks /\ t.page = s.page /\ t.ecm_block = s.ecm_block + 1
  \/ /\ t.state \in {"I", "IV"} /\ t.page = s.page + 1 /\ s.page < Pages
     /\ s.ecm_allowed = TRUE => s.ecm_block = Blocks /\ t.ecm_block = 1
     /\ s.ecm_allowed = FALSE => t.ecm_block = 0
  \/ /\ t.state = "C" /\ t.page = s.page + 1 /\ t.ecm_block = 0 /\ t.buffer.type = "DCN"
     /\ s.ecm_allowed = TRUE => s.ecm_block = Blocks

Acknowledged(s, t) ==
  /\ Settles(s, t) /\ SameFile(s, t) /\ NoTimer(t) /\ Advances(s, t)
  /\ t.state # "C" => (t.state = "IV" <=> s.ecm_allowed = TRUE)

\* MCF for a page or a block: the next block, the next page, or the end of the call.
LEMMA McfHeard ==
  ASSUME NEW s, NEW r, Attends(s), HeardAs(s, r, TRUE), s.hears = "v21",
         s.state = "II_Q" \/ AskingBlock(s)
  PROVE  Acknowledged(s, ProcessMcf(r))
<1> DEFINE b == [r EXCEPT !.retries = 0]
           turned == PageTurned(r)
           t == ProcessMcf(r)
<1>0. Pages \in Nat /\ Blocks \in Nat \ {0}  BY T30Assumption
<1>1. /\ CanOrder(r) /\ CanTrain(r) /\ r.state = s.state /\ SameDoc(s, r) /\ r.phase = s.phase /\ s.phase = "D_RX"
  BY SenderHeard DEF Asking, AskingBlock
<1>2. Reset(r, b)  BY <1>1, RetriesReset
<1>3. /\ s.state = "II_Q" =>
           t = IF r.next_tx_step = "MPS" THEN QueuePhase(SetState(turned, "I"), "C_NON_ECM_TX") ELSE SendDcn(turned)
      /\ AskingBlock(s) =>
           t = IF NextBlock(r) THEN SendBlock(GetPartialPage(b))
               ELSE IF r.next_tx_step = "MPS" THEN SendBlock(GetPartialPage(turned)) ELSE SendDcn(turned)
  BY <1>1 DEF ProcessMcf, PageTurned, AskingBlock
<1>4. /\ CanTurn(turned) /\ turned.state = r.state /\ SameFile(r, turned) /\ turned.page = r.page + 1
      /\ turned.ecm_block = 0
      /\ turned.ppr_count = r.ppr_count /\ turned.hears = r.hears /\ turned.phase = r.phase /\ turned.step = r.step
      /\ turned.tx_file = r.tx_file /\ turned.rx_file = r.rx_file /\ turned.ecm_allowed = r.ecm_allowed
      /\ turned.next_tx_step = r.next_tx_step
  BY <1>1, PageTurns
<1> HIDE DEF b, turned, t
<1>5. CanOrder(b) /\ SameMachine(r, b) /\ SameDoc(r, b)  BY <1>2 DEF Reset
<1>6. /\ r.ecm_allowed = s.ecm_allowed /\ r.ecm = s.ecm /\ r.page = s.page /\ r.ecm_block = s.ecm_block
      /\ r.ecm = r.ecm_allowed /\ r.page \in Nat /\ r.ecm_block \in 0 .. Blocks /\ r.hears = "v21"
      /\ r.tx_file = s.tx_file /\ r.rx_file = s.rx_file /\ SameFile(s, r)
      /\ r.ppr_count <= 3 /\ r.page <= Pages /\ r.ecm \in BOOLEAN
  <2>1. SameFile(s, r) /\ r.ecm_allowed = s.ecm_allowed /\ r.ecm = s.ecm /\ r.page = s.page
        /\ r.ecm_block = s.ecm_block /\ r.tx_file = s.tx_file /\ r.rx_file = s.rx_file
    BY <1>1 DEF SameDoc, SameFile
  <2>2. r.ecm = r.ecm_allowed /\ r.hears = "v21" /\ r.ppr_count <= 3 /\ r.page <= Pages
    BY <1>1 DEF CanOrder
  <2>3. r.page \in 1 .. Pages + 1 /\ r.ecm_block \in 0 .. Blocks /\ r.ecm \in BOOLEAN
    BY <1>1 DEF CanOrder, Whole
  <2>4. r.page \in Nat  BY <1>0, <2>3
  <2> QED  BY <2>1, <2>2, <2>3, <2>4
<1>7. r.next_tx_step = CheckNextTxStep(r)
  <2>1. s.next_tx_step = CheckNextTxStep(s)
    <3>1. Mode(s)  BY DEF Attends, EndInv
    <3>2. CASE s.state = "II_Q"  BY <3>1, <3>2 DEF Mode, InII_Q
    <3>3. CASE AskingBlock(s)  BY <3>3, AsksBlock DEF Attends
    <3> QED  BY <3>2, <3>3
  <2> QED  BY <1>1, <2>1 DEF SameDoc, CheckNextTxStep
<1>8. r.next_tx_step = "MPS" => r.page < Pages /\ turned.page <= Pages
  BY <1>0, <1>4, <1>6, <1>7 DEF CheckNextTxStep
<1>9. turned.ecm = r.ecm /\ SameFile(s, turned)  BY <1>4, <1>6 DEF SameFile
\* The end of the document.
<1>10. ASSUME t = SendDcn(turned), s.ecm_allowed = TRUE => s.ecm_block = Blocks
       PROVE  Acknowledged(s, t)
  <2>1. /\ EndInv(t) /\ SameRest(turned, t) /\ t.state = "C" /\ t.on = "off" /\ Turned(turned, t, "D_TX")
        /\ t.buffer = IF turned.buffer = NoFrame THEN Simple("DCN") ELSE turned.buffer
    <3>1. Ready(turned) /\ Whole(turned) /\ turned.hears = "v21" /\ turned.phase \in Hearing
          /\ turned.buffer = NoFrame /\ NoTimer(turned)
      BY <1>4 DEF CanTurn, Hearing
    <3>2. turned.state # "C"  BY <1>1, <1>4 DEF AskingBlock
    <3> QED  BY <1>10, <3>1, <3>2, DcnSent
  <2>2. t.buffer.type = "DCN"  BY <1>4, <2>1 DEF CanTurn, Simple
  <2>3. t.hears \in {"no", s.hears}  BY <1>4, <1>6, <2>1 DEF Turned
  <2>4. SameFile(s, t) /\ NoTimer(t) /\ t.page = s.page + 1 /\ t.ecm_block = 0
        /\ t.tx_file = s.tx_file /\ t.rx_file = s.rx_file /\ t.ecm_allowed = s.ecm_allowed
    BY <1>4, <1>6, <1>9, <2>1 DEF SameRest, SameDoc, SameFile, SameTimers, NoTimer, CanTurn
  <2>5. Advances(s, t)  BY <1>10, <2>1, <2>2, <2>4 DEF Advances
  <2>6. Settles(s, t)  BY <2>1, <2>3, <2>4 DEF Settles
  <2> QED  BY <2>1, <2>4, <2>5, <2>6 DEF Acknowledged
\* The next block.
<1>11. ASSUME NEW c, CanTurn(c), c.ecm = TRUE, c.page <= Pages, c.ecm_block + 1 <= Blocks, c.state = s.state,
              t = SendBlock(GetPartialPage(c)), AskingBlock(s), SameFile(s, c), c.tx_file = s.tx_file,
              c.rx_file = s.rx_file, c.ecm_allowed = s.ecm_allowed
       PROVE  /\ Settles(s, t) /\ SameFile(s, t) /\ NoTimer(t) /\ t.state = "IV" /\ t.ecm_allowed = TRUE
              /\ t.page = c.page /\ t.ecm_block = c.ecm_block + 1
  <2> DEFINE d == GetPartialPage(c)
  <2>1. /\ CanOrder(d) /\ d.state = c.state /\ SameFile(c, d) /\ d.page = c.page /\ d.ecm_block = c.ecm_block + 1
        /\ d.tx_file = c.tx_file /\ d.rx_file = c.rx_file /\ d.ecm_allowed = c.ecm_allowed
    BY <1>11, PartialPage
  <2>2. t = SendBlock(d)  BY <1>11
  <2> HIDE DEF d
  <2>3. d.ecm = TRUE /\ d.state # "IV"  BY <1>11, <2>1 DEF SameFile, AskingBlock
  <2>4. /\ EndInv(t) /\ SameBlock(d, t) /\ t.state = "IV" /\ t.on = "off" /\ t.hears \in {"no", "v21"}
        /\ NoTimer(t) /\ t.retries = d.retries
    BY <2>1, <2>2, <2>3, BlockOrdered
  <2>5. SameFile(s, t) /\ t.page = c.page /\ t.ecm_block = c.ecm_block + 1
        /\ t.tx_file = s.tx_file /\ t.rx_file = s.rx_file /\ t.ecm_allowed = s.ecm_allowed
    BY <1>11, <2>1, <2>4 DEF SameBlock, SameBook, SameFile
  <2>6. t.ecm_allowed = TRUE  BY <1>11, <2>5 DEF CanTurn
  <2> QED  BY <2>4, <2>5, <2>6 DEF Settles
<1>12. CASE s.state = "II_Q"
  <2>1. s.ecm = FALSE /\ s.ecm_allowed = FALSE
    <3>1. InII_Q(s)  BY <1>12 DEF Attends, EndInv, Mode
    <3> QED  BY <1>6, <3>1 DEF InII_Q
  <2>2. CASE r.next_tx_step = "MPS"
    <3>1. CanOrder(turned)
      BY <1>4, <1>6, <1>8, <1>9, <2>1, <2>2 DEF CanTurn, CanOrder
    <3>2. turned.ecm = FALSE /\ turned.state # "I"  BY <1>1, <1>4, <1>6, <1>9, <1>12, <2>1
    <3>3. /\ EndInv(t) /\ SameDoc(turned, t) /\ t.state = "I" /\ t.on = "off" /\ t.hears \in {"no", "v21"}
          /\ NoTimer(t) /\ t.retries = turned.retries /\ t.buffer = NoFrame
      BY <1>3, <1>12, <2>2, <3>1, <3>2, PageOrdered
    <3>4. SameFile(s, t) /\ t.page = s.page + 1 /\ t.ecm_block = 0
          /\ t.tx_file = s.tx_file /\ t.rx_file = s.rx_file /\ t.ecm_allowed = s.ecm_allowed
      BY <1>4, <1>6, <1>9, <3>3 DEF SameDoc, SameFile
    <3>5. Advances(s, t)  BY <1>6, <1>8, <2>1, <2>2, <3>3, <3>4 DEF Advances
    <3>6. Settles(s, t)  BY <3>3, <3>4 DEF Settles
    <3> QED  BY <2>1, <3>3, <3>4, <3>5, <3>6 DEF Acknowledged, t
  <2>3. CASE r.next_tx_step # "MPS"
    <3>1. t = SendDcn(turned)  BY <1>3, <1>12, <2>3
    <3> QED  BY <1>10, <2>1, <3>1 DEF t
  <2> QED  BY <2>2, <2>3
<1>13. CASE AskingBlock(s)
  <2>1. s.ecm = TRUE /\ s.ecm_allowed = TRUE  BY <1>13, AsksBlock DEF Attends
  <2>2. /\ r.ecm_block \in 1 .. Blocks /\ (r.ecm_block = Blocks => r.ecm_at_page_end = TRUE)
        /\ (r.ecm_block # Blocks => r.ecm_at_page_end = FALSE)
    BY <1>1, <1>6, <2>1 DEF CanOrder
  <2>3. CASE NextBlock(r)
    <3>1. s.ecm_block < Blocks /\ b.ecm_block + 1 <= Blocks /\ b.page = s.page /\ b.ecm_block = s.ecm_block
      BY <1>0, <1>5, <1>6, <2>2, <2>3 DEF NextBlock, SameDoc
    <3>2. CanTurn(b)  BY <1>5 DEF CanTurn, CanOrder
    <3>3. b.ecm = TRUE /\ b.page <= Pages /\ b.state = s.state /\ SameFile(s, b) /\ b.tx_file = s.tx_file
          /\ b.rx_file = s.rx_file /\ b.ecm_allowed = s.ecm_allowed
      BY <1>1, <1>5, <1>6, <2>1 DEF SameMachine, SameTalk, SameDoc, SameFile
    <3>4. t = SendBlock(GetPartialPage(b))  BY <1>3, <1>13, <2>3
    <3>5. /\ Settles(s, t) /\ SameFile(s, t) /\ NoTimer(t) /\ t.state = "IV" /\ t.ecm_allowed = TRUE
          /\ t.page = b.page /\ t.ecm_block = b.ecm_block + 1
      BY <1>11, <1>13, <3>1, <3>2, <3>3, <3>4
    <3>6. Advances(s, t)  BY <2>1, <3>1, <3>5 DEF Advances
    <3> QED  BY <2>1, <3>5, <3>6 DEF Acknowledged, t
  <2>4. CASE ~NextBlock(r)
    <3>1. s.ecm_block = Blocks  BY <1>6, <2>2, <2>4 DEF NextBlock
    <3>2. CASE r.next_tx_step = "MPS"
      <4>1. turned.ecm_block + 1 <= Blocks /\ turned.ecm = TRUE /\ turned.page <= Pages
        BY <1>0, <1>4, <1>6, <1>8, <1>9, <2>1, <3>2
      <4>2. t = SendBlock(GetPartialPage(turned))  BY <1>3, <1>13, <2>4, <3>2
      <4>3. turned.state = s.state /\ SameFile(s, turned) /\ turned.tx_file = s.tx_file
            /\ turned.rx_file = s.rx_file /\ turned.ecm_allowed = s.ecm_allowed
        BY <1>1, <1>4, <1>6, <1>9
      <4>4. /\ Settles(s, t) /\ SameFile(s, t) /\ NoTimer(t) /\ t.state = "IV" /\ t.ecm_allowed = TRUE
            /\ t.page = turned.page /\ t.ecm_block = turned.ecm_block + 1
        BY <1>4, <1>11, <1>13, <4>1, <4>2, <4>3
      <4>5. Advances(s, t)  BY <1>4, <1>6, <1>8, <2>1, <3>1, <3>2, <4>4 DEF Advances
      <4> QED  BY <2>1, <4>4, <4>5 DEF Acknowledged, t
    <3>3. CASE r.next_tx_step # "MPS"
      <4>1. t = SendDcn(turned)  BY <1>3, <1>13, <2>4, <3>3
      <4> QED  BY <1>10, <3>1, <4>1 DEF t
    <3> QED  BY <3>2, <3>3
  <2> QED  BY <2>3, <2>4
<1> QED  BY <1>12, <1>13

\* An end that has heard a frame and has nothing else to say.
CanQuit(s) ==
  /\ Ready(s) /\ Whole(s) /\ s.hears = "v21" /\ s.phase \in Hearing /\ s.buffer = NoFrame /\ NoTimer(s)
  /\ s.state # "C"

\* An end that gives up, or has done.
LEMMA QuitSaid ==
  ASSUME NEW s, CanQuit(s)
  PROVE  LET t == SendDcn(s) IN
         GivesUp(s, t) /\ SameDoc(s, t) /\ t.retries = s.retries /\ t.buffer = Simple("DCN")
<1> DEFINE t == SendDcn(s)
<1>1. /\ EndInv(t) /\ SameRest(s, t) /\ t.state = "C" /\ t.on = "off" /\ Turned(s, t, "D_TX")
      /\ t.buffer = IF s.buffer = NoFrame THEN Simple("DCN") ELSE s.buffer
  BY DcnSent DEF CanQuit
<1> HIDE DEF t
<1>2. t.hears \in {"no", s.hears}  BY <1>1 DEF Turned
<1>3. SameDoc(s, t) /\ t.retries = s.retries /\ NoTimer(t) /\ t.buffer = Simple("DCN")
  BY <1>1 DEF SameRest, SameDoc, SameTimers, NoTimer, CanQuit
<1> QED  BY <1>1, <1>2, <1>3 DEF GivesUp, Settles, SameDoc, t, CanQuit

\* RTP or RTN: the page is sent again after new training, unless it was the last.
LEMMA RetrainHeard ==
  ASSUME NEW s, NEW r, NEW m, Attends(s), HeardAs(s, r, TRUE), s.hears = "v21", s.state = "II_Q"
  PROVE  LET t == ProcessRetrain(r, m) IN
         /\ Settles(s, t) /\ SameFile(s, t) /\ NoTimer(t) /\ t.page = s.page /\ t.ecm_block = s.ecm_block
         /\ t.state = "D" \/ (t.state = "C" /\ t.buffer = Simple("DCN"))
<1> DEFINE a == QueuePhase(r, "B_TX")
           b == [a EXCEPT !.retries = 0, !.ecm_block = 0]
           c == [r EXCEPT !.retries = 0]
           t == ProcessRetrain(r, m)
<1>0. Tries \in Nat /\ Blocks \in Nat  BY T30Assumption
<1>1. /\ CanOrder(r) /\ CanTrain(r) /\ r.state = s.state /\ SameDoc(s, r) /\ r.phase = "D_RX" /\ Free(r)
  BY SenderHeard DEF Asking
<1>2. Reset(r, c)  BY <1>1, RetriesReset
<1>3. InII_Q(s)  BY DEF Attends, EndInv, Mode
<1>4. s.ecm = FALSE /\ s.next_tx_step \in {"MPS", "EOP"}  BY <1>3 DEF InII_Q, CheckNextTxStep
<1>5. r.ecm = FALSE /\ r.ecm_allowed = FALSE /\ r.ecm_block = 0 /\ r.next_tx_step = s.next_tx_step
  BY <1>1, <1>4 DEF SameDoc, CanOrder, Whole
<1>6. t = IF r.next_tx_step = "MPS" THEN SendDis(SetState(b, "D")) ELSE SendDcn(c)
  BY <1>1, <1>4, <1>5 DEF ProcessRetrain, RestartSending
<1>7. Queued(r, a, "B_TX")
  <2>1. Ready(r) /\ r.phase \in Hearing  BY <1>1 DEF CanOrder, Hearing, Listening
  <2> QED  BY <2>1, QueuePhaseFacts DEF Talking
<1> HIDE DEF a, c, t
<1>8. /\ Ready(a) /\ SameRest(r, a) /\ Turned(r, a, "B_TX") /\ a.state = r.state /\ a.step = r.step
      /\ a.buffer = r.buffer
  BY <1>7 DEF Queued
<1>9. /\ \/ Held(a, "B_TX") /\ a.phase \in Listening
         \/ a.phase = "B_TX" /\ Free(a)
      /\ a.hears \in {"no", "v21"}
  <2>1. \/ Held(a, "B_TX") /\ a.phase = r.phase /\ a.hears = r.hears
        \/ a.phase = "B_TX" /\ Free(a) /\ a.tx_end = FALSE /\ a.hears = "no"
    <3>1. Signals(r) /\ r.hears = "v21" /\ r.phase \in Hearing
      BY <1>1 DEF CanOrder, Ready, Hearing, Listening
    <3> QED  BY <1>8, <3>1, TurnedPhase
  <2> QED  BY <1>1, <2>1 DEF CanOrder, Listening
<1>10. CASE r.next_tx_step = "MPS"
  <2>1. Fields \subseteq DOMAIN b /\ SameMachine(a, b) /\ b.retries = 0 /\ b.ecm_block = 0
        /\ b.current_status = a.current_status
    BY <1>8 DEF Fields, Ready, SameMachine, SameModems, SameTalk, SameTimers
  <2>2. /\ b.page = a.page /\ b.ecm_len = a.ecm_len /\ b.ecm_current_frame = a.ecm_current_frame
        /\ b.ecm_at_page_end = a.ecm_at_page_end /\ SameFile(a, b) /\ b.ppr_count = a.ppr_count
        /\ b.next_tx_step = a.next_tx_step /\ b.tx_file = a.tx_file /\ b.rx_file = a.rx_file
        /\ b.compatible = a.compatible /\ b.ecm_allowed = a.ecm_allowed
    BY <1>8 DEF Fields, Ready, SameFile
  <2> HIDE DEF b
  <2>3. Ready(b)  BY <1>8, <2>1, MachineKept
  <2>4. /\ b.page = r.page /\ b.ecm_len = r.ecm_len /\ b.ecm_current_frame = r.ecm_current_frame
        /\ b.ecm_at_page_end = r.ecm_at_page_end /\ SameFile(r, b) /\ b.ppr_count = r.ppr_count
        /\ b.next_tx_step = r.next_tx_step /\ b.tx_file = r.tx_file /\ b.rx_file = r.rx_file
        /\ b.compatible = r.compatible /\ b.ecm_allowed = r.ecm_allowed /\ b.current_status = r.current_status
    BY <1>8, <2>1, <2>2 DEF SameRest, SameDoc, SameFile
  <2>5. SameTimers(r, b) /\ b.timer_t0_t1 = FALSE /\ NoTimer(b) /\ b.buffer = NoFrame
    BY <1>1, <1>8, <2>1 DEF SameRest, SameMachine, SameTimers, CanOrder, NoTimer
  <2>6. Whole(b)
    <3>1. Whole(r)  BY <1>1 DEF CanOrder
    <3>2. b.retries \in 0 .. Tries + 1 /\ b.ecm_block \in 0 .. Blocks  BY <1>0, <2>1
    <3>3. b.ecm = FALSE /\ b.ecm_allowed = FALSE  BY <1>5, <2>4 DEF SameFile
    <3> QED  BY <2>1, <2>4, <2>5, <3>1, <3>2, <3>3 DEF Whole, SameFile, SameTimers
  <2>7. CanTrain(b)
    <3>1. b.retries <= Tries /\ b.page <= Pages /\ b.ppr_count <= 3 /\ b.tx_file = TRUE
      BY <1>0, <1>1, <2>1, <2>4 DEF CanOrder
    <3>2. b.ecm = FALSE /\ b.ecm_allowed = FALSE  BY <1>5, <2>4 DEF SameFile
    <3> QED  BY <2>3, <2>5, <2>6, <3>1, <3>2 DEF CanTrain, CanOpen
  <2>8. OpensIn(b)
    BY <1>9, <2>1 DEF OpensIn, Held, Free, SameMachine, SameModems, SameTalk
  <2>9. /\ EndInv(t) /\ SameDoc(b, t) /\ t.state = "D" /\ t.on = "off" /\ t.hears = b.hears
         /\ NoTimer(t) /\ t.retries = b.retries /\ t.buffer = Simple("CSI") /\ t.next_phase = b.next_phase
    BY <1>6, <1>10, <2>7, <2>8, RestartOrdered
  <2>10. t.hears \in {"no", "v21"}  BY <1>9, <2>1, <2>9 DEF SameMachine, SameModems
  <2>11. SameFile(s, t) /\ t.page = s.page /\ t.ecm_block = s.ecm_block
         /\ t.tx_file = s.tx_file /\ t.rx_file = s.rx_file /\ t.ecm_allowed = s.ecm_allowed
    BY <1>1, <1>5, <2>1, <2>4, <2>9 DEF SameDoc, SameFile
  <2> QED  BY <2>9, <2>10, <2>11 DEF Settles, t
<1>11. CASE r.next_tx_step # "MPS"
  <2>1. CanOrder(c) /\ SameMachine(r, c) /\ SameDoc(r, c)  BY <1>2 DEF Reset
  <2>2. c.state = "II_Q" /\ c.hears = "v21" /\ c.phase \in Hearing
    BY <1>1, <2>1 DEF SameMachine, SameTalk, CanOrder, Hearing
  <2>3. CanQuit(c)  BY <2>1, <2>2 DEF CanQuit, CanOrder
  <2>4. t = SendDcn(c)  BY <1>6, <1>11
  <2>5. GivesUp(c, t) /\ SameDoc(c, t) /\ t.buffer = Simple("DCN")  BY <2>3, <2>4, QuitSaid
  <2>6. SameFile(s, t) /\ t.page = s.page /\ t.ecm_block = s.ecm_block
        /\ t.tx_file = s.tx_file /\ t.rx_file = s.rx_file /\ t.ecm_allowed = s.ecm_allowed
    BY <1>1, <2>1, <2>5 DEF SameDoc, SameFile
  <2> QED  BY <2>2, <2>5, <2>6 DEF GivesUp, Settles, t
<1> QED  BY <1>10, <1>11

\* The document, but for the use of error correction.
SamePage(s, t) ==
  /\ t.page = s.page /\ t.ecm_block = s.ecm_block /\ t.image = s.image /\ t.got = s.got
  /\ t.in_message = s.in_message /\ t.next_rx_step = s.next_rx_step

SameAims(s, t) ==
  /\ t.ecm_len = s.ecm_len /\ t.ecm_current_frame = s.ecm_current_frame
  /\ t.ecm_at_page_end = s.ecm_at_page_end /\ t.ppr_count = s.ppr_count /\ t.next_tx_step = s.next_tx_step
  /\ t.tx_file = s.tx_file /\ t.rx_file = s.rx_file /\ t.compatible = s.compatible
  /\ t.ecm_allowed = s.ecm_allowed

\* An end that takes up what the other has told it of error correction.
Chosen(r, ecm, retries) == [r EXCEPT !.ecm = ecm, !.retries = retries]
Chooses(r, a) ==
  /\ Ready(a) /\ Whole(a) /\ SameMachine(r, a) /\ a.current_status = r.current_status
  /\ a.ecm = r.ecm_allowed /\ SamePage(r, a) /\ SameAims(r, a)

\* The choice of error correction that DIS or DCS carries is taken over by the end.
LEMMA EcmChosen ==
  ASSUME NEW r, NEW n \in 0 .. Tries + 1, Ready(r), Whole(r)
  PROVE  Chooses(r, Chosen(r, r.ecm_allowed, n)) /\ Chosen(r, r.ecm_allowed, n).retries = n
<1> DEFINE a == [r EXCEPT !.ecm = r.ecm_allowed, !.retries = n]
<1>1. Fields \subseteq DOMAIN r  BY DEF Ready
<1>2. Fields \subseteq DOMAIN a /\ SameMachine(r, a)
  BY <1>1 DEF Fields, SameMachine, SameModems, SameTalk, SameTimers
<1>3. a.retries = n /\ a.current_status = r.current_status /\ a.ecm = r.ecm_allowed  BY <1>1 DEF Fields
<1>4. SamePage(r, a) /\ SameAims(r, a)  BY <1>1 DEF Fields, SamePage, SameAims
<1> HIDE DEF a
<1>5. Ready(a)  BY <1>2, MachineKept
<1>6. Whole(a)
  <2>1. a.ecm \in BOOLEAN /\ a.retries \in 0 .. Tries + 1 /\ a.ecm = a.ecm_allowed
    BY <1>3, <1>4 DEF Whole, SameAims
  <2> QED  BY <1>2, <1>3, <1>4, <2>1 DEF Whole, SameMachine, SameTimers, SamePage, SameAims
<1>7. Chooses(r, a) /\ a.retries = n  BY <1>2, <1>3, <1>4, <1>5, <1>6 DEF Chooses
<1> QED  BY <1>7 DEF a, Chosen

\* The receiver's modem is trained.
Trainee(s, t) ==
  /\ Settles(s, t) /\ SamePage(s, t) /\ t.ecm = s.ecm_allowed
  /\ \/ t.state = "F_TCF" /\ s.rx_file = TRUE /\ t.hears = "v21"
     \/ t.state = "C" /\ NoTimer(t) /\ t.buffer = Simple("DCN") /\ s.rx_file = FALSE

\* The receiver turns to the training.
LEMMA TrainingAwaited ==
  ASSUME NEW a, Ready(a), Whole(a), a.hears = "v21", a.buffer = NoFrame, Free(a), NoTimer(a), a.timer_t0_t1 = FALSE,
         a.rx_file = TRUE, a.ecm = a.ecm_allowed, a.retries <= Tries, a.page <= Pages, a.state # "F_TCF",
         a.phase = "B_RX" \/ (a.phase = "C_NON_ECM_RX" /\ a.timer_is_t4 = FALSE)
  PROVE  LET t == SetPhase(SetState(a, "F_TCF"), "C_NON_ECM_RX") IN
         EndInv(t) /\ t.state = "F_TCF" /\ t.hears = "v21" /\ t.on = "off" /\ SameDoc(a, t)
<1> DEFINE b == SetState(a, "F_TCF")
           t == SetPhase(b, "C_NON_ECM_RX")
<1>1. /\ Fields \subseteq DOMAIN b /\ b.state = "F_TCF" /\ b.step = 0
      /\ SameModems(a, b) /\ SameCall(a, b) /\ SameDoc(a, b)
      /\ b.buffer = a.buffer /\ b.next_phase = a.next_phase /\ b.on = a.on /\ b.tx_end = a.tx_end
  BY StateSet DEF Ready
<1>2. Radio(b) /\ Signals(b)  BY <1>1, ModemsKept DEF Ready
<1> HIDE DEF b
<1>3. b.phase = a.phase /\ b.hears = "v21" /\ b.tx_end \in BOOLEAN /\ b.far_end_detected \in BOOLEAN
      /\ b.on = "off" /\ b.timer_is_t4 = a.timer_is_t4 /\ b.timer_t0_t1 = FALSE
  BY <1>1 DEF SameModems, SameCall, SameTimers, Ready
<1>4. /\ Fields \subseteq DOMAIN t /\ Radio(t) /\ Signals(t) /\ Quiet(b, t) /\ t.phase = "C_NON_ECM_RX"
      /\ t.on = "off" /\ t.hears = "v21" /\ t.timer_is_t4 = FALSE /\ t.tx_end = b.tx_end
      /\ t.far_end_detected = b.far_end_detected /\ t.timer_t2_t4 \in BOOLEAN /\ t.waited \in BOOLEAN
  <2>1. CASE a.phase = "B_RX"
    <3>1. /\ Moved(b, t, "C_NON_ECM_RX") /\ t.timer_t2_t4 = TRUE /\ t.timer_is_t4 = FALSE /\ t.waited = FALSE
          /\ t.hears = b.hears /\ t.tx_end = b.tx_end /\ t.far_end_detected = b.far_end_detected
      BY <1>1, <1>2, <1>3, <2>1, ListenNonEcm DEF Radio, Listening
    <3> QED  BY <1>3, <3>1 DEF Moved
  <2>2. CASE a.phase = "C_NON_ECM_RX"
    <3>1. t = b  BY <1>3, <2>2 DEF SetPhase
    <3>2. b.timer_is_t4 = FALSE  BY <1>3, <2>2
    <3>3. b.timer_t2_t4 \in BOOLEAN /\ b.waited \in BOOLEAN  BY <1>1 DEF SameCall, SameTimers, Whole
    <3>4. Quiet(b, b)  BY DEF Quiet, SameDoc
    <3> HIDE DEF t
    <3> QED  BY <1>1, <1>2, <1>3, <2>2, <3>1, <3>2, <3>3, <3>4
  <2> QED  BY <2>1, <2>2
<1> HIDE DEF t
<1>5. /\ t.state = "F_TCF" /\ t.step = 0 /\ t.buffer = NoFrame /\ t.next_phase = "IDLE" /\ SameDoc(a, t)
      /\ t.retries = a.retries /\ t.current_status = a.current_status /\ t.timer_t0_t1 = FALSE
  BY <1>1, <1>3, <1>4 DEF Quiet, SameDoc, SameCall, Free
<1>6. Mode(t)  BY <1>4, <1>5 DEF Mode, States, InF_TCF, Free, Empty
<1>7. Ready(t)  BY <1>3, <1>4, <1>5 DEF Ready
<1>8. Whole(t)
  <2>1. t.retries \in 0 .. Tries + 1 /\ t.current_status \in {"OK", "NOCARRIER", "ERROR"}  BY <1>5 DEF Whole
  <2> QED  BY <1>4, <1>5, <2>1 DEF Whole, SameDoc
<1>9. Stands(t)
  <2>1. t.rx_file = TRUE /\ t.ecm = t.ecm_allowed /\ t.retries <= Tries /\ t.page <= Pages
    BY <1>5 DEF SameDoc
  <2> QED  BY <1>5, <2>1 DEF Stands, SendStates
<1>10. t.step \in 0 .. 4 /\ t.next_phase \in Phases \cup {"IDLE"}  BY <1>5
<1>11. Sides(t) /\ Counts(t)  BY <1>7, <1>8, <1>9, <1>10, Joined
<1>12. Carries(t)  BY <1>5 DEF Carries, NoFrame
<1>13. EndInv(t)  BY <1>4, <1>6, <1>11, <1>12 DEF EndInv
<1> QED  BY <1>4, <1>5, <1>13 DEF t, b

\* DCS.
LEMMA DcsHeard ==
  ASSUME NEW s, NEW r, NEW m, Attends(s), HeardAs(s, r, TRUE), s.hears = "v21", s.state \in {"R", "F_DOC"},
         m.ecm = s.ecm_allowed, s.state = "F_DOC" => s.ecm = FALSE
  PROVE  Trainee(s, ProcessDcs(r, m))
<1> DEFINE a == [r EXCEPT !.ecm = m.ecm]
           t == ProcessDcs(r, m)
<1>1. /\ Ready(r) /\ Whole(r) /\ Stands(r) /\ r.phase \in Hearing /\ r.hears = "v21"
  BY HeardEnd
<1>2. /\ SameModems(s, r) /\ SameTalk(s, r) /\ SameDoc(s, r) /\ r.buffer = s.buffer /\ NoTimer(r)
      /\ r.timer_t0_t1 = FALSE /\ r.timer_is_t4 = s.timer_is_t4 /\ r.retries = s.retries
  BY DEF HeardAs, NoTimer
<1>3. /\ Free(s) /\ Empty(s)
      /\ s.state = "R" => s.phase = "B_RX"
      /\ s.state = "F_DOC" => s.phase = "C_NON_ECM_RX"
  BY Attending
<1>4. s.state = "F_DOC" => s.timer_is_t4 = FALSE /\ s.rx_file = TRUE
  BY DEF Attends, EndInv, Mode, InF_DOC, Sides, ReceiveStates
<1>5. Chooses(r, a) /\ a.retries = r.retries
  <2>1. a = Chosen(r, r.ecm_allowed, r.retries)  BY <1>1, <1>2 DEF Chosen, SameDoc, Ready, Fields
  <2>2. r.retries \in 0 .. Tries + 1  BY <1>1 DEF Whole
  <2> HIDE DEF a
  <2> QED  BY <1>1, <2>1, <2>2, EcmChosen
<1>6. t = IF ~r.rx_file THEN SendDcn(Fail(a)) ELSE SetPhase(SetState(a, "F_TCF"), "C_NON_ECM_RX")
  BY <1>2 DEF ProcessDcs, SameTalk
<1> HIDE DEF a, t
<1>7. /\ Ready(a) /\ Whole(a) /\ a.hears = "v21" /\ a.buffer = NoFrame /\ Free(a) /\ NoTimer(a)
      /\ a.timer_t0_t1 = FALSE /\ a.state = s.state /\ a.phase = s.phase /\ a.timer_is_t4 = s.timer_is_t4
  BY <1>1, <1>2, <1>3, <1>5
     DEF Chooses, SameMachine, SameModems, SameTalk, SameTimers, Free, Empty, NoTimer
<1>8. /\ a.ecm = s.ecm_allowed /\ SamePage(s, a) /\ a.rx_file = s.rx_file /\ a.tx_file = s.tx_file
      /\ a.ecm_allowed = s.ecm_allowed
  BY <1>2, <1>5 DEF Chooses, SamePage, SameAims, SameDoc
<1>9. r.rx_file = s.rx_file /\ s.rx_file \in BOOLEAN  BY <1>1, <1>2 DEF SameDoc, Whole
<1>10. CASE s.rx_file = FALSE
  <2> DEFINE b == Fail(a)
  <2>1. Fields \subseteq DOMAIN b /\ SameMachine(a, b) /\ SameDoc(a, b) /\ b.retries = a.retries
        /\ b.current_status = "ERROR"
    BY <1>7, FailFacts DEF Ready
  <2>2. t = SendDcn(b)  BY <1>6, <1>9, <1>10
  <2> HIDE DEF b
  <2>3. CanQuit(b)
    <3>1. Ready(b)  BY <1>7, <2>1, MachineKept
    <3>2. Whole(b)  BY <1>7, <2>1, WholeFailed DEF SameMachine
    <3>3. a.phase \in Hearing  BY <1>3, <1>7 DEF Hearing, Listening, Receiving
    <3> QED  BY <1>7, <2>1, <3>1, <3>2, <3>3 DEF CanQuit, SameMachine, SameModems, SameTalk, SameTimers, NoTimer
  <2>4. GivesUp(b, t) /\ SameDoc(b, t) /\ t.buffer = Simple("DCN")  BY <2>2, <2>3, QuitSaid
  <2>5. b.hears = s.hears  BY <1>7, <2>1 DEF SameMachine, SameModems
  <2>6. SamePage(s, t) /\ t.ecm = s.ecm_allowed /\ t.tx_file = s.tx_file /\ t.rx_file = s.rx_file
        /\ t.ecm_allowed = s.ecm_allowed
    BY <1>8, <2>1, <2>4 DEF SameDoc, SamePage
  <2> QED  BY <1>10, <2>4, <2>5, <2>6 DEF Trainee, GivesUp, Settles, t
<1>11. CASE s.rx_file = TRUE
  <2>1. t = SetPhase(SetState(a, "F_TCF"), "C_NON_ECM_RX")  BY <1>6, <1>9, <1>11
  <2>2. a.rx_file = TRUE /\ a.ecm = a.ecm_allowed /\ a.state # "F_TCF"  BY <1>7, <1>8, <1>11
  <2>3. a.retries <= Tries /\ a.page <= Pages
    BY <1>1, <1>2, <1>5 DEF Stands, Over, Chooses, SamePage, SameTalk
  <2>4. a.phase = "B_RX" \/ (a.phase = "C_NON_ECM_RX" /\ a.timer_is_t4 = FALSE)  BY <1>3, <1>4, <1>7
  <2>5. EndInv(t) /\ t.state = "F_TCF" /\ t.hears = "v21" /\ t.on = "off" /\ SameDoc(a, t)
    BY <1>7, <2>1, <2>2, <2>3, <2>4, TrainingAwaited
  <2>6. SamePage(s, t) /\ t.ecm = s.ecm_allowed /\ t.tx_file = s.tx_file /\ t.rx_file = s.rx_file
        /\ t.ecm_allowed = s.ecm_allowed
    BY <1>8, <2>5 DEF SameDoc, SamePage
  <2> QED  BY <1>11, <2>5, <2>6 DEF Trainee, Settles, t
<1>12. s.rx_file = TRUE \/ s.rx_file = FALSE  BY <1>9
<1> QED  BY <1>10, <1>11, <1>12

\* An end that will speak when the other has said who it is.
Opened(b) ==
  /\ CanOpen(b) /\ Held(b, "B_TX") /\ b.phase = "B_RX"

\* A sender that begins at the first page.
Begun(b) == [b EXCEPT !.page = 1, !.ecm_block = 0, !.retries = 0]
FirstPage(b) == IF b.ecm THEN GetPartialPage(Begun(b)) ELSE Begun(b)

\* start_sending_document puts the sender at its first page.
LEMMA FirstPageFacts ==
  ASSUME NEW b, Opened(b), b.tx_file = TRUE, b.ppr_count <= 3
  PROVE  LET c == FirstPage(b) IN
         /\ CanTrain(c) /\ OpensIn(c) /\ SameMachine(b, c) /\ SameFile(b, c)
         /\ c.tx_file = b.tx_file /\ c.rx_file = b.rx_file /\ c.ecm_allowed = b.ecm_allowed
         /\ c.page = 1 /\ c.ecm_block = IF b.ecm THEN 1 ELSE 0
<1> DEFINE a == Begun(b)
           c == FirstPage(b)
<1>0. Tries \in Nat /\ Blocks \in Nat \ {0} /\ Pages \in Nat \ {0} /\ BlockFrames \in Nat  BY T30Assumption
<1>1. Fields \subseteq DOMAIN b  BY DEF Opened, CanOpen, Ready
<1>2. /\ Fields \subseteq DOMAIN a /\ SameMachine(b, a) /\ a.page = 1 /\ a.ecm_block = 0 /\ a.retries = 0
      /\ a.current_status = b.current_status
  BY <1>1 DEF Begun, Fields, SameMachine, SameModems, SameTalk, SameTimers
<1>3. /\ a.ecm_len = b.ecm_len /\ a.ecm_current_frame = b.ecm_current_frame /\ SameFile(b, a)
      /\ a.ecm_at_page_end = b.ecm_at_page_end /\ a.ppr_count = b.ppr_count
      /\ a.next_tx_step = b.next_tx_step /\ a.tx_file = b.tx_file /\ a.rx_file = b.rx_file
      /\ a.compatible = b.compatible /\ a.ecm_allowed = b.ecm_allowed
  BY <1>1 DEF Begun, Fields, SameFile
<1> HIDE DEF a
<1>4. c = IF b.ecm THEN [a EXCEPT !.ppr_count = 0, !.ecm_block = a.ecm_block + 1,
                                  !.ecm_at_page_end = (a.ecm_block + 1 = Blocks), !.ecm_len = 1 .. BlockFrames]
          ELSE a
  BY DEF FirstPage, GetPartialPage, a
<1> HIDE DEF c
<1>5. Fields \subseteq DOMAIN c /\ SameMachine(a, c) /\ c.retries = 0 /\ c.current_status = a.current_status
  BY <1>2, <1>4 DEF Fields, SameMachine, SameModems, SameTalk, SameTimers
<1>6. /\ c.page = 1 /\ c.ecm_current_frame = a.ecm_current_frame /\ SameFile(a, c)
      /\ c.next_tx_step = a.next_tx_step /\ c.tx_file = a.tx_file /\ c.rx_file = a.rx_file
      /\ c.compatible = a.compatible /\ c.ecm_allowed = a.ecm_allowed
  BY <1>2, <1>4 DEF Fields, SameFile
<1>7. b.ecm = TRUE => /\ c.ppr_count = 0 /\ c.ecm_block = 1 /\ c.ecm_len = 1 .. BlockFrames
                      /\ 1 = Blocks => c.ecm_at_page_end = TRUE
                      /\ 1 # Blocks => c.ecm_at_page_end = FALSE
  <2>1. b.ecm = TRUE => c.ppr_count = 0 /\ c.ecm_block = 1 /\ c.ecm_len = 1 .. BlockFrames
    BY <1>2, <1>4 DEF Fields
  <2>2. b.ecm = TRUE => c.ecm_at_page_end = (a.ecm_block + 1 = Blocks)  BY <1>2, <1>4 DEF Fields
  <2>3. a.ecm_block + 1 = 1  BY <1>2
  <2> QED  BY <2>1, <2>2, <2>3
<1>8. b.ecm = FALSE => /\ c.ppr_count = b.ppr_count /\ c.ecm_block = 0
                       /\ c.ecm_at_page_end = b.ecm_at_page_end /\ c.ecm_len = b.ecm_len
  BY <1>2, <1>3, <1>4
<1>9. b.ecm \in BOOLEAN /\ b.ecm = b.ecm_allowed /\ Whole(b)  BY DEF Opened, CanOpen, Whole
<1>10. SameMachine(b, c)
  BY <1>2, <1>5 DEF SameMachine, SameModems, SameTalk, SameTimers
<1>11. SameFile(b, c) /\ c.tx_file = b.tx_file /\ c.rx_file = b.rx_file /\ c.ecm_allowed = b.ecm_allowed
       /\ c.ecm_current_frame = b.ecm_current_frame /\ c.next_tx_step = b.next_tx_step
       /\ c.compatible = b.compatible /\ c.current_status = b.current_status
  BY <1>2, <1>3, <1>5, <1>6 DEF SameFile
<1>12. c.ecm_block = (IF b.ecm THEN 1 ELSE 0)  BY <1>7, <1>8, <1>9
<1>13. Ready(c)  BY <1>5, <1>10, MachineKept DEF Opened, CanOpen
<1>14. Whole(c)
  <2>1. c.retries \in 0 .. Tries + 1 /\ c.page \in 1 .. Pages + 1 /\ c.ecm_block \in 0 .. Blocks
    BY <1>0, <1>5, <1>6, <1>12
  <2>2. c.ecm_allowed = FALSE => c.ecm_block = 0  BY <1>9, <1>11, <1>12
  <2>3. c.ecm_at_page_end \in BOOLEAN /\ c.ppr_count \in 0 .. 4 /\ c.ecm_len \subseteq 1 .. BlockFrames
    <3>1. CASE b.ecm = TRUE
      <4>1. 1 = Blocks \/ 1 # Blocks  OBVIOUS
      <4>2. c.ecm_at_page_end \in BOOLEAN  BY <1>7, <3>1, <4>1
      <4>3. c.ppr_count = 0 /\ c.ecm_len = 1 .. BlockFrames  BY <1>7, <3>1
      <4>4. c.ppr_count \in 0 .. 4  BY <4>3
      <4>5. c.ecm_len \subseteq 1 .. BlockFrames  BY <4>3
      <4> QED  BY <4>2, <4>4, <4>5
    <3>2. CASE b.ecm = FALSE  BY <1>8, <1>9, <3>2 DEF Whole
    <3> QED  BY <1>9, <3>1, <3>2
  <2>4. c.rx_file = FALSE /\ c.ecm = c.ecm_allowed  BY <1>9, <1>11 DEF Whole, SameFile
  <2> QED  BY <1>9, <1>10, <1>11, <2>1, <2>2, <2>3, <2>4 DEF Whole, SameMachine, SameFile, SameTimers
<1>15. CanTrain(c)
  <2>1. c.retries <= Tries /\ c.page <= Pages /\ c.ppr_count <= 3 /\ c.tx_file = TRUE /\ c.ecm = c.ecm_allowed
    BY <1>0, <1>5, <1>6, <1>7, <1>8, <1>9, <1>11 DEF SameFile
  <2>2. c.ecm = TRUE => /\ c.ecm_block \in 1 .. Blocks
                        /\ c.ecm_block = Blocks => c.ecm_at_page_end = TRUE
                        /\ c.ecm_block # Blocks => c.ecm_at_page_end = FALSE
    <3>1. c.ecm = b.ecm  BY <1>11 DEF SameFile
    <3> QED  BY <1>0, <1>7, <3>1
  <2>3. c.buffer = NoFrame /\ NoTimer(c) /\ c.timer_t0_t1 = FALSE
    BY <1>10 DEF SameMachine, SameTimers, Opened, CanOpen, NoTimer
  <2> QED  BY <1>13, <1>14, <2>1, <2>2, <2>3 DEF CanTrain, CanOpen
<1>16. OpensIn(c)
  BY <1>10 DEF Opened, OpensIn, Held, Listening, SameMachine, SameModems, SameTalk
<1> QED  BY <1>6, <1>10, <1>11, <1>12, <1>15, <1>16 DEF c

\* A sender that starts its document begins with TSI.
LEMMA SendingStarted ==
  ASSUME NEW b, Opened(b), b.tx_file = TRUE, b.ppr_count <= 3
  PROVE  LET t == StartSending(b) IN
         /\ EndInv(t) /\ SameFile(b, t) /\ t.state = "D" /\ t.on = "off" /\ t.hears = b.hears /\ NoTimer(t)
         /\ t.buffer = Simple("TSI") /\ t.next_phase = "B_TX" /\ t.retries <= Tries
         /\ t.page = 1 /\ t.ecm_block = (IF b.ecm THEN 1 ELSE 0)
         /\ t.tx_file = b.tx_file /\ t.rx_file = b.rx_file /\ t.ecm_allowed = b.ecm_allowed
<1> DEFINE c == FirstPage(b)
           t == SendDcs(SetState(c, "D"))
<1>1. StartSending(b) = t  BY DEF StartSending, FirstPage, Begun
<1>2. /\ CanTrain(c) /\ OpensIn(c) /\ SameMachine(b, c) /\ SameFile(b, c)
      /\ c.tx_file = b.tx_file /\ c.rx_file = b.rx_file /\ c.ecm_allowed = b.ecm_allowed
      /\ c.page = 1 /\ c.ecm_block = IF b.ecm THEN 1 ELSE 0
  BY FirstPageFacts
<1> HIDE DEF c
<1>3. /\ EndInv(t) /\ SameDoc(c, t) /\ t.state = "D" /\ t.on = "off" /\ t.hears = c.hears
      /\ NoTimer(t) /\ t.retries = c.retries /\ t.buffer = Simple("TSI") /\ t.next_phase = c.next_phase
  BY <1>2, DcsOrdered
<1> HIDE DEF t
<1>4. t.hears = b.hears /\ t.next_phase = "B_TX" /\ t.retries <= Tries
  BY <1>2, <1>3 DEF SameMachine, SameModems, SameTalk, Opened, Held, CanTrain, CanOpen
<1>5. SameFile(b, t) /\ t.page = 1 /\ t.ecm_block = (IF b.ecm THEN 1 ELSE 0)
      /\ t.tx_file = b.tx_file /\ t.rx_file = b.rx_file /\ t.ecm_allowed = b.ecm_allowed
  BY <1>2, <1>3 DEF SameDoc, SameFile
<1>6. /\ EndInv(t) /\ SameFile(b, t) /\ t.state = "D" /\ t.on = "off" /\ t.hears = b.hears /\ NoTimer(t)
      /\ t.buffer = Simple("TSI") /\ t.next_phase = "B_TX" /\ t.retries <= Tries
      /\ t.page = 1 /\ t.ecm_block = (IF b.ecm THEN 1 ELSE 0)
      /\ t.tx_file = b.tx_file /\ t.rx_file = b.rx_file /\ t.ecm_allowed = b.ecm_allowed
  BY <1>3, <1>4, <1>5
<1> QED  BY <1>1, <1>6

\* DCN from an end that has something else in the transmitter.
LEMMA FailureSaid ==
  ASSUME NEW b, Ready(b), Whole(b), NoTimer(b), b.state # "C",
         b.rx_signal_present = TRUE => b.hears = "v21" /\ b.phase \in Hearing,
         b.phase \in Hearing \/ (b.phase = "B_TX" /\ b.tx_end = FALSE),
         b.buffer = NoFrame \/ b.buffer.type \in {"DCN", "TSI", "CTC"}
  PROVE  LET t == SendDcn(Fail(b)) IN
         GivesUp(b, t) /\ SameDoc(b, t)
<1> DEFINE a == Fail(b)
           t == SendDcn(a)
<1>1. Fields \subseteq DOMAIN a /\ SameMachine(b, a) /\ SameDoc(b, a) /\ a.retries = b.retries
      /\ a.current_status = "ERROR"
  BY FailFacts DEF Ready
<1> HIDE DEF a
<1>2. Ready(a) /\ Whole(a)  BY <1>1, MachineKept, WholeFailed DEF SameMachine
<1>3. /\ a.hears = b.hears /\ a.phase = b.phase /\ a.buffer = b.buffer /\ a.state = b.state /\ NoTimer(a)
      /\ a.rx_signal_present = b.rx_signal_present /\ a.tx_end = b.tx_end
  BY <1>1 DEF SameMachine, SameModems, SameTalk, SameTimers, NoTimer
<1>4. /\ EndInv(t) /\ SameRest(a, t) /\ t.state = "C" /\ t.on = "off" /\ Turned(a, t, "D_TX")
      /\ t.buffer = IF a.buffer = NoFrame THEN Simple("DCN") ELSE a.buffer
  BY <1>2, <1>3, DcnSent
<1> HIDE DEF t
<1>5. t.hears \in {"no", b.hears}  BY <1>3, <1>4 DEF Turned
<1>6. SameDoc(b, t) /\ NoTimer(t)
  BY <1>1, <1>3, <1>4 DEF SameRest, SameDoc, SameTimers, NoTimer
<1>7. GivesUp(b, t)  BY <1>3, <1>4, <1>5, <1>6 DEF GivesUp, Settles, SameDoc
<1> QED  BY <1>6, <1>7 DEF a, t

\* What DIS does to an end.
Invited(s, m, t) ==
  /\ Settles(s, t) /\ NoTimer(t) /\ t.ecm = s.ecm_allowed
  /\ t.image = s.image /\ t.got = s.got /\ t.in_message = s.in_message /\ t.next_rx_step = s.next_rx_step
  /\ t.state \in {"D", "R", "C"}
  /\ t.state = "R" => s.rx_file = TRUE /\ s.state \in {"T", "R"} /\ m.can_send = TRUE
  /\ t.state = "D" => s.tx_file = TRUE
  /\ t.state = "C" => t.buffer.type \in {"DCN", "TSI"}
  /\ \/ t.page = s.page /\ t.ecm_block = s.ecm_block
     \/ s.tx_file = TRUE /\ s.state \in {"T", "R"} /\ t.page = 1 /\ t.ecm_block \in {0, 1}

\* What comes of DIS is known when it is known of the end that has taken it up.
InvitedFrom(s, m, b, t) ==
  /\ Settles(b, t) /\ NoTimer(t) /\ SameFile(b, t)
  /\ t.state \in {"D", "R", "C"}
  /\ t.state = "R" => b.rx_file = TRUE /\ s.state \in {"T", "R"} /\ m.can_send = TRUE
  /\ t.state = "D" => b.tx_file = TRUE
  /\ t.state = "C" => t.buffer.type \in {"DCN", "TSI"}
  /\ \/ t.page = b.page /\ t.ecm_block = b.ecm_block
     \/ b.tx_file = TRUE /\ s.state \in {"T", "R"} /\ t.page = 1 /\ t.ecm_block \in {0, 1}

Takes(s, b) ==
  /\ b.hears = "v21" /\ s.hears = "v21" /\ b.ecm = s.ecm_allowed
  /\ b.image = s.image /\ b.got = s.got /\ b.in_message = s.in_message /\ b.next_rx_step = s.next_rx_step
  /\ b.page = s.page /\ b.ecm_block = s.ecm_block
  /\ b.tx_file = s.tx_file /\ b.rx_file = s.rx_file /\ b.ecm_allowed = s.ecm_allowed

\* An end that starts after DIS or DTC has been invited.
LEMMA InvitedThrough ==
  ASSUME NEW s, NEW m, NEW b, NEW t, Takes(s, b), InvitedFrom(s, m, b, t)
  PROVE  Invited(s, m, t)
BY DEF Invited, InvitedFrom, Takes, Settles, SameFile

\* An end that has chosen error correction may take its part.
LEMMA ChooserTakes ==
  ASSUME NEW s, NEW r, NEW a, Attends(s), HeardAs(s, r, TRUE), s.hears = "v21", Chooses(r, a)
  PROVE  Takes(s, a)
<1>1. SameModems(s, r) /\ SameDoc(s, r)  BY DEF HeardAs
<1>2. a.hears = r.hears  BY DEF Chooses, SameMachine, SameModems
<1>3. a.ecm = r.ecm_allowed /\ SamePage(r, a) /\ SameAims(r, a)  BY DEF Chooses
<1> QED  BY <1>1, <1>2, <1>3 DEF Takes, SameModems, SameDoc, SamePage, SameAims

\* An end that gives up when it has been told what the other can do.
LEMMA Declined ==
  ASSUME NEW s, NEW m, NEW b, NEW t, GivesUp(b, t), SameDoc(b, t), b.buffer = NoFrame \/ b.buffer.type = "TSI"
  PROVE  InvitedFrom(s, m, b, t)
<1>1. t.buffer.type \in {"DCN", "TSI"}
  <2>1. CASE b.buffer = NoFrame  BY <2>1 DEF GivesUp, Simple
  <2>2. CASE b.buffer # NoFrame  BY <2>2 DEF GivesUp
  <2> QED  BY <2>1, <2>2
<1> QED  BY <1>1 DEF InvitedFrom, GivesUp, SameDoc, SameFile

\* The end that has chosen turns to speak.
LEMMA OpenedFacts ==
  ASSUME NEW a, CanOpen(a), a.hears = "v21", a.phase = "B_RX", Free(a)
  PROVE  LET b == QueuePhase(a, "B_TX") IN
         /\ Opened(b) /\ b.hears = "v21" /\ b.state = a.state /\ SameDoc(a, b)
<1> DEFINE b == QueuePhase(a, "B_TX")
<1>1. Ready(a) /\ Whole(a)  BY DEF CanOpen
<1>2. a.rx_signal_present = TRUE
  BY <1>1 DEF Ready, Radio, Tuned, Modems, Signals, Listening
<1>3. Queued(a, b, "B_TX")  BY <1>1, <1>2, QueuePhaseFacts
<1> HIDE DEF b
<1>4. /\ Ready(b) /\ SameRest(a, b) /\ Turned(a, b, "B_TX")
      /\ b.state = a.state /\ b.step = a.step /\ b.buffer = a.buffer
  BY <1>3 DEF Queued
<1>5. Held(b, "B_TX") /\ b.phase = "B_RX" /\ b.hears = "v21"
  BY <1>2, <1>4 DEF Turned, Held
<1>6. Whole(b)  BY <1>1, <1>4, WholeKept
<1>7. SameDoc(a, b) /\ b.retries = a.retries /\ b.timer_t0_t1 = a.timer_t0_t1 /\ SameTimers(a, b)
  BY <1>4 DEF SameRest
<1>8. CanOpen(b)  BY <1>4, <1>6, <1>7 DEF CanOpen, SameDoc, SameTimers, NoTimer
<1> QED  BY <1>4, <1>5, <1>7, <1>8 DEF Opened, b

\* DIS told to an end that listens in phase B.
LEMMA DisTaken ==
  ASSUME NEW s, NEW m, NEW a, CanOpen(a), a.hears = "v21", a.phase = "B_RX", Free(a),
         a.state = s.state, a.state \in {"T", "R"}, a.ppr_count <= 3
  PROVE  LET b == QueuePhase(a, "B_TX")
             c == StartSending(b)
             t == IF a.tx_file
                  THEN IF ~m.can_receive THEN SendDcn(Fail(b))
                       ELSE IF a.compatible THEN c ELSE SendDcn(Fail(c))
                  ELSE IF m.can_send = TRUE THEN StartReceiving(b) ELSE SendDcn(Fail(b))
         IN InvitedFrom(s, m, a, t)
<1> DEFINE b == QueuePhase(a, "B_TX")
           c == StartSending(b)
<1>1. Opened(b) /\ b.hears = "v21" /\ b.state = a.state /\ SameDoc(a, b)  BY OpenedFacts
<1> HIDE DEF b
<1>2. /\ CanOpen(b) /\ Held(b, "B_TX") /\ b.phase = "B_RX" /\ b.buffer = NoFrame /\ NoTimer(b)
      /\ Ready(b) /\ Whole(b)
  BY <1>1 DEF Opened, CanOpen
<1>3. /\ b.tx_file = a.tx_file /\ b.rx_file = a.rx_file /\ b.ppr_count <= 3 /\ b.ecm_allowed = a.ecm_allowed
      /\ b.page = a.page /\ b.ecm_block = a.ecm_block /\ SameFile(a, b)
  BY <1>1 DEF SameDoc, SameFile
<1>4. b.tx_file \in BOOLEAN /\ b.rx_file \in BOOLEAN /\ b.rx_file # b.tx_file  BY <1>2 DEF Whole
<1>5. ASSUME NEW t, InvitedFrom(s, m, b, t)
      PROVE  InvitedFrom(s, m, a, t)
  <2>1. Settles(b, t) /\ SameFile(b, t)  BY <1>5 DEF InvitedFrom
  <2>2. Settles(a, t) /\ SameFile(a, t)  BY <1>1, <1>3, <2>1 DEF Settles, SameFile
  <2> QED  BY <1>3, <1>5, <2>2 DEF InvitedFrom
<1>6. InvitedFrom(s, m, a, SendDcn(Fail(b)))
  <2> DEFINE t == SendDcn(Fail(b))
  <2>1. b.phase \in Hearing /\ b.state # "C"  BY <1>1, <1>2 DEF Hearing, Listening
  <2>2. GivesUp(b, t) /\ SameDoc(b, t)  BY <1>1, <1>2, <2>1, FailureSaid
  <2> HIDE DEF t
  <2>3. InvitedFrom(s, m, b, t)  BY <1>2, <2>2, Declined
  <2> QED  BY <1>5, <2>3 DEF t
<1>7. CASE a.tx_file = TRUE
  <2>1. /\ EndInv(c) /\ SameFile(b, c) /\ c.state = "D" /\ c.on = "off" /\ c.hears = b.hears /\ NoTimer(c)
        /\ c.buffer = Simple("TSI") /\ c.next_phase = "B_TX" /\ c.retries <= Tries
        /\ c.page = 1 /\ c.ecm_block = (IF b.ecm THEN 1 ELSE 0)
        /\ c.tx_file = b.tx_file /\ c.rx_file = b.rx_file /\ c.ecm_allowed = b.ecm_allowed
    BY <1>1, <1>3, <1>7, SendingStarted
  <2> HIDE DEF c
  <2>2. c.ecm_block \in {0, 1} /\ b.tx_file = TRUE  BY <1>3, <1>7, <2>1
  <2>3. InvitedFrom(s, m, a, c)
    <3>1. Settles(b, c)  BY <1>1, <2>1 DEF Settles
    <3>2. InvitedFrom(s, m, b, c)  BY <1>1, <2>1, <2>2, <3>1 DEF InvitedFrom
    <3> QED  BY <1>5, <3>2
  <2>4. InvitedFrom(s, m, a, SendDcn(Fail(c)))
    <3> DEFINE t == SendDcn(Fail(c))
    <3>1. Ready(c) /\ Whole(c)
      <4>1. Counts(c) /\ Sides(c) /\ Radio(c) /\ Signals(c) /\ Fields \subseteq DOMAIN c  BY <2>1 DEF EndInv
      <4> QED  BY <2>1, <4>1, Parts DEF Ready, Counts
    <3>2. c.phase \in Hearing
      <4>1. c.hears = "v21" /\ Tuned(c) /\ Signals(c)  BY <1>1, <2>1 DEF EndInv, Radio
      <4>2. c.phase \in Calling \cup Hearing  BY <4>1, HearingPhase
      <4>3. InD(c)  BY <2>1 DEF EndInv, Mode
      <4>4. c.phase \notin Calling  BY <4>3 DEF InD, Calling, Listening
      <4> QED  BY <4>2, <4>4
    <3>3. c.buffer.type = "TSI"  BY <2>1 DEF Simple
    <3>4. GivesUp(c, t) /\ SameDoc(c, t)  BY <1>1, <2>1, <3>1, <3>2, <3>3, FailureSaid
    <3> HIDE DEF t
    <3>5. t.buffer.type \in {"DCN", "TSI"}
      <4>1. c.buffer # NoFrame  BY <3>3 DEF NoFrame
      <4> QED  BY <3>3, <3>4, <4>1 DEF GivesUp
    <3>6. Settles(b, t) /\ NoTimer(t) /\ t.state = "C"
      BY <1>1, <2>1, <3>4 DEF GivesUp, Settles
    <3>7. SameFile(b, t) /\ t.page = 1 /\ t.ecm_block \in {0, 1}
      BY <2>1, <2>2, <3>4 DEF SameDoc, SameFile
    <3>8. InvitedFrom(s, m, b, t)  BY <1>1, <2>2, <3>5, <3>6, <3>7 DEF InvitedFrom
    <3> QED  BY <1>5, <3>8 DEF t
  <2> QED  BY <1>6, <1>7, <2>3, <2>4 DEF b, c
<1>8. CASE a.tx_file = FALSE
  <2>1. b.rx_file = TRUE  BY <1>3, <1>4, <1>8
  <2>2. CASE m.can_send = TRUE
    <3> DEFINE d == QueuePhase(b, "B_TX")
               t == SendDis(SetState(d, "R"))
    <3>1. StartReceiving(b) = t  BY <2>1 DEF StartReceiving
    <3>2. Queued(b, d, "B_TX")
      <4>1. b.rx_signal_present = TRUE  BY <1>2 DEF Held
      <4> QED  BY <1>2, <4>1, QueuePhaseFacts
    <3> HIDE DEF d
    <3>3. /\ Ready(d) /\ SameRest(b, d) /\ Turned(b, d, "B_TX")
          /\ d.state = b.state /\ d.step = b.step /\ d.buffer = b.buffer
      BY <3>2 DEF Queued
    <3>4. Held(d, "B_TX") /\ d.phase = "B_RX" /\ d.hears = "v21"
      BY <1>2, <3>3 DEF Turned, Held
    <3>5. SameDoc(b, d) /\ d.retries = b.retries /\ d.timer_t0_t1 = b.timer_t0_t1 /\ SameTimers(b, d)
      BY <3>3 DEF SameRest
    <3>6. CanOpen(d) /\ d.rx_file = TRUE
      <4>1. Whole(d)  BY <1>2, <3>3, WholeKept
      <4> QED  BY <1>2, <2>1, <3>3, <3>5, <4>1 DEF CanOpen, SameDoc, SameTimers, NoTimer
    <3>7. /\ EndInv(t) /\ SameDoc(d, t) /\ t.state = "R" /\ t.on = "off" /\ t.hears = d.hears
          /\ NoTimer(t) /\ t.retries = d.retries /\ t.buffer = Simple("CSI") /\ t.next_phase = d.next_phase
      BY <3>4, <3>6, DisOrdered
    <3> HIDE DEF t
    <3>8. SameFile(b, t) /\ t.page = b.page /\ t.ecm_block = b.ecm_block
          /\ t.tx_file = b.tx_file /\ t.rx_file = b.rx_file /\ t.ecm_allowed = b.ecm_allowed
      BY <3>5, <3>7 DEF SameDoc, SameFile
    <3>9. InvitedFrom(s, m, b, t)
      BY <1>1, <2>1, <2>2, <3>4, <3>7, <3>8 DEF InvitedFrom, Settles
    <3>10. InvitedFrom(s, m, a, StartReceiving(b))  BY <1>5, <3>1, <3>9
    <3> QED  BY <1>8, <2>2, <3>10 DEF b
  <2>3. CASE m.can_send # TRUE  BY <1>6, <1>8, <2>3 DEF b
  <2> QED  BY <2>2, <2>3
<1> QED  BY <1>3, <1>4, <1>7, <1>8

\* DIS.
LEMMA DisHeard ==
  ASSUME NEW s, NEW r, NEW m, Attends(s), HeardAs(s, r, TRUE), s.hears = "v21",
         s.state \in {"D_POST_TCF", "T", "R", "F_DOC"}, m.ecm = s.ecm_allowed, m.can_send \in BOOLEAN,
         m.can_send = TRUE => s.state # "F_DOC"
  PROVE  Invited(s, m, ProcessDis(r, m))
<1> DEFINE n == IF s.state = "D_POST_TCF" THEN r.retries + 1 ELSE r.retries
           a == Chosen(r, r.ecm_allowed, n)
           b == QueuePhase(a, "B_TX")
           c == StartSending(b)
           t == ProcessDis(r, m)
<1>0. Tries \in Nat  BY T30Assumption
<1>1. /\ Ready(r) /\ Whole(r) /\ Stands(r) /\ r.phase \in Hearing /\ r.hears = "v21"
  BY HeardEnd
<1>2. /\ SameModems(s, r) /\ SameTalk(s, r) /\ SameDoc(s, r) /\ r.buffer = s.buffer /\ NoTimer(r)
      /\ r.timer_t0_t1 = FALSE /\ r.timer_is_t4 = s.timer_is_t4 /\ r.retries = s.retries
  BY DEF HeardAs, NoTimer
<1>3. /\ Free(s) /\ Empty(s)
      /\ s.state # "F_DOC" => s.phase = "B_RX"
  BY Attending
<1>4. n \in 0 .. Tries + 1 /\ (s.state # "D_POST_TCF" => n <= Tries)
  <2>1. r.retries \in 0 .. Tries + 1 /\ r.retries <= Tries /\ r.state = s.state
    BY <1>1, <1>2 DEF Whole, Stands, Over, SameTalk
  <2> QED  BY <1>0, <2>1
<1>5. Chooses(r, a) /\ a.retries = n  BY <1>1, <1>4, EcmChosen
<1>6. t = CASE s.state = "D_POST_TCF" /\ a.retries > Tries -> SendDcn(Fail(a))
            [] s.state = "D_POST_TCF" /\ a.retries <= Tries -> SendDcs(SetState(b, "D"))
            [] s.state \in {"R", "T", "F_DOC"} /\ r.tx_file ->
                 IF ~m.can_receive THEN SendDcn(Fail(b))
                 ELSE IF r.compatible THEN c ELSE SendDcn(Fail(c))
            [] s.state \in {"R", "T", "F_DOC"} /\ ~r.tx_file ->
                 IF m.can_send THEN StartReceiving(b) ELSE SendDcn(Fail(b))
            [] OTHER -> Unexpected(r)
  <2> DEFINE d == [r EXCEPT !.ecm = r.ecm_allowed /\ m.ecm,
                            !.retries = IF r.state = "D_POST_TCF" THEN @ + 1 ELSE @]
  <2>1. r.state = s.state /\ r.ecm_allowed = s.ecm_allowed /\ r.ecm_allowed \in BOOLEAN
    BY <1>1, <1>2 DEF SameTalk, SameDoc, Whole
  <2>2. (r.ecm_allowed /\ m.ecm) = r.ecm_allowed  BY <2>1
  <2>3. d = a  BY <2>1, <2>2 DEF Chosen
  <2> QED  BY <2>1, <2>3 DEF ProcessDis
<1> HIDE DEF a, t, n
<1>7. /\ Ready(a) /\ Whole(a) /\ a.hears = "v21" /\ a.buffer = NoFrame /\ Free(a) /\ NoTimer(a)
      /\ a.timer_t0_t1 = FALSE /\ a.state = s.state /\ a.phase = s.phase /\ a.timer_is_t4 = s.timer_is_t4
      /\ a.phase \in Hearing
  BY <1>1, <1>2, <1>3, <1>5
     DEF Chooses, SameMachine, SameModems, SameTalk, SameTimers, Free, Empty, NoTimer
<1>8. a.ecm = a.ecm_allowed /\ a.tx_file = r.tx_file /\ a.compatible = r.compatible /\ a.page <= Pages
      /\ r.tx_file = s.tx_file
  BY <1>1, <1>2, <1>5, <1>7 DEF Chooses, SameAims, SamePage, Stands, Over, SameDoc, SameTalk
<1>9. Takes(s, a)  BY <1>5, ChooserTakes
<1>10. CASE a.retries > Tries
  <2>1. t = SendDcn(Fail(a))
    <3>1. s.state = "D_POST_TCF"  BY <1>0, <1>4, <1>5, <1>10
    <3> QED  BY <1>0, <1>4, <1>5, <1>6, <1>10, <3>1
  <2>2. GivesUp(a, t) /\ SameDoc(a, t)  BY <1>7, <2>1, FailureSaid
  <2>3. InvitedFrom(s, m, a, t)  BY <1>7, <2>2, Declined
  <2> QED  BY <1>9, <2>3, InvitedThrough DEF t
<1>11. CASE a.retries <= Tries /\ s.state # "F_DOC"
  <2>1. CanOpen(a)  BY <1>7, <1>8, <1>11 DEF CanOpen
  <2>2. a.phase = "B_RX"  BY <1>3, <1>7, <1>11
  <2>3. CASE s.state = "D_POST_TCF"
    <3>1. t = SendDcs(SetState(b, "D"))  BY <1>0, <1>4, <1>5, <1>6, <1>11, <2>3
    <3>2. Opened(b) /\ b.hears = "v21" /\ b.state = a.state /\ SameDoc(a, b)  BY <1>7, <2>1, <2>2, OpenedFacts
    <3> HIDE DEF b
    <3>3. CanTrain(b) /\ OpensIn(b)
      <4>1. CanOpen(b) /\ OpensIn(b)  BY <3>2 DEF Opened, OpensIn, Listening
      <4>2. /\ r.tx_file = TRUE /\ r.ppr_count <= 3
            /\ r.ecm = TRUE => /\ r.ecm_block \in 1 .. Blocks
                               /\ r.ecm_block = Blocks => r.ecm_at_page_end = TRUE
                               /\ r.ecm_block # Blocks => r.ecm_at_page_end = FALSE
        BY <1>1, <1>2, <2>3 DEF Stands, SendStates, SameTalk
      <4>3. r.ecm = r.ecm_allowed  BY <1>1, <1>2, <2>3 DEF Stands, SendStates, SameTalk
      <4>4. /\ b.tx_file = r.tx_file /\ b.ppr_count = r.ppr_count /\ b.ecm_block = r.ecm_block
            /\ b.ecm_at_page_end = r.ecm_at_page_end /\ b.ecm = r.ecm
        BY <1>5, <3>2, <4>3 DEF Chooses, SameDoc, SamePage, SameAims
      <4>5. /\ b.tx_file = TRUE /\ b.ppr_count <= 3
            /\ b.ecm = TRUE => /\ b.ecm_block \in 1 .. Blocks
                               /\ b.ecm_block = Blocks => b.ecm_at_page_end = TRUE
                               /\ b.ecm_block # Blocks => b.ecm_at_page_end = FALSE
        BY <4>2, <4>4
      <4> QED  BY <4>1, <4>5 DEF CanTrain
    <3>4. /\ EndInv(t) /\ SameDoc(b, t) /\ t.state = "D" /\ t.on = "off" /\ t.hears = b.hears
          /\ NoTimer(t) /\ t.buffer = Simple("TSI")
      BY <3>1, <3>3, DcsOrdered
    <3>5. SameFile(a, t) /\ t.page = a.page /\ t.ecm_block = a.ecm_block
          /\ t.tx_file = a.tx_file /\ t.rx_file = a.rx_file /\ t.ecm_allowed = a.ecm_allowed
      BY <3>2, <3>4 DEF SameDoc, SameFile
    <3>6. a.tx_file = TRUE  BY <3>2, <3>3 DEF CanTrain, SameDoc
    <3>7. InvitedFrom(s, m, a, t)  BY <1>7, <3>2, <3>4, <3>5, <3>6 DEF InvitedFrom, Settles
    <3> QED  BY <1>9, <3>7, InvitedThrough DEF t
  <2>4. CASE s.state # "D_POST_TCF"
    <3>1. a.state \in {"T", "R"}  BY <1>7, <1>11, <2>4
    <3>2. a.ppr_count <= 3
      <4>1. s.ppr_count <= 3  BY <1>7, <3>1 DEF Attends, EndInv, Carries
      <4> QED  BY <1>2, <1>5, <4>1 DEF Chooses, SameAims, SameDoc
    <3>3. t = IF a.tx_file
              THEN IF ~m.can_receive THEN SendDcn(Fail(b))
                   ELSE IF a.compatible THEN c ELSE SendDcn(Fail(c))
              ELSE IF m.can_send = TRUE THEN StartReceiving(b) ELSE SendDcn(Fail(b))
      <4>1. s.state \in {"R", "T", "F_DOC"} /\ s.state # "D_POST_TCF"  BY <1>7, <3>1
      <4>2. a.tx_file \in BOOLEAN  BY <1>7 DEF Whole
      <4>3. CASE a.tx_file = TRUE  BY <1>6, <1>8, <4>1, <4>3
      <4>4. CASE a.tx_file = FALSE  BY <1>6, <1>8, <4>1, <4>4
      <4> QED  BY <4>2, <4>3, <4>4
    <3>4. InvitedFrom(s, m, a, t)  BY <1>7, <2>1, <2>2, <3>1, <3>2, <3>3, DisTaken
    <3> QED  BY <1>9, <3>4, InvitedThrough DEF t
  <2> QED  BY <2>3, <2>4
<1>12. CASE s.state = "F_DOC"
  <2>1. s.tx_file = FALSE
    BY <1>12 DEF Attends, EndInv, Sides, ReceiveStates
  <2>2. m.can_send = FALSE  BY <1>12
  <2>3. t = SendDcn(Fail(b))  BY <1>6, <1>8, <1>12, <2>1, <2>2
  <2>4. Queued(a, b, "B_TX")
    <3>1. a.phase \in Hearing /\ "B_TX" \in Talking  BY <1>7 DEF Talking
    <3> QED  BY <1>7, <3>1, QueuePhaseFacts
  <2> HIDE DEF b
  <2>5. /\ Ready(b) /\ SameRest(a, b) /\ Turned(a, b, "B_TX") /\ b.state = a.state /\ b.step = a.step
        /\ b.buffer = a.buffer
    BY <2>4 DEF Queued
  <2>6. Whole(b)  BY <1>7, <2>5, WholeKept
  <2>7. SameDoc(a, b) /\ NoTimer(b) /\ b.buffer = NoFrame /\ b.state # "C"
    BY <1>7, <1>12, <2>5 DEF SameRest, SameTimers, NoTimer
  <2>8. b.hears \in {"no", "v21"}  BY <1>7, <2>5 DEF Turned
  <2>9. b.rx_signal_present = TRUE => b.hears = "v21" /\ b.phase \in Hearing
    BY <1>7, <2>5 DEF Turned
  <2>10. b.phase \in Hearing \/ (b.phase = "B_TX" /\ b.tx_end = FALSE)
    BY <1>7, <2>5 DEF Turned
  <2>11. GivesUp(b, t) /\ SameDoc(b, t)
    BY <2>3, <2>5, <2>6, <2>7, <2>9, <2>10, FailureSaid
  <2>12. InvitedFrom(s, m, b, t)  BY <2>7, <2>11, Declined
  <2>13. Settles(a, t) /\ SameFile(a, t)
    BY <1>7, <2>7, <2>8, <2>12 DEF InvitedFrom, Settles, SameDoc, SameFile
  <2>14. t.page = a.page /\ t.ecm_block = a.ecm_block /\ t.state = "C" /\ NoTimer(t) /\ t.buffer.type \in {"DCN", "TSI"}
    BY <2>7, <2>11, <2>12 DEF SameDoc, GivesUp, InvitedFrom
  <2>15. InvitedFrom(s, m, a, t)  BY <2>13, <2>14 DEF InvitedFrom
  <2> QED  BY <1>9, <2>15, InvitedThrough DEF t
<1>13. a.retries > Tries \/ a.retries <= Tries  BY <1>0, <1>4, <1>5
<1> QED  BY <1>10, <1>11, <1>12, <1>13

-----------------------------------------------------------------------------
(* A frame and the end that takes it                                        *)

FrameTypes ==
  {"CSI", "TSI", "FCD", "RCP", "DIS", "DCS", "CFR", "FTT", "MPS", "EOP", "PPS", "PPR", "MCF", "RTP", "RTN",
   "CTC", "DCN"}

\* What the state of an end says of the frame that it sends.
Says(s, m) ==
  /\ m.type \in FrameTypes
  /\ m.type \in {"FCD", "RCP"} <=> s.tx = "fast"
  /\ s.tx = "fast" => s.state = "IV" /\ (m.type = "RCP" => RestSent(s))
  /\ m.type = "CSI" => s.state \in {"R", "D"}
  /\ m.type = "TSI" => s.state \in {"D", "C"}
  /\ m.type = "CTC" => s.state = "C"
  /\ m.type = "DIS" => s.state = "R" /\ m = DisFrame(s)
  /\ m.type = "DCS" => s.state = "D" /\ m = DcsFrame(s) /\ m.ecm = s.ecm_allowed
  /\ m.type = "FTT" => s.state = "F_FTT"
  /\ m.type = "CFR" => s.state = "F_CFR"
  /\ m.type = "PPR" => s.state = "F_POST_RCP_PPR"
  /\ m.type = "MCF" => s.state \in {"F_POST_RCP_MCF", "III_Q_MCF"}
  /\ m.type \in {"RTP", "RTN"} => s.state \in {"III_Q_RTP", "III_Q_RTN"}
  /\ m.type \in {"MPS", "EOP"} => s.state = "II_Q"
  /\ m.type = "PPS" => s.state \in {"IV_PPS_NULL", "IV_PPS_Q"} /\ m = PpsFrame(s) /\ s.ecm_allowed = TRUE
                       /\ m.post \in {"NULL", "MPS", "EOP"}
  /\ s.state \in {"ANSWERING", "T", "IV_CTC", "D_TCF", "F_DOC", "B"} => FALSE
  /\ s.state = "F_POST_RCP_PPR" => m.type = "PPR"
  /\ s.state = "D" => m.type \in {"CSI", "TSI", "DCS"}
  /\ s.state = "R" => m.type \in {"CSI", "DIS"}
  /\ s.hears = "no"

\* The frames of the states in which one frame is sent.
LEMMA CommandSays ==
  ASSUME NEW s, EndInv(s), s.tx_hdlc = TRUE, s.buffer # NoFrame, s.state \in CommandStates
  PROVE  Says(s, s.buffer)
<1> DEFINE m == s.buffer
<1>1. Mode(s) /\ Radio(s) /\ Signals(s) /\ Carries(s)  BY DEF EndInv
<1>2. /\ Free(s) /\ s.tx_end = FALSE /\ s.hears = "no" /\ s.phase = CommandPhase(s)
  BY HasFrame DEF CommandStates, AnswerStates
<1>3. s.phase \in Talking  BY <1>2 DEF CommandPhase, Talking
<1>4. s.tx = "v21"  BY <1>1, <1>3 DEF Radio, Tuned, Modems
<1>5. \A types : Command(s, s.phase, types) => m.type \in types  BY <1>2 DEF Command, Ended
<1>6. \A types, phase : Command(s, phase, types) => Command(s, s.phase, types)  BY DEF Command
<1>7. ~Asked(s, "B_RX") /\ ~Asked(s, "D_RX")  BY <1>3 DEF Asked, Talking
<1>8. \A types : Answer(s, types) => m.type \in types
  BY <1>3, <1>5, <1>6 DEF Answer, Talking, Hearing, Listening, Receiving
<1>9. s.state = "C" => m.type \in {"DCN", "TSI", "CTC"}  BY <1>1, <1>8 DEF Mode, InC
<1>10. s.state = "F_CFR" => m.type = "CFR"  BY <1>1, <1>5, <1>6 DEF Mode, InF_CFR
<1>11. s.state = "F_FTT" => m.type = "FTT"  BY <1>1, <1>5, <1>6, <1>7 DEF Mode, InF_FTT
<1>12. s.state = "F_POST_RCP_PPR" => m.type = "PPR"  BY <1>1, <1>8 DEF Mode, InIII
<1>13. s.state = "F_POST_RCP_MCF" => m.type = "MCF"  BY <1>1, <1>8 DEF Mode, InIII
<1>14. s.state = "III_Q_MCF" => m.type = "MCF"  BY <1>1, <1>8 DEF Mode, InIII
<1>15. s.state = "III_Q_RTP" => m.type = "RTP"  BY <1>1, <1>8 DEF Mode, InIII
<1>16. s.state = "III_Q_RTN" => m.type = "RTN"  BY <1>1, <1>8 DEF Mode, InIII
<1>17. s.state \in {"IV_PPS_NULL", "IV_PPS_Q"} => m.type = "PPS"
  BY <1>1, <1>5, <1>6, <1>7 DEF Mode, InIV_PPS
<1>18. s.state = "II_Q" => m.type \in {"MPS", "EOP"}
  <2>1. s.state = "II_Q" => m.type \in {s.next_tx_step} /\ s.next_tx_step = CheckNextTxStep(s)
    BY <1>1, <1>5, <1>6, <1>7 DEF Mode, InII_Q
  <2> QED  BY <2>1 DEF CheckNextTxStep
<1>19. m.type = "PPS" => m = PpsFrame(s) /\ s.ecm_allowed = TRUE /\ m.post \in {"NULL", "MPS", "EOP"}
  BY <1>1 DEF Carries, PpsFrame
<1> HIDE DEF m
<1>20. s.state \notin {"R", "D", "IV", "ANSWERING", "T", "IV_CTC", "D_TCF", "F_DOC", "B"}
  BY DEF CommandStates, AnswerStates
<1>21. m.type \in FrameTypes
  BY <1>9, <1>10, <1>11, <1>12, <1>13, <1>14, <1>15, <1>16, <1>17, <1>18
     DEF FrameTypes, CommandStates, AnswerStates
<1>22. m.type \notin {"FCD", "RCP", "CSI", "DIS", "DCS"}
  BY <1>9, <1>10, <1>11, <1>12, <1>13, <1>14, <1>15, <1>16, <1>17, <1>18 DEF CommandStates, AnswerStates
<1>23. /\ m.type = "TSI" => s.state \in {"D", "C"}
       /\ m.type = "CTC" => s.state = "C"
       /\ m.type = "FTT" => s.state = "F_FTT"
       /\ m.type = "CFR" => s.state = "F_CFR"
       /\ m.type = "PPR" => s.state = "F_POST_RCP_PPR"
       /\ m.type = "MCF" => s.state \in {"F_POST_RCP_MCF", "III_Q_MCF"}
       /\ m.type \in {"RTP", "RTN"} => s.state \in {"III_Q_RTP", "III_Q_RTN"}
       /\ m.type \in {"MPS", "EOP"} => s.state = "II_Q"
       /\ m.type = "PPS" => s.state \in {"IV_PPS_NULL", "IV_PPS_Q"}
  BY <1>9, <1>10, <1>11, <1>12, <1>13, <1>14, <1>15, <1>16, <1>17, <1>18 DEF CommandStates, AnswerStates
<1>24. Says(s, m)  BY <1>2, <1>4, <1>12, <1>19, <1>20, <1>21, <1>22, <1>23 DEF Says
<1> QED  BY <1>24 DEF m

\* What the end that sends a frame may be doing, for each type of the frame.
LEMMA FrameSays ==
  ASSUME NEW s, EndInv(s), s.tx_hdlc = TRUE, s.buffer # NoFrame
  PROVE  Says(s, s.buffer)
<1> DEFINE m == s.buffer
<1>1. Mode(s) /\ Radio(s) /\ Signals(s) /\ Sides(s)  BY DEF EndInv
<1>2. s.hears = "no"  BY HasFrame
<1>3. CASE s.state \in CommandStates  BY <1>3, CommandSays
<1>4. CASE s.state = "R"
  <2>1. s.phase = "B_TX" /\ m \in {Simple("CSI"), DisFrame(s)}  BY <1>4, HasFrame DEF CommandStates, AnswerStates
  <2>2. s.tx = "v21"  BY <1>1, <2>1 DEF Radio, Tuned, Modems, Talking
  <2>3. m.type = "CSI" \/ (m.type = "DIS" /\ m = DisFrame(s))  BY <2>1 DEF Simple, DisFrame
  <2> QED  BY <1>2, <1>4, <2>2, <2>3 DEF Says, FrameTypes
<1>5. CASE s.state = "D"
  <2>1. s.phase = "B_TX" /\ m \in {Simple("CSI"), Simple("TSI"), DcsFrame(s)}
    BY <1>5, HasFrame DEF CommandStates, AnswerStates
  <2>2. s.tx = "v21"  BY <1>1, <2>1 DEF Radio, Tuned, Modems, Talking
  <2>3. s.ecm = s.ecm_allowed  BY <1>1, <1>5 DEF Sides, SendStates
  <2>4. m.type \in {"CSI", "TSI"} \/ (m.type = "DCS" /\ m = DcsFrame(s) /\ m.ecm = s.ecm_allowed)
    BY <2>1, <2>3 DEF Simple, DcsFrame
  <2> QED  BY <1>2, <1>5, <2>2, <2>4 DEF Says, FrameTypes
<1>6. CASE s.state = "IV"
  <2>1. s.phase = "C_ECM_TX" /\ m.type \in {"FCD", "RCP"}
    BY <1>6, HasFrame DEF CommandStates, AnswerStates
  <2>2. s.tx = "fast"  BY <1>1, <2>1 DEF Radio, Tuned, Modems, Talking
  <2>3. m.type = "FCD" \/ RestSent(s)  BY <1>1, <1>6 DEF Mode, InIV
  <2> QED  BY <1>2, <1>6, <2>1, <2>2, <2>3 DEF Says, FrameTypes
<1> QED  BY <1>3, <1>4, <1>5, <1>6, HasFrame

\* What is known of an end and the frame that it takes.
Meets(s, m) ==
  /\ Attends(s) /\ m.type \in FrameTypes
  /\ m.type \in {"FCD", "RCP"} <=> s.hears = "fast"
  /\ s.hears = "fast" => InBlock(s) /\ s.ecm_allowed = TRUE
  /\ m.type = "FCD" => s.state = "F_DOC"
  /\ m.type = "DIS" => m.ecm = s.ecm_allowed /\ m.can_send \in BOOLEAN /\ (m.can_send = TRUE => s.state # "F_DOC")
  /\ m.type = "DCS" => m.ecm = s.ecm_allowed /\ (s.state = "F_DOC" => s.ecm = FALSE)
  /\ m.type = "PPS" => s.ecm_allowed = TRUE /\ m.post \in {"NULL", "MPS", "EOP"}
  /\ m.type = "CTC" => ~InBlock(s)
  /\ s.state = "C" /\ ~Final(m) => s.timer_is_t4 = TRUE /\ s.retries <= Tries

Taking == {"F_CFR", "F_DOC", "F_POST_DOC_ECM", "F_POST_RCP_MCF", "F_POST_RCP_PPR"}

\* What it is after it has taken the frame.
Accepted(s, m, t) ==
  /\ Settles(s, t) /\ t.state \notin {"ANSWERING", "D_TCF"}
  /\ t.hears = "v21" /\ t.next_phase # "IDLE" /\ t.state # "C" => Final(m)
  /\ t.hears = "v21" /\ t.state = "C" /\ ~Final(m) => t.timer_is_t4 = TRUE /\ t.retries <= Tries
  /\ t.hears = "fast" => m.type \in {"FCD", "RCP"} /\ InBlock(t)
  /\ t.hears = "fast" /\ m.type = "FCD" => t.state = "F_DOC"
  /\ t.state = "IV_CTC" => s.state = "IV_CTC" \/ (m.type = "PPR" /\ NoTimer(t))
  /\ t.state = "C" /\ t.buffer.type = "CTC" => s.state = "IV_CTC" \/ (s.state = "C" /\ s.buffer.type = "CTC")
  /\ t.state \in Taking => s.state \in Taking
  /\ t.state = "D" => s.state = "D" \/ m.type \in {"DIS", "FTT", "RTP", "RTN"}
  /\ t.state \in {"T", "R"} => s.state \in {"T", "R"}
  /\ s.state \in {"T", "R"} =>
       t.state \in {"T", "R"} \cup Over \/ (t.state = "D" /\ s.tx_file = TRUE) \/ (t.state = "F_TCF" /\ m.type = "DCS")
  /\ s.state \in Over => t.state \in Over

\* A frame that the state does not expect is accepted by doing nothing.
LEMMA UnexpectedAccepted ==
  ASSUME NEW s, NEW r, NEW m, Meets(s, m), HeardAs(s, r, TRUE), s.hears = "v21", Final(m)
  PROVE  Accepted(s, m, Unexpected(r))
<1> DEFINE t == Unexpected(r)
<1>1. GivesUp(s, t)  BY UnexpectedHeard DEF Meets
<1> HIDE DEF t
<1>2. t.state = "C" /\ Settles(s, t) /\ (t.buffer.type = "CTC" => s.buffer.type = "CTC")
  BY <1>1 DEF GivesUp, Simple
<1>3. s.buffer.type = "CTC" => s.state \in {"IV_CTC", "C"}
  <2>1. Attends(s)  BY DEF Meets
  <2>2. /\ s.state \in {"IV_CTC", "C"} \/ Empty(s) \/ s.buffer = Simple("TSI")
    BY <2>1, Attending
  <2> QED  BY <2>2 DEF Empty, NoFrame, Simple
<1>4. t.hears # "fast"  BY <1>2 DEF Settles
<1>6. Accepted(s, m, t)
  <2> QED  BY <1>2, <1>3, <1>4 DEF Accepted, Over, Taking
<1> QED  BY <1>6 DEF t

\* CSI and TSI.
LEMMA IdentityAccepted ==
  ASSUME NEW s, NEW r, NEW m, Meets(s, m), HeardAs(s, r, FALSE), m.type \in {"CSI", "TSI"}
  PROVE  Accepted(s, m, r)
<1>1. ~Final(m)  BY DEF Final
<1>3. s.hears = "v21"  BY DEF Meets, Attends
<1>2. /\ Settles(s, r) /\ SameDoc(s, r) /\ r.state = s.state /\ r.hears = s.hears /\ r.buffer = s.buffer
      /\ r.next_phase = s.next_phase /\ r.timer_is_t4 = s.timer_is_t4 /\ r.retries = s.retries
  BY <1>1, <1>3, IdentityHeard, ZenonT(60) DEF Meets
<1>4. s.state \notin {"ANSWERING", "D_TCF"}  BY Attending DEF Meets
<1>5. s.state # "C" => s.next_phase = "IDLE"  BY <1>3 DEF Meets, Attends
<1> QED  BY <1>1, <1>2, <1>3, <1>4, <1>5 DEF Accepted, Meets, Over

\* The frames of a block.
LEMMA BlockFrameAccepted ==
  ASSUME NEW s, NEW r, NEW m, Meets(s, m), HeardAs(s, r, FALSE), m.type \in {"FCD", "RCP"}
  PROVE  Accepted(s, m, IF m.type = "FCD" THEN ProcessFcd(r, m) ELSE ProcessRcp(r))
<1>1. InBlock(s) /\ s.ecm_allowed = TRUE /\ s.hears = "fast" /\ (m.type = "FCD" => s.state = "F_DOC")
  BY DEF Meets
<1>2. Attends(s)  BY DEF Meets
<1>3. CASE m.type = "FCD"
  <2> DEFINE t == ProcessFcd(r, m)
  <2>0. s.state = "F_DOC" /\ s.ecm_allowed = TRUE  BY <1>1, <1>3
  <2>1. Adds(s, m, t)  BY <1>2, <2>0, FcdHeard
  <2> HIDE DEF t
  <2>3. Settles(s, t) /\ t.state = "F_DOC" /\ t.hears = s.hears  BY <2>1 DEF Adds
  <2>2. Accepted(s, m, t)  BY <1>1, <1>3, <2>3 DEF Accepted, InBlock, Taking, Over
  <2> QED  BY <1>3, <2>2 DEF t
<1>4. CASE m.type = "RCP"
  <2> DEFINE t == ProcessRcp(r)
  <2>1. Settles(s, t) /\ t.state = "F_POST_DOC_ECM" /\ t.hears = "fast"  BY <1>1, <1>2, RcpHeard
  <2> HIDE DEF t
  <2>2. Accepted(s, m, t)  BY <1>1, <1>4, <2>1 DEF Accepted, InBlock, Taking, Over
  <2> QED  BY <1>4, <2>2 DEF t
<1> QED  BY <1>3, <1>4

\* DIS and DCS.
LEMMA DisAccepted ==
  ASSUME NEW s, NEW r, NEW m, Meets(s, m), HeardAs(s, r, TRUE), m.type = "DIS"
  PROVE  Accepted(s, m, ProcessDis(r, m))
<1> DEFINE t == ProcessDis(r, m)
<1>1. s.hears = "v21" /\ Attends(s) /\ Final(m)  BY DEF Meets, Attends, Final
<1>2. r.state = s.state  BY DEF HeardAs, SameTalk
<1>3. CASE s.state \in {"D_POST_TCF", "T", "R", "F_DOC"}
  <2>1. Invited(s, m, t)  BY <1>1, <1>3, DisHeard DEF Meets
  <2> HIDE DEF t
  <2>2. t.hears # "fast" /\ t.tx_file = s.tx_file  BY <1>1, <2>1 DEF Invited, Settles
  <2>3. Accepted(s, m, t)  BY <1>1, <1>3, <2>1, <2>2 DEF Accepted, Invited, Taking, Over
  <2> QED  BY <2>3 DEF t
<1>4. CASE s.state \notin {"D_POST_TCF", "T", "R", "F_DOC"}
  <2>1. t = Unexpected(r)  BY <1>2, <1>4 DEF ProcessDis
  <2> QED  BY <1>1, <2>1, UnexpectedAccepted
<1> QED  BY <1>3, <1>4

\* DCS is accepted in every state that may hear it.
LEMMA DcsAccepted ==
  ASSUME NEW s, NEW r, NEW m, Meets(s, m), HeardAs(s, r, TRUE), m.type = "DCS"
  PROVE  Accepted(s, m, ProcessDcs(r, m))
<1> DEFINE t == ProcessDcs(r, m)
<1>1. s.hears = "v21" /\ Attends(s) /\ Final(m)  BY DEF Meets, Attends, Final
<1>2. r.state = s.state  BY DEF HeardAs, SameTalk
<1>3. CASE s.state \in {"R", "F_DOC"}
  <2>1. Trainee(s, t)  BY <1>1, <1>3, DcsHeard DEF Meets
  <2> HIDE DEF t
  <2>2. t.hears # "fast" /\ t.tx_file = s.tx_file  BY <1>1, <2>1 DEF Trainee, Settles
  <2>3. t.state = "C" => t.buffer.type = "DCN"  BY <2>1 DEF Trainee, Simple
  <2>4. Accepted(s, m, t)  BY <1>1, <1>3, <2>1, <2>2, <2>3 DEF Accepted, Trainee, Taking, Over
  <2> QED  BY <2>4 DEF t
<1>4. CASE s.state \notin {"R", "F_DOC"}
  <2>1. t = Unexpected(r)  BY <1>2, <1>4 DEF ProcessDcs
  <2> QED  BY <1>1, <2>1, UnexpectedAccepted
<1> QED  BY <1>3, <1>4

\* An end that has answered has a frame of its own to send, or goes on to one.
LEMMA AnswerAccepted ==
  ASSUME NEW s, NEW m, NEW t, Meets(s, m), Final(m), s.hears = "v21", Settles(s, t),
         t.state \notin {"ANSWERING", "D_TCF", "IV_CTC", "T", "R", "D"},
         t.state = "C" => t.buffer.type # "CTC",
         t.state \in Taking => s.state \in Taking,
         s.state \notin {"T", "R"} \cup Over
  PROVE  Accepted(s, m, t)
<1>1. t.hears # "fast"  BY DEF Settles
<1> QED  BY <1>1 DEF Accepted

\* CFR and FTT.
LEMMA TrainingAccepted ==
  ASSUME NEW s, NEW r, NEW m, Meets(s, m), HeardAs(s, r, TRUE), m.type \in {"CFR", "FTT"}
  PROVE  Accepted(s, m, IF m.type = "CFR" THEN ProcessCfr(r) ELSE ProcessFtt(r))
<1>1. s.hears = "v21" /\ Attends(s) /\ Final(m)  BY DEF Meets, Attends, Final
<1>2. r.state = s.state  BY DEF HeardAs, SameTalk
<1>3. CASE s.state # "D_POST_TCF"
  <2>1. ProcessCfr(r) = Unexpected(r) /\ ProcessFtt(r) = Unexpected(r)
    BY <1>2, <1>3 DEF ProcessCfr, ProcessFtt
  <2> QED  BY <1>1, <2>1, UnexpectedAccepted
<1>4. CASE s.state = "D_POST_TCF" /\ m.type = "CFR"
  <2> DEFINE t == ProcessCfr(r)
  <2>1. Orders(s, t)  BY <1>1, <1>4, CfrHeard
  <2> HIDE DEF t
  <2>2. t.ecm_allowed \in BOOLEAN  BY <2>1 DEF Orders, Settles, EndInv, Sides
  <2>3. t.state \in {"IV", "I"} /\ Settles(s, t)  BY <2>1, <2>2 DEF Orders
  <2>4. Accepted(s, m, t)  BY <1>1, <1>4, <2>3, AnswerAccepted DEF Taking, Over
  <2> QED  BY <1>4, <2>4 DEF t
<1>5. CASE s.state = "D_POST_TCF" /\ m.type = "FTT"
  <2> DEFINE t == ProcessFtt(r)
  <2>1. Trains(s, t)  BY <1>1, <1>5, FttHeard
  <2> HIDE DEF t
  <2>2. t.hears # "fast"  BY <1>1, <2>1 DEF Trains, Settles
  <2>4. Accepted(s, m, t)  BY <1>1, <1>5, <2>1, <2>2 DEF Accepted, Trains, Taking, Over
  <2> QED  BY <1>5, <2>4 DEF t
<1> QED  BY <1>3, <1>4, <1>5

\* MPS and EOP.
LEMMA PageEndAccepted ==
  ASSUME NEW s, NEW r, NEW m, NEW quality \in {"GOOD", "POOR", "BAD"},
         Meets(s, m), HeardAs(s, r, TRUE), m.type \in {"MPS", "EOP"}
  PROVE  Accepted(s, m, ProcessPageEnd(r, m.type, quality))
<1> DEFINE t == ProcessPageEnd(r, m.type, quality)
<1>1. s.hears = "v21" /\ Attends(s) /\ Final(m)  BY DEF Meets, Attends, Final
<1>2. r.state = s.state  BY DEF HeardAs, SameTalk
<1>3. CASE s.state # "F_POST_DOC_NON_ECM"
  <2>1. t = Unexpected(r)  BY <1>2, <1>3 DEF ProcessPageEnd
  <2> QED  BY <1>1, <2>1, UnexpectedAccepted
<1>4. CASE s.state = "F_POST_DOC_NON_ECM"
  <2>1. PageAnswered(s, t, m.type, quality)  BY <1>1, <1>4, PageEndHeard
  <2> HIDE DEF t
  <2>2. t.state \in AnswerStates /\ Settles(s, t)  BY <2>1 DEF PageAnswered, Answers, AnswerStates
  <2>3. Accepted(s, m, t)  BY <1>1, <1>4, <2>2, AnswerAccepted DEF Taking, Over, AnswerStates
  <2> QED  BY <2>3 DEF t
<1> QED  BY <1>3, <1>4

\* PPS.
LEMMA PpsAccepted ==
  ASSUME NEW s, NEW r, NEW m, Meets(s, m), HeardAs(s, r, TRUE), m.type = "PPS"
  PROVE  Accepted(s, m, ProcessPps(r, m))
<1> DEFINE t == ProcessPps(r, m)
<1>1. s.hears = "v21" /\ Attends(s) /\ Final(m)  BY DEF Meets, Attends, Final
<1>2. r.state = s.state  BY DEF HeardAs, SameTalk
<1>3. s.ecm_allowed = TRUE /\ m.post \in {"NULL", "MPS", "EOP"}  BY DEF Meets
<1>4. CASE ~InBlock(s)
  <2>1. t = Unexpected(r)  BY <1>2, <1>4 DEF ProcessPps, InBlock
  <2> QED  BY <1>1, <2>1, UnexpectedAccepted
<1>5. CASE InBlock(s)
  <2>1. Missing(r) # {} => Answers(s, t, "F_POST_RCP_PPR", "PPR")  BY <1>1, <1>3, <1>5, PprAnswered
  <2>2. Missing(r) = {} => BlockAnswered(s, t, m, BlockImage(r))  BY <1>1, <1>3, <1>5, McfAnswered
  <2> HIDE DEF t
  <2>3. t.state \in {"F_POST_RCP_PPR", "F_POST_RCP_MCF"} /\ Settles(s, t)  BY <2>1, <2>2 DEF Answers, BlockAnswered
  <2>4. Accepted(s, m, t)  BY <1>1, <1>5, <2>3, AnswerAccepted DEF Taking, Over, InBlock
  <2> QED  BY <2>4 DEF t
<1> QED  BY <1>4, <1>5

\* PPR.
LEMMA PprAccepted ==
  ASSUME NEW s, NEW r, NEW m, Meets(s, m), HeardAs(s, r, TRUE), m.type = "PPR"
  PROVE  Accepted(s, m, ProcessPpr(r, m))
<1> DEFINE t == ProcessPpr(r, m)
<1>1. s.hears = "v21" /\ Attends(s) /\ Final(m)  BY DEF Meets, Attends, Final
<1>2. r.state = s.state  BY DEF HeardAs, SameTalk
<1>3. CASE ~AskingBlock(s)
  <2>1. t = Unexpected(r)  BY <1>2, <1>3 DEF ProcessPpr, AskingBlock
  <2> QED  BY <1>1, <2>1, UnexpectedAccepted
<1>4. CASE AskingBlock(s)
  <2>1. Settles(s, t) /\ NoTimer(t) /\ t.state \in {"IV", "IV_CTC"}  BY <1>1, <1>4, PprHeard
  <2> HIDE DEF t
  <2>2. t.hears # "fast"  BY <1>1, <2>1 DEF Settles
  <2>3. Accepted(s, m, t)  BY <1>1, <1>4, <2>1, <2>2 DEF Accepted, AskingBlock, Taking, Over
  <2> QED  BY <2>3 DEF t
<1> QED  BY <1>3, <1>4

\* MCF.
LEMMA McfAccepted ==
  ASSUME NEW s, NEW r, NEW m, Meets(s, m), HeardAs(s, r, TRUE), m.type = "MCF"
  PROVE  Accepted(s, m, ProcessMcf(r))
<1> DEFINE t == ProcessMcf(r)
<1>1. s.hears = "v21" /\ Attends(s) /\ Final(m)  BY DEF Meets, Attends, Final
<1>2. r.state = s.state  BY DEF HeardAs, SameTalk
<1>3. CASE ~(s.state = "II_Q" \/ AskingBlock(s))
  <2>1. t = Unexpected(r)  BY <1>2, <1>3 DEF ProcessMcf, AskingBlock
  <2> QED  BY <1>1, <2>1, UnexpectedAccepted
<1>4. CASE s.state = "II_Q" \/ AskingBlock(s)
  <2>1. Acknowledged(s, t)  BY <1>1, <1>4, McfHeard
  <2> HIDE DEF t
  <2>2. Settles(s, t) /\ (t.state \in {"I", "IV"} \/ (t.state = "C" /\ t.buffer.type = "DCN"))
    BY <2>1 DEF Acknowledged, Advances
  <2>3. Accepted(s, m, t)  BY <1>1, <1>4, <2>2, AnswerAccepted DEF AskingBlock, Taking, Over
  <2> QED  BY <2>3 DEF t
<1> QED  BY <1>3, <1>4

\* RTP and RTN.
LEMMA RetrainAccepted ==
  ASSUME NEW s, NEW r, NEW m, Meets(s, m), HeardAs(s, r, TRUE), m.type \in {"RTP", "RTN"}
  PROVE  Accepted(s, m, ProcessRetrain(r, m))
<1> DEFINE t == ProcessRetrain(r, m)
<1>1. s.hears = "v21" /\ Attends(s) /\ Final(m)  BY DEF Meets, Attends, Final
<1>2. r.state = s.state  BY DEF HeardAs, SameTalk
<1>3. CASE s.state # "II_Q"
  <2>1. t = Unexpected(r)  BY <1>2, <1>3 DEF ProcessRetrain
  <2> QED  BY <1>1, <2>1, UnexpectedAccepted
<1>4. CASE s.state = "II_Q"
  <2>1. Settles(s, t) /\ (t.state = "D" \/ (t.state = "C" /\ t.buffer = Simple("DCN")))
    BY <1>1, <1>4, RetrainHeard
  <2> HIDE DEF t
  <2>2. t.hears # "fast" /\ (t.state = "C" => t.buffer.type = "DCN")  BY <1>1, <2>1 DEF Settles, Simple
  <2>3. Accepted(s, m, t)  BY <1>1, <1>4, <2>1, <2>2 DEF Accepted, Taking, Over
  <2> QED  BY <2>3 DEF t
<1> QED  BY <1>3, <1>4

\* DCN.
LEMMA DcnAccepted ==
  ASSUME NEW s, NEW r, NEW m, Meets(s, m), HeardAs(s, r, TRUE), m.type = "DCN"
  PROVE  Accepted(s, m, ProcessDcn(r))
<1> DEFINE t == ProcessDcn(r)
<1>1. s.hears = "v21" /\ Attends(s) /\ Final(m)  BY DEF Meets, Attends, Final
<1>2. Settles(s, t) /\ t.state = "B" /\ t.hears = "no"  BY <1>1, DcnHeard
<1> HIDE DEF t
<1>3. Accepted(s, m, t)  BY <1>1, <1>2 DEF Accepted, Taking, Over
<1> QED  BY <1>3 DEF t

\* CTC.
LEMMA CtcAccepted ==
  ASSUME NEW s, NEW r, NEW m, Meets(s, m), HeardAs(s, r, TRUE), m.type = "CTC"
  PROVE  Accepted(s, m, ProcessCtc(r))
<1>1. s.hears = "v21" /\ Attends(s) /\ Final(m) /\ ~InBlock(s)  BY DEF Meets, Attends, Final
<1>2. r.state = s.state  BY DEF HeardAs, SameTalk
<1>3. ProcessCtc(r) = Unexpected(r)  BY <1>1, <1>2 DEF ProcessCtc, InBlock
<1> QED  BY <1>1, <1>3, UnexpectedAccepted

\* Every frame.
LEMMA FrameAccepted ==
  ASSUME NEW s, NEW m, NEW quality, Comes(m, quality), Meets(s, m)
  PROVE  Accepted(s, m, Accept(s, m, quality))
<1> DEFINE r == Heard(s, m, quality = "CUT")
<1>1. EndInv(s) /\ s.on = "off"  BY Attending DEF Meets, Attends
<1>2. HeardAs(s, r, Final(m))  BY <1>1, HeardFacts
<1>3. Final(m) => HeardAs(s, r, TRUE)  BY <1>2
<1>4. ~Final(m) => HeardAs(s, r, FALSE)
  <2>1. Final(m) \in BOOLEAN  BY DEF Final
  <2> QED  BY <1>2, <2>1
<1>5. Accept(s, m, quality) =
      CASE m.type \in {"CSI", "TSI"} -> r
        [] m.type = "FCD" -> ProcessFcd(r, m)
        [] m.type = "RCP" -> ProcessRcp(r)
        [] m.type = "DIS" -> ProcessDis(r, m)
        [] m.type = "DCS" -> ProcessDcs(r, m)
        [] m.type = "CFR" -> ProcessCfr(r)
        [] m.type = "FTT" -> ProcessFtt(r)
        [] m.type \in {"MPS", "EOP"} -> ProcessPageEnd(r, m.type, quality)
        [] m.type = "PPS" -> ProcessPps(r, m)
        [] m.type = "PPR" -> ProcessPpr(r, m)
        [] m.type = "MCF" -> ProcessMcf(r)
        [] m.type \in {"RTP", "RTN"} -> ProcessRetrain(r, m)
        [] m.type = "CTC" -> ProcessCtc(r)
        [] m.type = "CTR" -> ProcessCtr(r)
        [] m.type = "DCN" -> ProcessDcn(r)
  BY DEF Accept
<1> HIDE DEF r
<1>6. CASE m.type \in {"CSI", "TSI"}
  <2>1. HeardAs(s, r, FALSE)  BY <1>4, <1>6 DEF Final
  <2> QED  BY <1>5, <1>6, <2>1, IdentityAccepted
<1>7. CASE m.type \in {"FCD", "RCP"}
  <2>1. HeardAs(s, r, FALSE)  BY <1>4, <1>7 DEF Final
  <2>2. Accept(s, m, quality) = IF m.type = "FCD" THEN ProcessFcd(r, m) ELSE ProcessRcp(r)  BY <1>5, <1>7
  <2> QED  BY <1>7, <2>1, <2>2, BlockFrameAccepted
<1>8. CASE m.type \notin {"CSI", "TSI", "FCD", "RCP"}
  <2>1. HeardAs(s, r, TRUE)  BY <1>3, <1>8 DEF Final
  <2>2. CASE m.type \in {"CFR", "FTT"}
    <3>1. Accept(s, m, quality) = IF m.type = "CFR" THEN ProcessCfr(r) ELSE ProcessFtt(r)  BY <1>5, <2>2
    <3> QED  BY <2>1, <2>2, <3>1, TrainingAccepted
  <2>3. CASE m.type \in {"MPS", "EOP"}
    <3>1. Accept(s, m, quality) = ProcessPageEnd(r, m.type, quality)  BY <1>5, <2>3
    <3>2. quality \in {"GOOD", "POOR", "BAD"}  BY <2>3 DEF Comes, Final
    <3> QED  BY <2>1, <2>3, <3>1, <3>2, PageEndAccepted
  <2>4. CASE m.type \in {"RTP", "RTN"}
    <3>1. Accept(s, m, quality) = ProcessRetrain(r, m)  BY <1>5, <2>4
    <3> QED  BY <2>1, <2>4, <3>1, RetrainAccepted
  <2>5. CASE m.type \in {"DIS", "DCS"}  BY <1>5, <2>1, <2>5, DisAccepted, DcsAccepted
  <2>6. CASE m.type \in {"PPS", "PPR", "MCF"}  BY <1>5, <2>1, <2>6, PpsAccepted, PprAccepted, McfAccepted
  <2>7. CASE m.type \in {"DCN", "CTC"}  BY <1>5, <2>1, <2>7, DcnAccepted, CtcAccepted
  <2>8. m.type \in FrameTypes  BY DEF Meets
  <2> QED  BY <1>8, <2>2, <2>3, <2>4, <2>5, <2>6, <2>7, <2>8 DEF FrameTypes
<1> QED  BY <1>6, <1>7, <1>8
=============================================================================
