-------------------------------- MODULE T30 --------------------------------
(***************************************************************************)
(* T.30, src/spandsp-0.0.3/src/t30.c, with what lies under it in fax.c and *)
(* hdlc.c: two fax machines in one call over a half duplex exchange of     *)
(* V.21 (HDLC) and fast modem signals. The line may lose any signal and    *)
(* any frame. An end is a record, and the operators below are the          *)
(* functions of t30.c, which take and return the record.                   *)
(*                                                                         *)
(* Abstracted: modem rates, resolutions and identities; a page is its      *)
(* number and, with error correction, the numbers of its frames; time is   *)
(* the order in which the timers can run out (see Idle). The document      *)
(* handler and operator interrupts are not used.                           *)
(***************************************************************************)
EXTENDS Integers, Sequences, SequencesExt, FiniteSetsExt

CONSTANTS
  Caller, Answerer,
  Tries,         \* MAX_MESSAGE_TRIES
  Pages,         \* bound: pages of the document
  Blocks,        \* bound: blocks of a page with error correction
  BlockFrames,   \* bound: frames of a block, 256 in the code
  ExtraRcp,      \* RCP frames after the first, 3 in the code
  Mishaps,       \* bound: how much goes wrong in the call
  Scenarios      \* who sends the document, what the ends are configured for

ASSUME T30Assumption ==
  /\ Caller # Answerer
  /\ {Tries, Blocks, BlockFrames, Pages} \subseteq Nat \ {0}
  /\ {ExtraRcp, Mishaps} \subseteq Nat
  /\ Scenarios \subseteq [compatible : BOOLEAN, ecm : BOOLEAN, sender : {Caller, Answerer}]

Peer == {Caller, Answerer}
Other(p) == IF p = Caller THEN Answerer ELSE Caller

VARIABLES
  end,     \* per end: its t30_state_t and its fax_state_t
  stored,  \* the pages in the receiver's file
  mishaps  \* what went wrong: signals and frames not heard, bad training or
           \* pages, T0 or T1 run out early, a call hung up

vars == <<end, stored, mishaps>>

-----------------------------------------------------------------------------
(* fax.c and hdlc.c: the transmitter holds one frame. `on` is what the far  *)
(* end can hear of a signal: nothing, its beginning, the rest.              *)

NoFrame == [type |-> "none"]
Simple(type) == [type |-> type]

\* A frame is dropped while another waits; the callers do not look.
SendFrame(s, f) == IF s.buffer = NoFrame THEN [s EXCEPT !.buffer = f, !.tx_end = FALSE] ELSE s
SendNull(s) == [s EXCEPT !.tx_end = TRUE]

SetTxType(s, type, hdlc) ==
  IF s.tx = type THEN s
  ELSE [s EXCEPT !.tx = type, !.tx_hdlc = hdlc, !.on = "off",
                 !.transmit = type \notin {"none", "done"},
                 !.tx_end = @ /\ type \notin {"v21", "fast"}]

\* The receiver for fast signals listens to V.21 as well until it has trained.
SetRxType(s, type, hdlc) ==
  IF s.rx = type THEN s
  ELSE [s EXCEPT !.rx = type, !.rx_hdlc = hdlc, !.early = (type = "fast"),
                 !.hears = IF type = "fast" THEN @ ELSE "no"]

-----------------------------------------------------------------------------
(* Phases and states *)

StartT2(s) == [s EXCEPT !.timer_t2_t4 = TRUE, !.timer_is_t4 = FALSE, !.waited = FALSE]
StartT4(s) == [s EXCEPT !.timer_t2_t4 = TRUE, !.timer_is_t4 = TRUE]

Listen(s) == SetTxType(SetRxType(s, "v21", TRUE), "none", FALSE)
Talk(s) ==
  SetTxType(SetRxType([s EXCEPT !.far_end_detected = @ \/ s.timer_t0_t1], "none", FALSE), "v21", TRUE)
ListenFast(s, hdlc) == SetTxType(SetRxType(StartT2(s), "fast", hdlc), "none", FALSE)
TalkFast(s, hdlc) == SetTxType(SetRxType(s, "none", FALSE), "fast", hdlc)

SetPhase(s, phase) ==
  LET r == [s EXCEPT !.rx_signal_present = @ /\ s.phase \in {"A_CED", "A_CNG"},
                     !.rx_trained = FALSE, !.phase = phase]
  IN IF phase = s.phase THEN s
     ELSE CASE phase \in {"B_RX", "D_RX"} -> Listen(r)
            [] phase \in {"B_TX", "D_TX"} -> Talk(r)
            [] phase \in {"C_NON_ECM_RX", "C_ECM_RX"} -> ListenFast(r, phase = "C_ECM_RX")
            [] phase \in {"C_NON_ECM_TX", "C_ECM_TX"} -> TalkFast(r, phase = "C_ECM_TX")
            [] phase = "E" -> SetTxType(SetRxType(r, "none", FALSE), "pause", FALSE)
            [] phase = "CALL_FINISHED" -> SetTxType(SetRxType(r, "done", FALSE), "done", FALSE)

\* Mutant: the phase changes though the far end is still sending.
QueuePhaseNow(s, phase) == [SetPhase(s, phase) EXCEPT !.next_phase = "IDLE"]

QueuePhase(s, phase) ==
  IF s.rx_signal_present THEN [s EXCEPT !.next_phase = phase]
  ELSE [SetPhase(s, phase) EXCEPT !.next_phase = "IDLE"]

SetState(s, state) == IF s.state = state THEN s ELSE [s EXCEPT !.state = state, !.step = 0]

NextPhase(s) ==
  IF s.next_phase = "IDLE" THEN s ELSE [SetPhase(s, s.next_phase) EXCEPT !.next_phase = "IDLE"]

Say(s, phase, state, type) == SendFrame(SetState(QueuePhase(s, phase), state), Simple(type))

SendDcn(s) == Say(s, "D_TX", "C", "DCN")
Fail(s) == [s EXCEPT !.current_status = "ERROR"]

Disconnect(s) ==
  SetState(SetPhase([s EXCEPT !.timer_t0_t1 = FALSE, !.timer_t2_t4 = FALSE], "E"), "B")

Unexpected(s) == SendDcn(Fail(s))

-----------------------------------------------------------------------------
(* Setting up *)

DisFrame(s) ==
  [type |-> "DIS", can_send |-> s.tx_file, can_receive |-> s.rx_file, ecm |-> s.ecm_allowed]

SendDis(s) == [SendFrame(s, Simple("CSI")) EXCEPT !.step = 1]

DcsFrame(s) == [type |-> "DCS", ecm |-> s.ecm]

SendDcs(s) == [SendFrame(s, Simple("TSI")) EXCEPT !.step = 2]

\* The next block of the page.
GetPartialPage(s) ==
  [s EXCEPT !.ppr_count = 0, !.ecm_block = @ + 1, !.ecm_at_page_end = (s.ecm_block + 1 = Blocks),
            !.ecm_len = 1 .. BlockFrames]

\* Mutant: an RCP too many.
RcpDueLate(s) == s.ecm_current_frame <= BlockFrames + ExtraRcp + 1

RcpDue(s) == s.ecm_current_frame <= BlockFrames + ExtraRcp

SendNextEcmFrame(s) ==
  LET rest == {i \in s.ecm_len : i > s.ecm_current_frame} IN
  IF rest # {}
    THEN [SendFrame(s, [type |-> "FCD", page |-> s.page, block |-> s.ecm_block, no |-> Min(rest)])
            EXCEPT !.ecm_current_frame = Min(rest)]
    ELSE [SendFrame(s, Simple("RCP")) EXCEPT !.ecm_current_frame = @ + 1]

SendBlock(s) ==
  SendNextEcmFrame([QueuePhase(SetState(s, "IV"), "C_ECM_TX") EXCEPT !.ecm_current_frame = 0])

PpsFrame(s) ==
  [type |-> "PPS", post |-> IF s.ecm_at_page_end THEN s.next_tx_step ELSE "NULL"]

StartSending(s) ==
  LET r == [s EXCEPT !.page = 1, !.ecm_block = 0, !.retries = 0]
  IN SendDcs(SetState(IF s.ecm THEN GetPartialPage(r) ELSE r, "D"))

RestartSending(s) == SendDis(SetState([s EXCEPT !.retries = 0, !.ecm_block = 0], "D"))

StartReceiving(s) ==
  IF s.rx_file THEN SendDis(SetState(QueuePhase(s, "B_TX"), "R")) ELSE s

RxStartPage(s) == [s EXCEPT !.image = <<>>, !.got = {}]

CheckNextTxStep(s) == IF s.page < Pages THEN "MPS" ELSE "EOP"

-----------------------------------------------------------------------------
(* process_rx_*: what a frame does in each state                            *)

ProcessDis(s, m) ==
  LET a == [s EXCEPT !.ecm = s.ecm_allowed /\ m.ecm, !.retries = IF s.state = "D_POST_TCF" THEN @ + 1 ELSE @]
      b == QueuePhase(a, "B_TX")
      c == StartSending(b)
  IN CASE s.state = "D_POST_TCF" /\ a.retries > Tries -> SendDcn(Fail(a))
       [] s.state = "D_POST_TCF" /\ a.retries <= Tries -> SendDcs(SetState(b, "D"))
       [] s.state \in {"R", "T", "F_DOC"} /\ s.tx_file ->
            IF ~m.can_receive THEN SendDcn(Fail(b))
            ELSE IF s.compatible THEN c ELSE SendDcn(Fail(c))
       [] s.state \in {"R", "T", "F_DOC"} /\ ~s.tx_file ->
            IF m.can_send THEN StartReceiving(b) ELSE SendDcn(Fail(b))
       [] OTHER -> Unexpected(s)

ProcessDcs(s, m) ==
  IF s.state \notin {"R", "F_DOC"} THEN Unexpected(s)
  ELSE IF ~s.rx_file THEN SendDcn(Fail([s EXCEPT !.ecm = m.ecm]))
  ELSE SetPhase(SetState([s EXCEPT !.ecm = m.ecm], "F_TCF"), "C_NON_ECM_RX")

ProcessCfr(s) ==
  LET r == [s EXCEPT !.retries = 0] IN
  IF s.state # "D_POST_TCF" THEN Unexpected(s)
  ELSE IF s.ecm THEN SendBlock(r) ELSE QueuePhase(SetState(r, "I"), "C_NON_ECM_TX")

\* The phase stays the receiver's.
ProcessFtt(s) ==
  IF s.state # "D_POST_TCF" THEN Unexpected(s)
  ELSE SendDcs(SetState([s EXCEPT !.retries = 0], "D"))

\* After a page without error correction, and the quality it is judged to be of.
ProcessPageEnd(s, step, quality) ==
  LET r == [s EXCEPT !.next_rx_step = step]
      next == IF step = "MPS" THEN RxStartPage(r) ELSE [r EXCEPT !.in_message = FALSE]
  IN CASE s.state # "F_POST_DOC_NON_ECM" -> Unexpected(s)
       [] s.state = "F_POST_DOC_NON_ECM" /\ quality = "GOOD" -> Say(next, "D_TX", "III_Q_MCF", "MCF")
       [] s.state = "F_POST_DOC_NON_ECM" /\ quality = "POOR" -> Say(next, "D_TX", "III_Q_RTP", "RTP")
       [] s.state = "F_POST_DOC_NON_ECM" /\ quality = "BAD" ->
            Say(IF step = "MPS" THEN RxStartPage(r) ELSE r, "D_TX", "III_Q_RTN", "RTN")

ProcessFcd(s, m) ==
  IF s.state = "F_DOC" THEN [s EXCEPT !.got = {g \in @ : g.no # m.no} \cup {m}] ELSE Unexpected(s)

ProcessRcp(s) ==
  CASE s.state = "F_DOC" -> QueuePhase(SetState(s, "F_POST_DOC_ECM"), "D_RX")
    [] s.state = "F_POST_DOC_ECM" -> s
    [] OTHER -> Unexpected(s)

Missing(s) == {n \in 1 .. BlockFrames : \A g \in s.got : g.no # n}
BlockImage(s) == [n \in 1 .. BlockFrames |-> CHOOSE g \in s.got : g.no = n]

\* Mutant: the frames of the block stay in the buffer.
CommittedKept(s) == [s EXCEPT !.image = @ \o BlockImage(s)]

Committed(s) == [s EXCEPT !.image = @ \o BlockImage(s), !.got = {}]

\* Whether a frame completes a page with error correction.
PageComplete(s, m) ==
  /\ m.type = "PPS" /\ s.state \in {"F_DOC", "F_POST_DOC_ECM"}
  /\ m.post # "NULL" /\ Missing(s) = {}

ProcessPps(s, m) ==
  IF s.state \notin {"F_DOC", "F_POST_DOC_ECM"} THEN Unexpected(s)
  ELSE IF Missing(s) # {}
    THEN SendFrame(SetState(QueuePhase(s, "D_TX"), "F_POST_RCP_PPR"),
                   [type |-> "PPR", again |-> Missing(s)])
  ELSE Say(IF m.post = "NULL" THEN Committed(s)
           ELSE RxStartPage([Committed(s) EXCEPT !.next_rx_step = m.post]),
           "D_TX", "F_POST_RCP_MCF", "MCF")

\* Mutant: the page ends with the block that was acknowledged.
NextBlockNone(s) == FALSE

NextBlock(s) == ~s.ecm_at_page_end

ProcessMcf(s) ==
  LET r == [s EXCEPT !.retries = 0]
      turned == [r EXCEPT !.page = @ + 1, !.ecm_block = 0]
  IN CASE s.state = "II_Q" ->
            IF s.next_tx_step = "MPS" THEN QueuePhase(SetState(turned, "I"), "C_NON_ECM_TX")
                                      ELSE SendDcn(turned)
       [] s.state \in {"IV_PPS_NULL", "IV_PPS_Q"} ->
            IF NextBlock(s) THEN SendBlock(GetPartialPage(r))
            ELSE IF s.next_tx_step = "MPS" THEN SendBlock(GetPartialPage(turned))
            ELSE SendDcn(turned)
       [] OTHER -> Unexpected(s)

\* The page is sent again, after new training.
ProcessRetrain(s, m) ==
  CASE s.state = "II_Q" /\ s.next_tx_step = "MPS" -> RestartSending(QueuePhase(s, "B_TX"))
    [] s.state = "II_Q" /\ s.next_tx_step = "EOP" -> SendDcn([s EXCEPT !.retries = 0])
    [] OTHER -> Unexpected(s)

\* The frames asked for are sent again; after four requests, CTC is put into
\* the transmitter, and the phase stays the receiver's.
ProcessPpr(s, m) ==
  LET r == [s EXCEPT !.ppr_count = @ + 1] IN
  IF s.state \notin {"IV_PPS_NULL", "IV_PPS_Q"} THEN Unexpected(s)
  ELSE IF r.ppr_count >= 4 THEN SendFrame(SetState(r, "IV_CTC"), Simple("CTC"))
  ELSE SendBlock([r EXCEPT !.ecm_len = @ \cap m.again])

ProcessCtc(s) ==
  IF s.state \in {"F_DOC", "F_POST_DOC_ECM"} THEN SendFrame(s, Simple("CTR")) ELSE Unexpected(s)

ProcessCtr(s) == IF s.state = "IV_CTC" THEN s ELSE Unexpected(s)

ProcessDcn(s) ==
  Disconnect(IF s.state = "F_POST_DOC_NON_ECM" \/ (s.state = "II_Q" /\ s.next_tx_step = "MPS")
             THEN Fail(s) ELSE s)

-----------------------------------------------------------------------------
(* hdlc_accept_control_msg *)

Final(m) == m.type \notin {"CSI", "TSI", "FCD", "RCP"}

\* A frame stops T2 and T4; one that is not the last starts what ran last. The
\* flag behind it stops T2 again (hdlc.c announces FRAMING_OK anew after every
\* frame), unless the signal was cut there.
Heard(s, m, cut) ==
  [s EXCEPT !.timer_t2_t4 = (s.timer_is_t4 \/ cut) /\ ~Final(m), !.waited = FALSE,
            !.timer_t0_t1 = @ /\ ~Final(m)]

Accept(s, m, quality) ==
  LET r == Heard(s, m, quality = "CUT") IN
  CASE m.type \in {"CSI", "TSI"} -> r
    [] m.type = "FCD" -> ProcessFcd(r, m)
    [] m.type = "RCP" -> ProcessRcp(r)
    [] m.type = "DIS" -> ProcessDis(r, m)
    [] m.type = "DCS" -> ProcessDcs(r, m)
    [] m.type = "CFR" -> ProcessCfr(r)
    [] m.type = "FTT" -> ProcessFtt(r)
    [] m.type \in {"MPS", "EOP"} -> ProcessPageEnd(r, m.type, quality)
    [] m.type = "PPS" -> ProcessPps(r, m)
    [] m.type = "PPR" -> ProcessPpr(r, m)
    [] m.type = "MCF" -> ProcessMcf(r)
    [] m.type \in {"RTP", "RTN"} -> ProcessRetrain(r, m)
    [] m.type = "CTC" -> ProcessCtc(r)
    [] m.type = "CTR" -> ProcessCtr(r)
    [] m.type = "DCN" -> ProcessDcn(r)

-----------------------------------------------------------------------------
(* t30_send_complete: the transmitter wants a frame, or has sent its last   *)

\* Mutant: nothing wakes the end should no answer come.
WaitUntimed(s, phase) == SetPhase(s, phase)

Wait(s, phase) == StartT4(SetPhase(s, phase))
Stepped(s) == [s EXCEPT !.step = @ + 1]
NextPage(s) ==
  SetPhase(SetState(s, "F_DOC"), IF s.ecm THEN "C_ECM_RX" ELSE "C_NON_ECM_RX")

DisSent(s) ==
  CASE s.step = 0 -> SendDis(s)
    [] s.step = 1 -> SendFrame(Stepped(s), DisFrame(s))
    [] s.step = 2 -> SendNull(Stepped(s))
    [] s.step = 3 -> Wait(s, "B_RX")

DcsSent(s) ==
  CASE s.step < 2 -> SendDcs(s)
    [] s.step = 2 -> SendFrame(Stepped(s), DcsFrame(s))
    [] s.step = 3 -> SendNull(Stepped(s))
    [] s.step = 4 -> SetPhase(SetState(s, "D_TCF"), "C_NON_ECM_TX")

SendComplete(s) ==
  LET last == s.step > 0  \* of the states in which one frame is sent
      ask == SetPhase(s, "D_TX")
      step == CheckNextTxStep(s)
      pps == [ask EXCEPT !.next_tx_step = step]
  IN
  CASE s.state = "ANSWERING" -> SendDis(SetState(StartT2(SetPhase(s, "B_TX")), "R"))
    [] s.state = "R" -> DisSent(s)
    [] s.state = "D" -> DcsSent(s)
    [] s.state = "D_TCF" -> SetState(Wait(s, "B_RX"), "D_POST_TCF")
    [] s.state = "I" ->
         SendFrame([SetState(ask, "II_Q") EXCEPT !.next_tx_step = step], Simple(step))
    [] s.state = "IV" /\ ~last ->
         IF RcpDue(s) THEN SendNextEcmFrame(s) ELSE SendNull(Stepped(s))
    [] s.state = "IV" /\ last ->
         SetState(SendFrame(pps, PpsFrame(pps)), IF s.ecm_at_page_end THEN "IV_PPS_Q" ELSE "IV_PPS_NULL")
    [] s.state \in {"F_CFR", "F_FTT", "III_Q_MCF", "III_Q_RTP", "III_Q_RTN", "F_POST_RCP_PPR",
                    "F_POST_RCP_MCF", "II_Q", "IV_PPS_NULL", "IV_PPS_Q", "C"} /\ ~last ->
         SendNull(Stepped(s))
    [] s.state = "F_CFR" /\ last -> [NextPage(s) EXCEPT !.next_rx_step = "MPS"]
    [] s.state = "F_FTT" /\ last -> Wait(s, "B_RX")
    [] s.state \in {"III_Q_MCF", "III_Q_RTP", "III_Q_RTN", "F_POST_RCP_PPR", "F_POST_RCP_MCF"} /\ last ->
         IF s.next_rx_step = "MPS" THEN NextPage(s) ELSE Disconnect(s)
    [] s.state \in {"II_Q", "IV_PPS_NULL", "IV_PPS_Q"} /\ last -> Wait(s, "D_RX")
    [] s.state = "C" /\ last -> Disconnect(s)
    [] s.state = "B" -> SetPhase(SetState(s, "CALL_FINISHED"), "CALL_FINISHED")
    [] OTHER -> s

-----------------------------------------------------------------------------
(* Events of the receiver *)

\* T0 becomes T1 when the far end is heard, and T2 has done its work.
FramingOk(s) ==
  LET new == ~s.far_end_detected /\ s.timer_t0_t1
      r == [s EXCEPT !.far_end_detected = @ \/ new]
      a == IF new /\ s.phase \in {"A_CED", "A_CNG"} THEN SetPhase(r, "B_RX") ELSE r
  IN [a EXCEPT !.timer_t2_t4 = @ /\ s.timer_is_t4]

CarrierUp(s) == [s EXCEPT !.hears = "v21", !.rx_signal_present = TRUE]

\* carried: what the signal carries, should it be taken for a page.
Trained(s, carried) ==
  [s EXCEPT !.hears = "fast", !.early = FALSE, !.rx_signal_present = TRUE, !.rx_trained = TRUE,
            !.timer_t2_t4 = @ /\ s.rx_hdlc,
            !.image = IF s.state = "F_DOC" /\ ~s.rx_hdlc THEN <<carried>> ELSE @]

TrainingFailed(s) == [s EXCEPT !.hears = "noise", !.rx_trained = FALSE, !.timer_t2_t4 = FALSE]

\* Mutant: the file is opened again by the next DCS.
TrainingGoodForgets(s) ==
  SendFrame(SetState(SetPhase(RxStartPage(s), "B_TX"), "F_CFR"), Simple("CFR"))

TrainingGood(s) ==
  SendFrame(SetState(SetPhase(RxStartPage([s EXCEPT !.in_message = TRUE]), "B_TX"), "F_CFR"),
            Simple("CFR"))
TrainingBad(s) == SendFrame(SetState(SetPhase(s, "B_TX"), "F_FTT"), Simple("FTT"))

\* bits: whether the fast receiver reports it, past HDLC.
CarrierDown(s, bits, good) ==
  LET r == [s EXCEPT !.hears = "no", !.rx_signal_present = FALSE, !.rx_trained = FALSE]
      ok == IF s.current_status = "NOCARRIER" THEN "OK" ELSE s.current_status
  IN NextPhase(
     CASE ~bits -> r
       [] bits /\ s.state = "F_TCF" ->
            IF ~s.rx_trained THEN r ELSE IF good THEN TrainingGood(r) ELSE TrainingBad(r)
       [] bits /\ s.state = "F_POST_DOC_NON_ECM" -> [r EXCEPT !.current_status = ok]
       [] bits /\ s.state \notin {"F_TCF", "F_POST_DOC_NON_ECM"} ->
            IF s.rx_trained
              THEN StartT2(SetPhase(SetState([r EXCEPT !.current_status = ok], "F_POST_DOC_NON_ECM"), "D_RX"))
              ELSE [r EXCEPT !.current_status = "NOCARRIER"])

-----------------------------------------------------------------------------
(* Timers *)

RepeatLastCommand(s) ==
  CASE s.state = "R" -> SendDis(SetPhase(s, "B_TX"))
    [] s.state = "D" -> SendDcs(s)
    [] s.state = "II_Q" -> SendFrame(SetPhase(s, "D_TX"), Simple(s.next_tx_step))
    [] s.state \in {"IV_PPS_NULL", "IV_PPS_Q"} -> SendFrame(SetPhase(s, "D_TX"), PpsFrame(s))
    [] s.state = "III_Q_MCF" -> SendFrame(SetPhase(s, "D_TX"), Simple("MCF"))
    [] s.state = "III_Q_RTP" -> SendFrame(SetPhase(s, "D_TX"), Simple("RTP"))
    [] s.state = "III_Q_RTN" -> SendFrame(SetPhase(s, "D_TX"), Simple("RTN"))
    [] s.state = "F_FTT" -> SendFrame(SetPhase(s, "B_TX"), Simple("FTT"))
    [] s.state = "F_CFR" -> SendFrame(SetPhase(s, "B_TX"), Simple("CFR"))
    [] OTHER -> s

T0Expired(s) == Disconnect(Fail(s))

T1Expired(s) ==
  CASE s.state = "T" -> Disconnect(Fail(s))
    [] s.state = "R" -> SendDcn(Fail(s))
    [] OTHER -> Fail(s)

T2Expired(s) ==
  StartReceiving(SetPhase(IF s.state \in {"F_DOC", "F_POST_DOC_NON_ECM", "R"} THEN Fail(s) ELSE s, "B_TX"))

\* Mutant: retries are not counted.
T4ExpiredForever(s) == RepeatLastCommand(s)

T4Expired(s) ==
  LET r == [s EXCEPT !.retries = @ + 1] IN
  IF r.retries > Tries THEN SendDcn(Fail(r)) ELSE RepeatLastCommand(r)

-----------------------------------------------------------------------------
(* fax_init and t30_init *)

EndInit(p, sc) ==
  [state |-> IF p = Caller THEN "T" ELSE "ANSWERING",
   phase |-> IF p = Caller THEN "A_CNG" ELSE "A_CED",
   next_phase |-> "IDLE", step |-> 0, current_status |-> "OK",
   rx_signal_present |-> FALSE, rx_trained |-> FALSE, far_end_detected |-> FALSE,
   timer_t0_t1 |-> TRUE, timer_t2_t4 |-> FALSE, timer_is_t4 |-> FALSE, waited |-> FALSE,
   retries |-> 0, ppr_count |-> 0, next_tx_step |-> "none", next_rx_step |-> "none",
   compatible |-> sc.compatible, ecm_allowed |-> sc.ecm, ecm |-> FALSE,
   tx_file |-> p = sc.sender, rx_file |-> p # sc.sender,
   page |-> 1, ecm_block |-> 0, ecm_len |-> {}, ecm_current_frame |-> 0, ecm_at_page_end |-> FALSE,
   in_message |-> FALSE, image |-> <<>>, got |-> {},
   tx |-> IF p = Caller THEN "cng" ELSE "ced", transmit |-> TRUE, tx_hdlc |-> FALSE,
   on |-> "off", buffer |-> NoFrame, tx_end |-> FALSE,
   rx |-> "v21", rx_hdlc |-> TRUE, early |-> FALSE, hears |-> "no"]

Init ==
  /\ \E sc \in Scenarios : end = [p \in Peer |-> EndInit(p, sc)]
  /\ stored = <<>>
  /\ mishaps = 0

-----------------------------------------------------------------------------
(* Signals *)

Finished(s) == s.state = "CALL_FINISHED"

Becomes(p, s) == end' = [end EXCEPT ![p] = s]

Mishap(b) ==
  /\ mishaps' = IF b THEN mishaps + 1 ELSE mishaps
  /\ mishaps' <= Mishaps

\* Something will come of what an end is sending; otherwise it sends flags.
Sending(s) ==
  /\ s.transmit /\ s.tx \in {"v21", "fast"}
  /\ ~(s.tx_hdlc /\ s.on = "frames" /\ s.buffer = NoFrame /\ ~s.tx_end)

\* A tone that will end: CED, or the pause at the end of a call.
Tone(s) == s.transmit /\ s.tx \in {"ced", "pause"}

CanHear(s, signal) ==
  CASE signal = "v21" -> s.rx = "v21" \/ (s.rx = "fast" /\ s.early)
    [] signal = "fast" -> s.rx = "fast"
    [] OTHER -> FALSE

\* The far end could have heard the signal, and has not.
Unheard(p) ==
  /\ end[p].on = "preamble" /\ end[Other(p)].hears = "no"
  /\ CanHear(end[Other(p)], end[p].tx)

\* The far end is taking the frames of the signal.
Follows(p) ==
  end[p].on # "off" /\ end[Other(p)].hears = end[p].tx /\ (end[p].tx = "fast" => end[Other(p)].rx_hdlc)

\* After 75 ms of silence.
Start(p) ==
  /\ Sending(end[p]) /\ end[p].on = "off" /\ end[Other(p)].hears = "no"
  /\ end' = [end EXCEPT ![p].on = "preamble"]
  /\ UNCHANGED <<stored, mishaps>>

\* What a signal carries when it is taken for a page: 0 is not a page.
Carried(s) == [page |-> IF s.state = "I" THEN s.page ELSE 0, block |-> 0, no |-> 0]

Hear(q) ==
  LET s == end[q]  e == end[Other(q)] IN
  /\ Unheard(Other(q))
  /\ Becomes(q, CASE e.tx = "v21" -> FramingOk(CarrierUp(s))
                  [] e.tx = "fast" /\ e.tx_hdlc /\ s.rx_hdlc -> FramingOk(Trained(s, Carried(e)))
                  [] e.tx = "fast" /\ ~(e.tx_hdlc /\ s.rx_hdlc) -> Trained(s, Carried(e)))
  /\ UNCHANGED <<stored, mishaps>>

FailToTrain(q) ==
  LET s == end[q]  e == end[Other(q)] IN
  /\ Unheard(Other(q)) /\ e.tx = "fast" /\ Mishap(TRUE)
  /\ Becomes(q, TrainingFailed(s))
  /\ UNCHANGED stored

LoseCarrier(q) ==
  /\ end[q].hears # "no" /\ end[Other(q)].on = "off"
  /\ \E good \in BOOLEAN :
       /\ ~good => end[q].state = "F_TCF"
       /\ Mishap(~good)
       /\ Becomes(q, CarrierDown(end[q], end[q].hears # "v21" /\ ~end[q].rx_hdlc, good))
  /\ UNCHANGED stored

Miss(p) ==
  /\ Unheard(p) /\ Mishap(TRUE)
  /\ end' = [end EXCEPT ![p].on = "missed"]
  /\ UNCHANGED stored

\* The preamble has been sent, and there is nothing to send.
Underflow(p) ==
  /\ end[p].on \in {"preamble", "missed"} /\ ~Unheard(p)
  /\ end[p].tx_hdlc /\ end[p].buffer = NoFrame
  /\ Becomes(p, SendComplete([end[p] EXCEPT !.on = "frames"]))
  /\ UNCHANGED <<stored, mishaps>>

EndSignal(p) ==
  LET s == end[p] IN
  /\ \/ s.tx = "fast" /\ ~s.tx_hdlc /\ s.on \in {"preamble", "missed"} /\ ~Unheard(p)
     \/ s.tx_hdlc /\ s.on = "frames" /\ s.buffer = NoFrame /\ s.tx_end
  /\ Becomes(p, SendComplete([s EXCEPT !.transmit = FALSE, !.on = "off", !.tx_end = FALSE]))
  /\ UNCHANGED <<stored, mishaps>>

EndTone(p) ==
  /\ Tone(end[p])
  /\ Becomes(p, SendComplete([end[p] EXCEPT !.transmit = FALSE]))
  /\ UNCHANGED <<stored, mishaps>>

\* A frame judges the page before it.
Judges(s, m) == m.type \in {"MPS", "EOP"} /\ s.state = "F_POST_DOC_NON_ECM"

\* What the t4_rx_ functions do to the file while s accepts m.
File(s, m, quality) ==
  CASE m.type = "DCS" /\ s.state \in {"R", "F_DOC"} /\ s.rx_file /\ ~s.in_message -> <<>>
    [] Judges(s, m) /\ quality # "BAD" -> Append(stored, s.image)
    [] PageComplete(s, m) -> Append(stored, Committed(s).image)
    [] OTHER -> stored

Lost(p) ==
  /\ end[p].on # "off" /\ end[p].tx_hdlc /\ end[p].buffer # NoFrame
  /\ ~Unheard(p) /\ Mishap(Follows(p))
  /\ Becomes(p, SendComplete([end[p] EXCEPT !.buffer = NoFrame, !.on = "frames"]))
  /\ UNCHANGED stored

\* How a frame arrives: of the end of a page, how good the page was; of a frame
\* that others follow, whether the flags behind it are lost.
Qualities == {"GOOD", "POOR", "BAD", "CUT"}

Frame(p) ==
  LET s == end[p]  q == Other(p)  e == end[q] IN
  /\ s.tx_hdlc /\ s.buffer # NoFrame /\ Follows(p)
  /\ \E quality \in Qualities :
       /\ quality \in {"POOR", "BAD"} => Judges(e, s.buffer)
       /\ quality = "CUT" => ~Final(s.buffer)
       /\ Mishap(quality # "GOOD")
       /\ stored' = File(e, s.buffer, quality)
       /\ end' = [end EXCEPT ![p] = SendComplete([s EXCEPT !.buffer = NoFrame, !.on = "frames"]),
                             ![q] = Accept(e, s.buffer, quality)]

-----------------------------------------------------------------------------
(* Timers: T4 (3.45 s) and T2 (7 s) run out while the line is silent or     *)
(* carries nothing the end can hear, T4 before a T2 that waits with it.     *)
(* T0 and T1 are much longer and may run out at any time.                   *)

Idle(p) ==
  LET s == end[p]  e == end[Other(p)] IN
  /\ ~Finished(s) /\ ~Sending(s) /\ ~Tone(s) /\ ~Tone(e)
  /\ s.hears = "no" \/ (e.on # "off" /\ ~Sending(e))
  /\ e.hears = "no" \/ s.on # "off"
  /\ ~(Sending(e) /\ (e.on = "off" \/ Unheard(Other(p))))

ExpireT4(p) ==
  LET s == end[p]  q == Other(p) IN
  /\ Idle(p) /\ s.timer_t2_t4 /\ s.timer_is_t4
  /\ end' = [end EXCEPT ![p] = T4Expired([s EXCEPT !.timer_t2_t4 = FALSE]),
                        ![q].waited = end[q].timer_t2_t4 /\ ~end[q].timer_is_t4]
  /\ UNCHANGED <<stored, mishaps>>

ExpireT2(p) ==
  LET s == end[p]  e == end[Other(p)] IN
  /\ Idle(p) /\ s.timer_t2_t4 /\ ~s.timer_is_t4
  /\ s.waited \/ Finished(e) \/ ~(e.timer_t2_t4 /\ e.timer_is_t4)
  /\ Becomes(p, T2Expired([s EXCEPT !.timer_t2_t4 = FALSE]))
  /\ UNCHANGED <<stored, mishaps>>

ExpireT0T1(p) ==
  LET s == end[p]  r == [s EXCEPT !.timer_t0_t1 = FALSE] IN
  /\ ~Finished(s) /\ s.timer_t0_t1 /\ ~Sending(s)
  /\ Mishap(~Idle(p) \/ \E q \in Peer : end[q].timer_t2_t4 /\ ~Finished(end[q]))
  /\ Becomes(p, IF s.far_end_detected THEN T1Expired(r) ELSE T0Expired(r))
  /\ UNCHANGED stored

\* t30_terminate: the application hangs up.
Terminate(p) ==
  LET s == end[p]
      r == CASE s.state = "C" -> Disconnect(s) [] s.state = "B" -> s [] OTHER -> Fail(s)
  IN
  /\ s.phase # "CALL_FINISHED" /\ Mishap(TRUE)
  /\ Becomes(p, SetPhase(SetState(r, "CALL_FINISHED"), "CALL_FINISHED"))
  /\ UNCHANGED stored

-----------------------------------------------------------------------------
Modem(p) ==
  \/ Start(p) \/ Hear(p) \/ Miss(p) \/ FailToTrain(p) \/ LoseCarrier(p) \/ Underflow(p)
  \/ EndSignal(p) \/ EndTone(p) \/ Lost(p) \/ Frame(p)
Timer(p) == ExpireT4(p) \/ ExpireT2(p) \/ ExpireT0T1(p)

Next == \E p \in Peer : Modem(p) \/ Timer(p) \/ Terminate(p)

\* fax_rx and fax_tx are called as long as the call lasts: signals end, and
\* timers run out.
Fairness == \A p \in Peer : WF_vars(Modem(p)) /\ WF_vars(Timer(p))

Spec == Init /\ [][Next]_vars /\ Fairness

-----------------------------------------------------------------------------
(* Properties *)

States == {"ANSWERING", "T", "R", "D", "D_TCF", "D_POST_TCF", "F_TCF", "F_CFR", "F_FTT", "F_DOC",
           "F_POST_DOC_NON_ECM", "F_POST_DOC_ECM", "F_POST_RCP_MCF", "F_POST_RCP_PPR", "I", "II_Q",
           "III_Q_MCF", "III_Q_RTP", "III_Q_RTN", "IV", "IV_PPS_NULL", "IV_PPS_Q", "IV_CTC",
           "B", "C", "CALL_FINISHED"}
TxPhases == {"B_TX", "C_NON_ECM_TX", "C_ECM_TX", "D_TX"}
Phases == TxPhases \cup {"A_CED", "A_CNG", "B_RX", "C_NON_ECM_RX", "C_ECM_RX", "D_RX", "E", "CALL_FINISHED"}
Steps == {"none", "MPS", "EOP"}

\* The states, phases, signals, counters and buffers of an end keep their
\* ranges, whatever is lost.
TypeOK ==
  /\ mishaps \in 0 .. Mishaps
  /\ \A p \in Peer :
       LET s == end[p] IN
       /\ s.state \in States /\ s.phase \in Phases /\ s.next_phase \in Phases \cup {"IDLE"}
       /\ s.step \in 0 .. 4 /\ s.current_status \in {"OK", "NOCARRIER", "ERROR"}
       /\ s.retries \in 0 .. Tries + 1 /\ s.ppr_count \in 0 .. 4
       /\ s.next_tx_step \in Steps /\ s.next_rx_step \in Steps
       /\ s.page \in 1 .. Pages + 1 /\ s.ecm_block \in 0 .. Blocks
       /\ s.ecm_len \subseteq 1 .. BlockFrames
       /\ s.ecm_current_frame \in 0 .. BlockFrames + ExtraRcp + 1
       /\ s.tx \in {"none", "cng", "ced", "v21", "fast", "pause", "done"}
       /\ s.rx \in {"none", "v21", "fast", "done"}
       /\ s.on \in {"off", "preamble", "missed", "frames"}
       /\ s.hears \in {"no", "v21", "fast", "noise"}
       /\ \A b \in {s.rx_signal_present, s.rx_trained, s.far_end_detected, s.timer_t0_t1,
                    s.timer_t2_t4, s.timer_is_t4, s.waited, s.ecm, s.ecm_at_page_end,
                    s.in_message, s.transmit, s.tx_hdlc, s.rx_hdlc, s.tx_end, s.early} : b \in BOOLEAN

Sender == CHOOSE p \in Peer : end[p].tx_file

\* How far into the document a frame of a page, or a page, lies: 0 is noise.
Place(f) ==
  IF f.block = 0 THEN f.page ELSE ((f.page - 1) * Blocks + f.block - 1) * BlockFrames + f.no

\* Where a resent block, or page, begins again.
BeginsAgain(f, g) == f.page = g.page /\ f.block = g.block /\ f.no \in {0, BlockFrames} /\ g.no \in {0, 1}

FollowedBy(f, g) == Place(g) = Place(f) + 1 \/ BeginsAgain(f, g)

InOrder(file) ==
  /\ \A i \in DOMAIN file :
       /\ file[i] # <<>>
       /\ \A j \in 2 .. Len(file[i]) : FollowedBy(file[i][j - 1], file[i][j])
  /\ file # <<>> => Place(file[1][1]) = 1
  /\ \A i \in 2 .. Len(file) : FollowedBy(file[i - 1][Len(file[i - 1])], file[i][1])

\* The receiver's file holds the document from its beginning and in order, with
\* nothing left out, whatever was lost on the line and however often the sender
\* repeated its commands. A block or a page may be there twice: PPS and the
\* pages carry numbers that process_rx_pps() does not compare, and after RTP
\* the page before is sent again.
NothingSkipped == InOrder(stored)

\* What the sender has done with.
Passed(s) ==
  1 .. IF s.ecm THEN ((s.page - 1) * Blocks + (IF s.ecm_block = 0 THEN 0 ELSE s.ecm_block - 1)) * BlockFrames
       ELSE s.page - 1

\* The sender goes on to the next block or page only when the receiver has the
\* one before, in its file or in the page that it is putting together: an MCF
\* is never taken for the answer to something the receiver does not have.
NothingLost ==
  LET r == end[Other(Sender)]
      kept == UNION {Range(page) : page \in Range(stored) \cup (IF r.ecm THEN {r.image} ELSE {})}
  IN Passed(end[Sender]) \subseteq {Place(f) : f \in kept}

\* What is in the file stays there: a second DCS in the same call, after RTP,
\* RTN or a new start by T2, does not open the file again (in_message).
FileGrows == [][IsPrefix(stored, stored')]_vars

Acts(s) == s.timer_t0_t1 \/ s.timer_t2_t4 \/ Sending(s) \/ Tone(s) \/ s.hears # "no"

\* An end that is in the call, and that neither sends nor hears anything, has a
\* timer that will wake it, except in these states: after its training was sent
\* (repeat_last_command() has no case for it), after FTT, with a CTC that is not
\* sent, and when flags or a training that failed have stopped T2 and nothing
\* followed.
Sleepy == {"D_POST_TCF", "D", "IV_CTC", "F_TCF", "F_DOC", "F_POST_DOC_NON_ECM", "F_POST_DOC_ECM"}

WaitsAreTimed == \A p \in Peer : Finished(end[p]) \/ Acts(end[p]) \/ end[p].state \in Sleepy

\* Every page once and in order, and both ends told that all is well.
Delivered ==
  /\ \A p \in Peer : Finished(end[p]) /\ end[p].current_status = "OK"
  /\ Len(stored) = Pages
  /\ LET file == FlattenSeq(stored) IN \A i \in DOMAIN file : Place(file[i]) = i

\* A call between compatible ends in which nothing goes wrong delivers the
\* document, with and without error correction, to the caller or from it.
GoodCall == end[Sender].compatible => (<>(mishaps > 0) \/ <>Delivered)

\* Every call comes to rest, whatever went wrong: retries are limited, and no
\* exchange of commands and repeats goes on for ever.
CallsRest == <>[](\A p \in Peer : Finished(end[p]) \/ ~Acts(end[p]))

\* "Trainability test failed. Try again." (process_rx_ftt): an end that is in
\* the state for sending DCS is sending it, or will when the far end falls silent.
TriesAgain == \A p \in Peer : end[p].state = "D" => {end[p].phase, end[p].next_phase} \cap {"B_TX"} # {}
=============================================================================
