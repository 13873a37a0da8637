-------------------------------- MODULE Lapm --------------------------------
(***************************************************************************)
(* V.42 error correction, src/spandsp-0.0.3/src/v42.c: two LAPM ends that  *)
(* detect each other, set up a link with SABME and UA, and exchange I, RR  *)
(* and REJ frames over a line that can corrupt frames. Each end keeps its  *)
(* timers in the slots of a scheduler (schedule.c) and its outgoing frames *)
(* in an HDLC transmitter in progressive mode (hdlc.c), which appends a    *)
(* frame to the one it is sending.                                         *)
(*                                                                         *)
(* An end is a record; the operators below are the functions of v42.c, and *)
(* take and return the record. Time is abstracted: any scheduled callback  *)
(* may fire, in any order, which includes every order the clocks allow.    *)
(***************************************************************************)
EXTENDS Integers, Sequences, FiniteSets, FiniteSetsExt

CONSTANTS
  Caller, Answerer,
  Mod,        \* sequence numbers are modulo 128
  Window,     \* window_size_k
  N_400,      \* retries
  Adps,       \* how often the answerer sends its pattern before it goes on
  Slots,      \* bound: slots of a scheduler, which grows on demand: one more than
              \* an end has timers is always enough
  MaxMerge,   \* frames that fit in the buffer of the HDLC transmitter
  MaxLine,    \* bound: frames under way
  Foreign,    \* frames that only another make of modem sends
  MaxWaiting, \* bound: pieces in tx_queue
  Scenarios   \* whether the ends detect each other (an argument of v42_init), and
              \* bounds: what the applications hand over, and how often the line
              \* corrupts or injects a frame, a link is released or T403 expires

Peer == {Caller, Answerer}
Other(p) == IF p = Caller THEN Answerer ELSE Caller

Numbers == 0 .. Mod - 1
Frames ==
  [type : {"SABME", "UA", "DISC"}] \cup [type : {"DM"}, pf : BOOLEAN]
    \cup [type : {"RR", "REJ"}, nr : Numbers, pf : BOOLEAN]
    \cup [type : {"I"}, ns : Numbers, nr : Numbers, pf : BOOLEAN, piece : Nat]

ASSUME LapmAssumption ==
  /\ Caller # Answerer
  /\ Mod \in Nat \ {0, 1} /\ Window \in Nat /\ N_400 \in Nat
  /\ Adps \in Nat \ {0} /\ Slots \in Nat /\ Slots >= 4 /\ MaxMerge \in Nat \ {0}
  /\ MaxLine \in Nat \ {0} /\ MaxWaiting \in Nat
  /\ Foreign \subseteq Frames
  /\ \A sc \in Scenarios :
       sc.detect \in BOOLEAN /\ sc.data \in [Peer -> Nat] /\ sc.faults \in Nat

VARIABLES
  end,        \* per end: its lapm_state_t and v42_state_t
  line,       \* per end: what is under way to it, a sequence of merged frames
  unwritten,  \* per end: pieces its application has still to hand over
  waiting,    \* per end: pieces in tx_queue
  read,       \* per end: pieces LAPM has taken from tx_queue
  delivered,  \* per end: the piece that the octets last given to the application
              \* begin with
  behind,     \* per end: what came behind it in these octets
  faults      \* how many of the bounded faults are left

vars == <<end, line, unwritten, waiting, read, delivered, behind, faults>>

-----------------------------------------------------------------------------
(* schedule.c: a timer handle is the number of a slot, 0 stands for -1.     *)

FreeSlot(s) == CHOOSE i \in 1 .. Slots :
  s.sched[i] = "none" /\ \A j \in 1 .. i - 1 : s.sched[j] # "none"

StartT401(s, callback) == LET i == FreeSlot(s) IN [s EXCEPT !.sched[i] = callback, !.t401 = i]
StartT403(s) == LET i == FreeSlot(s) IN [s EXCEPT !.sched[i] = "t403", !.t403 = i]
StopT400(s) == IF s.t400 = 0 THEN s ELSE [s EXCEPT !.sched[s.t400] = "none", !.t400 = 0]
StopT401(s) == IF s.t401 = 0 THEN s ELSE [s EXCEPT !.sched[s.t401] = "none", !.t401 = 0]
StopT403(s) == IF s.t403 = 0 THEN s ELSE [s EXCEPT !.sched[s.t403] = "none", !.t403 = 0]

-----------------------------------------------------------------------------
(* Frames. The transmitter refuses one while it sends a check sequence or  *)
(* when its buffer is full, and nobody looks at the refusal.               *)

UFrame(type) == [type |-> type]
SFrame(type, s, pf) == [type |-> type, nr |-> s.next_expected_frame, pf |-> pf]
IFrame(s, n) ==
  [type |-> "I", ns |-> s.next_tx_frame, nr |-> s.next_expected_frame, pf |-> FALSE, piece |-> n]

TxFrame(s, f) == IF s.crc \/ Len(s.buffer) = MaxMerge THEN s ELSE [s EXCEPT !.buffer = Append(@, f)]

Rr(s, pf) ==
  TxFrame([s EXCEPT !.last_frame_we_acknowledged = s.next_expected_frame], SFrame("RR", s, pf))
Reject(s) == TxFrame(s, SFrame("REJ", s, TRUE))

\* tx_last is never reset: once the queue has been emptied it points to freed
\* memory, a new frame is linked there, and txqueue stays empty for good.
TxIframe(s, n) ==
  LET f == IFrame(s, n)
      q == [s EXCEPT !.next_tx_frame = (@ + 1) % Mod,
                     !.last_frame_we_acknowledged = s.next_expected_frame,
                     !.txqueue = IF s.tx_last = "freed" THEN @ ELSE Append(@, f),
                     !.tx_last = IF @ = "freed" THEN @ ELSE "tail"]
      t == StopT403(IF s.retransmissions = 0 THEN TxFrame(q, f) ELSE q)
  IN IF t.t401 = 0 THEN StartT401(t, "t401") ELSE t

Reset(s) ==
  [StopT403(StopT401(s)) EXCEPT
     !.next_tx_frame = 0, !.last_frame_peer_acknowledged = 0,
     !.next_expected_frame = 0, !.last_frame_we_acknowledged = 0,
     !.solicit_f_bit = FALSE, !.state = "RELEASE", !.retransmissions = 0,
     !.txqueue = <<>>, !.tx_last = IF @ = "null" THEN @ ELSE "freed"]

\* Mutant: too many retries are not noticed.
SendSabmeForever(s) ==
  TxFrame(StartT401([StopT401(s) EXCEPT !.retransmissions = @ + 1], "sabme"), UFrame("SABME"))

\* Mutant: the retries end, the state does not.
SendSabmeSilent(s) ==
  LET r == [StopT401(s) EXCEPT !.retransmissions = @ + 1]
  IN IF r.retransmissions > N_400 THEN r
     ELSE TxFrame(StartT401(r, "sabme"), UFrame("SABME"))

SendSabme(s) ==
  LET r == [StopT401(s) EXCEPT !.retransmissions = @ + 1]
  IN IF r.retransmissions > N_400
       THEN [r EXCEPT !.state = "RELEASE"]
       ELSE TxFrame(StartT401(r, "sabme"), UFrame("SABME"))

\* The timer handles are forgotten, not stopped.
Restart(s) ==
  SendSabme(Reset([s EXCEPT !.buffer = <<>>, !.crc = FALSE, !.t401 = 0, !.t403 = 0]))

\* Mutant: T403 is not started.
LinkUpUnsupervised(s, more, n) ==
  LET r == [Reset(s) EXCEPT !.state = "DATA"]
  IN StopT401(IF more THEN TxIframe(r, n) ELSE r)

\* more: whether tx_queue holds something, n: the next piece in it.
LinkUp(s, more, n) ==
  LET r == [Reset(s) EXCEPT !.state = "DATA"]
  IN StartT403(StopT401(IF more THEN TxIframe(r, n) ELSE r))

OutsideWindow(s, ack) ==
  LET va == s.last_frame_peer_acknowledged  vs == s.next_tx_frame
  IN \/ va < vs /\ (ack < va \/ ack > vs)
     \/ va > vs /\ (ack > va \/ ack < vs)

\* Mutant: the last frame the peer has got is kept.
AckedLate(s, i, ack) ==
  LET va == s.last_frame_peer_acknowledged
  IN ((s.txqueue[i].ns - va) % Mod) + 1 < (ack - va) % Mod

\* Of each number the first frame that has it is taken out of the queue.
Acked(s, i, ack) ==
  LET va == s.last_frame_peer_acknowledged  ns == s.txqueue[i].ns
  IN (ns - va) % Mod < (ack - va) % Mod /\ \A j \in 1 .. i - 1 : s.txqueue[j].ns # ns

\* What is left of q when only the places in kept are.
Picked(q, kept) ==
  LET rank(i) == Cardinality({j \in kept : j <= i})
  IN [k \in 1 .. Cardinality(kept) |-> q[CHOOSE i \in kept : rank(i) = k]]

AckRx(s, ack) ==
  LET n == Len(s.txqueue)
      kept == {i \in 1 .. n : ~Acked(s, i, ack)}
      left == Picked(s.txqueue, kept)
      r == [s EXCEPT !.txqueue = left,
                     !.tx_last = IF n \notin kept /\ @ = "tail" THEN "freed" ELSE @,
                     !.retransmissions = IF kept = 1 .. n THEN @ ELSE 0,
                     !.last_frame_peer_acknowledged = ack]
  IN IF s.last_frame_peer_acknowledged = ack \/ OutsideWindow(s, ack) THEN s
     ELSE IF left = <<>> THEN StartT403(StopT403(StopT401(r)))
     ELSE IF r.t401 = 0 THEN StartT401(StopT403(r), "t401") ELSE StopT403(r)

\* The frames from the rejected one on are sent again, as far as there is
\* room; without any, the sequence numbers are set to what the peer wants.
Retransmit(s, nr) ==
  LET wanted == {i \in DOMAIN s.txqueue : s.txqueue[i].ns = nr}
      again == [i \in DOMAIN s.txqueue |->
        IF \E j \in wanted : j <= i
          THEN [s.txqueue[i] EXCEPT !.nr = s.next_expected_frame, !.pf = FALSE]
          ELSE s.txqueue[i]]
      last == Min({Len(again), Min(wanted) + MaxMerge - Len(s.buffer) - 1})
  IN IF wanted # {}
       THEN [s EXCEPT !.txqueue = again,
                      !.buffer = IF s.crc THEN @ ELSE @ \o SubSeq(again, Min(wanted), last)]
       ELSE IF s.txqueue # <<>> THEN s
       ELSE StartT403(StopT403(StopT401(
              [s EXCEPT !.last_frame_peer_acknowledged = nr, !.next_tx_frame = nr])))

-----------------------------------------------------------------------------
(* v42_init and v42_restart *)

\* The memory v42_init clears.
Cleared ==
  [state |-> "DETECT", next_tx_frame |-> 0, last_frame_peer_acknowledged |-> 0,
   next_expected_frame |-> 0, last_frame_we_acknowledged |-> 0,
   solicit_f_bit |-> FALSE, retransmissions |-> 0,
   txqueue |-> <<>>, tx_last |-> "null", buffer |-> <<>>, crc |-> FALSE,
   sched |-> [i \in 1 .. Slots |-> "none"], t400 |-> 0, t401 |-> 0, t403 |-> 0,
   detect |-> FALSE, odp_seen |-> FALSE, txadps |-> 0]

V42Restart(s) ==
  LET r == Restart([s EXCEPT !.sched = [i \in 1 .. Slots |-> "none"]])
      i == FreeSlot(r)
  IN IF s.detect
       THEN [r EXCEPT !.odp_seen = FALSE, !.txadps = 0,
                      !.sched[i] = "t400", !.t400 = i, !.state = "DETECT"]
       ELSE [r EXCEPT !.state = "ESTABLISH"]

Init ==
  /\ \E sc \in Scenarios :
       /\ end = [p \in Peer |-> V42Restart([Cleared EXCEPT !.detect = sc.detect])]
       /\ unwritten = sc.data
       /\ faults = sc.faults
  /\ line = [p \in Peer |-> <<>>]
  /\ waiting = [p \in Peer |-> 0]
  /\ read = [p \in Peer |-> 0]
  /\ delivered = [p \in Peer |-> 0]
  /\ behind = [p \in Peer |-> <<>>]

-----------------------------------------------------------------------------
Fault == faults > 0 /\ faults' = faults - 1

(* The application *)

Write(p) ==
  /\ unwritten[p] > 0 /\ waiting[p] < MaxWaiting
  /\ unwritten' = [unwritten EXCEPT ![p] = @ - 1]
  /\ waiting' = [waiting EXCEPT ![p] = @ + 1]
  /\ UNCHANGED <<end, line, read, delivered, behind, faults>>

\* lapm_release, and lapm_loopback and lapm_break, whose states act alike:
\* the peer is not told.
Release(p) ==
  /\ Fault
  /\ end' = [end EXCEPT ![p].state = "RELEASE"]
  /\ UNCHANGED <<line, unwritten, waiting, read, delivered, behind>>

StartAgain(p) ==
  /\ Fault
  /\ end' = [end EXCEPT ![p] = V42Restart(@)]
  /\ UNCHANGED <<line, unwritten, waiting, read, delivered, behind>>

-----------------------------------------------------------------------------
(* Detection: the caller sends ODP until it has seen the answerer's ADP,   *)
(* the answerer sends ADP a number of times once it has seen ODP.          *)

SeeOdp ==
  /\ end[Answerer].state = "DETECT" /\ ~end[Answerer].odp_seen
  /\ end[Caller].state = "DETECT"
  /\ end' = [end EXCEPT ![Answerer].odp_seen = TRUE]
  /\ UNCHANGED <<line, unwritten, waiting, read, delivered, behind, faults>>

SendAdp ==
  LET s == end[Answerer] IN
  /\ s.state = "DETECT" /\ s.odp_seen
  /\ end' = [end EXCEPT ![Answerer] =
       IF s.txadps + 1 = Adps THEN [StopT400(s) EXCEPT !.txadps = Adps, !.state = "ESTABLISH"]
                              ELSE [s EXCEPT !.txadps = @ + 1]]
  /\ UNCHANGED <<line, unwritten, waiting, read, delivered, behind, faults>>

SeeAdp ==
  /\ end[Caller].state = "DETECT" /\ end[Answerer].txadps > 1
  /\ end' = [end EXCEPT ![Caller] = [StopT400(@) EXCEPT !.state = "ESTABLISH"]]
  /\ UNCHANGED <<line, unwritten, waiting, read, delivered, behind, faults>>

-----------------------------------------------------------------------------
(* The line *)

Pending(p) == waiting[p] > 0

Take(p, more) ==
  /\ read' = [read EXCEPT ![p] = IF more THEN @ + 1 ELSE @]
  /\ waiting' = [waiting EXCEPT ![p] = IF more THEN @ - 1 ELSE @]

BeginCrc(p) ==
  /\ end[p].state # "DETECT" /\ end[p].buffer # <<>> /\ ~end[p].crc
  /\ end' = [end EXCEPT ![p].crc = TRUE]
  /\ UNCHANGED <<line, unwritten, waiting, read, delivered, behind, faults>>

\* The closing flag goes out, and lapm_hdlc_underflow sends the next piece.
EndFrame(p) ==
  LET s == [end[p] EXCEPT !.buffer = <<>>, !.crc = FALSE]
      more == s.state = "DATA" /\ Pending(p)
  IN
  /\ end[p].state # "DETECT" /\ end[p].crc
  /\ Len(line[Other(p)]) < MaxLine
  /\ line' = [line EXCEPT ![Other(p)] = Append(@, end[p].buffer)]
  /\ end' = [end EXCEPT ![p] = IF more THEN TxIframe(s, read[p] + 1) ELSE s]
  /\ Take(p, more)
  /\ UNCHANGED <<unwritten, delivered, behind, faults>>

\* The check sequence does not match.
Corrupt(p) ==
  /\ Fault /\ line[p] # <<>>
  /\ line' = [line EXCEPT ![p] = Tail(@)]
  /\ UNCHANGED <<end, unwritten, waiting, read, delivered, behind>>

\* A peer of another make.
Inject(p) ==
  /\ Fault /\ Len(line[p]) < MaxLine
  /\ \E f \in Foreign : line' = [line EXCEPT ![p] = Append(@, <<f>>)]
  /\ UNCHANGED <<end, unwritten, waiting, read, delivered, behind>>

-----------------------------------------------------------------------------
(* lapm_receive *)

\* The first of the frames that arrive at p merged into one. Of the others only
\* an I frame makes use, and takes their octets for its own.
Arrives(p, type) ==
  /\ line[p] # <<>> /\ Head(line[p])[1].type = type
  /\ end[p].state # "DETECT"
  /\ line' = [line EXCEPT ![p] = Tail(@)]
  /\ UNCHANGED <<unwritten, faults>>

Frame(p) == Head(line[p])[1]

\* While it looks for patterns an end does not look for frames.
Ignore(p) ==
  /\ line[p] # <<>> /\ end[p].state = "DETECT"
  /\ line' = [line EXCEPT ![p] = Tail(@)]
  /\ UNCHANGED <<end, unwritten, waiting, read, delivered, behind, faults>>

\* What comes behind the piece of the first frame in the octets that the
\* application gets: the piece of each I frame merged with it, behind its
\* header, or the header of another frame only, which is 0.
Behind(merged) ==
  [i \in 1 .. Len(merged) - 1 |->
     IF merged[i + 1].type = "I" THEN merged[i + 1].piece ELSE 0]

\* Mutant: the number of the frame is not looked at.
ExpectedAny(s, f) == s.state = "DATA"

Expected(s, f) == s.state = "DATA" /\ f.ns = s.next_expected_frame

ReceiveI(p) ==
  LET s == end[p]
      f == Frame(p)
      a == AckRx([s EXCEPT !.next_expected_frame = (@ + 1) % Mod], f.nr)
      b == IF f.pf THEN Rr(a, TRUE) ELSE a
      c == IF b.last_frame_we_acknowledged # b.next_expected_frame THEN Rr(b, FALSE) ELSE b
  IN
  /\ Arrives(p, "I")
  /\ end' = [end EXCEPT ![p] =
       IF s.state # "DATA" THEN s
       ELSE IF Expected(s, f) THEN c
       ELSE IF (s.next_expected_frame - f.ns) % Mod < Window THEN Rr(s, FALSE)
       ELSE Reject(s)]
  /\ delivered' = [delivered EXCEPT ![p] = IF Expected(s, f) THEN f.piece ELSE @]
  /\ behind' = [behind EXCEPT ![p] = IF Expected(s, f) THEN Behind(Head(line[p])) ELSE @]
  /\ UNCHANGED <<waiting, read>>

ReceiveRr(p) ==
  LET s == end[p]
      a == AckRx(s, Frame(p).nr)
      b == IF a.solicit_f_bit THEN a ELSE Rr(a, TRUE)
  IN
  /\ Arrives(p, "RR")
  /\ end' = [end EXCEPT ![p] =
       IF s.state # "DATA" THEN s
       ELSE IF Frame(p).pf THEN [b EXCEPT !.solicit_f_bit = FALSE] ELSE a]
  /\ UNCHANGED <<waiting, read, delivered, behind>>

ReceiveRej(p) ==
  LET s == end[p] IN
  /\ Arrives(p, "REJ")
  /\ end' = [end EXCEPT ![p] =
       IF s.state # "DATA" THEN s
       ELSE Retransmit(IF Frame(p).pf THEN Rr(s, TRUE) ELSE s, Frame(p).nr)]
  /\ UNCHANGED <<waiting, read, delivered, behind>>

\* lapm_link_up takes the first piece from tx_queue.
ComesUp(p, s) ==
  /\ end' = [end EXCEPT ![p] = LinkUp(s, Pending(p), read[p] + 1)]
  /\ Take(p, Pending(p))
  /\ UNCHANGED <<delivered, behind>>

ReceiveSabme(p) ==
  /\ Arrives(p, "SABME")
  /\ ComesUp(p, TxFrame(end[p], UFrame("UA")))

ReceiveUa(p) ==
  /\ Arrives(p, "UA")
  /\ IF end[p].state = "ESTABLISH" THEN ComesUp(p, end[p])
     ELSE UNCHANGED <<end, waiting, read, delivered, behind>>

ReceiveDisc(p) ==
  /\ Arrives(p, "DISC")
  /\ end' = [end EXCEPT ![p] = Reset(TxFrame(end[p], UFrame("UA")))]
  /\ UNCHANGED <<waiting, read, delivered, behind>>

\* With the final bit the link is taken down first; without it the timers
\* of the old link go on.
ReceiveDm(p) ==
  /\ Arrives(p, "DM")
  /\ end' = [end EXCEPT ![p] = Restart(IF Frame(p).pf THEN Reset(@) ELSE @)]
  /\ UNCHANGED <<waiting, read, delivered, behind>>

-----------------------------------------------------------------------------
(* span_schedule_update: a callback is cleared before it is called.         *)

T401Expired(s) ==
  LET f == [Head(s.txqueue) EXCEPT !.nr = s.next_expected_frame, !.pf = TRUE]
      r == [s EXCEPT !.txqueue[1] = f, !.solicit_f_bit = TRUE, !.retransmissions = @ + 1,
                     !.last_frame_we_acknowledged = s.next_expected_frame]
  IN IF s.txqueue = <<>> THEN s
     ELSE IF r.retransmissions <= N_400 THEN StartT401(TxFrame(r, f), "t401")
     ELSE Restart(Reset(r))

T403Expired(s) ==
  StartT401(Rr([s EXCEPT !.retransmissions = 0, !.solicit_f_bit = TRUE], TRUE), "t401")

Fire(p, callback, Handler(_)) ==
  /\ \E i \in 1 .. Slots :
       /\ end[p].sched[i] = callback
       /\ end' = [end EXCEPT ![p] = Handler([@ EXCEPT !.sched[i] = "none"])]
  /\ UNCHANGED <<line, unwritten, waiting, read, delivered, behind>>

FireSabme(p) == Fire(p, "sabme", SendSabme) /\ UNCHANGED faults
FireT400(p) ==
  Fire(p, "t400", LAMBDA s : [s EXCEPT !.t400 = 0, !.state = "UNSUPPORTED"]) /\ UNCHANGED faults

\* Mutant: the handle of the expired timer is kept.
FireT401Kept(p) == UNCHANGED faults /\ Fire(p, "t401", T401Expired)

FireT401(p) == UNCHANGED faults /\ Fire(p, "t401", LAMBDA s : T401Expired([s EXCEPT !.t401 = 0]))
FireT403(p) == Fault /\ Fire(p, "t403", LAMBDA s : T403Expired([s EXCEPT !.t403 = 0]))

-----------------------------------------------------------------------------
Application(p) == Write(p) \/ Release(p) \/ StartAgain(p)
Receive(p) ==
  \/ ReceiveI(p) \/ ReceiveRr(p) \/ ReceiveRej(p) \/ ReceiveSabme(p) \/ ReceiveUa(p)
  \/ ReceiveDisc(p) \/ ReceiveDm(p) \/ Ignore(p)
Transmit(p) == BeginCrc(p) \/ EndFrame(p)
Timers(p) == FireSabme(p) \/ FireT400(p) \/ FireT401(p) \/ FireT403(p)

Next ==
  \/ SeeOdp \/ SendAdp \/ SeeAdp
  \/ \E p \in Peer :
       Application(p) \/ Transmit(p) \/ Receive(p) \/ Timers(p) \/ Corrupt(p) \/ Inject(p)

Spec == Init /\ [][Next]_vars

\* The application calls span_schedule_update for ever.
FairSpec == Spec /\ \A p \in Peer : WF_vars(FireSabme(p)) /\ WF_vars(FireT400(p))

-----------------------------------------------------------------------------
Handles == 0 .. Slots

Ends ==
  [state : {"DETECT", "ESTABLISH", "DATA", "RELEASE", "UNSUPPORTED"},
   next_tx_frame : Numbers, last_frame_peer_acknowledged : Numbers,
   next_expected_frame : Numbers, last_frame_we_acknowledged : Numbers,
   solicit_f_bit : BOOLEAN, retransmissions : 0 .. N_400 + 1,
   txqueue : Seq(Frames), tx_last : {"null", "tail", "freed"},
   buffer : Seq(Frames), crc : BOOLEAN,
   sched : [1 .. Slots -> {"none", "sabme", "t401", "t403", "t400"}],
   t400 : Handles, t401 : Handles, t403 : Handles,
   detect : BOOLEAN, odp_seen : BOOLEAN, txadps : 0 .. Adps]

\* Types; no end tries more often than N_400 times without an answer.
TypeOK ==
  /\ end \in [Peer -> Ends]
  /\ line \in [Peer -> Seq(Seq(Frames) \ {<<>>})]
  /\ unwritten \in [Peer -> Nat] /\ waiting \in [Peer -> Nat]
  /\ read \in [Peer -> Nat] /\ delivered \in [Peer -> Nat]
  /\ behind \in [Peer -> Seq(Nat)]
  /\ faults \in Nat

\* A timer handle is that of a live callback of its kind and every live
\* callback has a handle: no timer of an earlier link, or of a frame that was
\* acknowledged, goes off later (t401_timer, t403_timer and t400_timer are
\* copied, forgotten, reused and cleared in nine functions). T401 and T403 never
\* run both, though T403 expiring starts T401 without looking whether it runs.
TimersOwned ==
  \A p \in Peer : LET s == end[p] IN
    /\ s.t401 # 0 => s.sched[s.t401] \in {"sabme", "t401"}
    /\ s.t403 # 0 => s.sched[s.t403] = "t403"
    /\ s.t400 # 0 => s.sched[s.t400] = "t400"
    /\ \A i \in 1 .. Slots : s.sched[i] # "none" => i \in {s.t400, s.t401, s.t403}
    /\ s.t401 = 0 \/ s.t403 = 0

\* While tx_last is not dangling, txqueue holds exactly the frames numbered
\* from the last one acknowledged up to the next to be sent, through resets,
\* rejects and late acknowledgements.
OutstandingNumbered ==
  \A p \in Peer : LET s == end[p] IN
    /\ s.tx_last = "tail" =>
         /\ s.txqueue # <<>>
         /\ s.next_tx_frame = (s.last_frame_peer_acknowledged + Len(s.txqueue)) % Mod
         /\ \A i \in DOMAIN s.txqueue :
              s.txqueue[i].ns = (s.last_frame_peer_acknowledged + i - 1) % Mod
    /\ s.tx_last # "tail" => s.txqueue = <<>>

\* An end that keeps frames for retransmission has a timer that will look
\* at them: T401, or T403 when lapm_link_up has stopped T401 again.
OutstandingSupervised ==
  \A p \in Peer : end[p].txqueue # <<>> => end[p].t401 # 0 \/ end[p].t403 # 0

\* Neither the detection of V.42 nor the set-up of the link goes on for ever,
\* whatever the line loses.
SetUpEnds ==
  \A p \in Peer :
    end[p].state \in {"DETECT", "ESTABLISH"} ~> end[p].state \notin {"DETECT", "ESTABLISH"}

\* What the application gets in a call begins with a piece that was handed over
\* at the other end, in order and never twice; only header octets and other
\* pieces that were handed over there come behind it.
Stream == INSTANCE LossyStream
ImplementsStream == Stream!Spec

\* All the octets that the application gets are those handed over at the other
\* end, in order and once, as long as that end has no cause to repeat a frame:
\* the test of V.42 reports any other octet as a mismatch.
Given(p) == <<delivered[p]>> \o behind[p]
InOrderOnce ==
  [][\A p \in Peer :
       LET had == Given(p)  has == Given(p)' IN
       has # had /\ end[Other(p)].retransmissions = 0 =>
         \A i \in DOMAIN has : has[i] > IF i = 1 THEN had[Len(had)] ELSE has[i - 1]]_vars
=============================================================================
