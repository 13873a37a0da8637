----------------------------- MODULE LapmProofs -----------------------------
(***************************************************************************)
(* A V.42 end, for any number of retries, pieces, restarts, lost frames    *)
(* and slots, and any modulus: its timers are owned and the frames it      *)
(* keeps for retransmission supervised; its values keep their types; its   *)
(* queue holds the frames between the last one acknowledged and the next;  *)
(* and two ends implement LossyStream, in both directions.                 *)
(*                                                                         *)
(* An end is changed by operators that take and return its record. There   *)
(* is one lemma for each operator and each of the four invariants, and one *)
(* for each group of actions, which only composes them.                    *)
(***************************************************************************)
EXTENDS Lapm, TLAPS, FiniteSetTheorems, WellFoundedInduction, SequenceTheorems

-----------------------------------------------------------------------------
(* Timers. Of an end only the fields in Fields matter.                       *)


Fields == {"t400", "t401", "t403", "sched", "txqueue", "state", "detect"}
Callbacks == {"none", "sabme", "t401", "t403", "t400"}

\* An end whose fields matter as those of s do.
Same(s, t) ==
  /\ Fields \subseteq DOMAIN t
  /\ t.t400 = s.t400 /\ t.t401 = s.t401 /\ t.t403 = s.t403 /\ t.sched = s.sched
  /\ t.txqueue = s.txqueue /\ t.state = s.state /\ t.detect = s.detect

Shape(s) ==
  /\ Fields \subseteq DOMAIN s
  /\ s.sched \in [1 .. Slots -> Callbacks]
  /\ s.t400 \in Handles /\ s.t401 \in Handles /\ s.t403 \in Handles

Covered(s) == \A i \in 1 .. Slots : s.sched[i] # "none" => i \in {s.t400, s.t401, s.t403}

Owned(s) ==
  /\ s.t401 # 0 => s.sched[s.t401] \in {"sabme", "t401"}
  /\ s.t403 # 0 => s.sched[s.t403] = "t403"
  /\ s.t400 # 0 => s.sched[s.t400] = "t400"
  /\ Covered(s)
  /\ s.t401 = 0 \/ s.t403 = 0

Supervised(s) == s.txqueue # <<>> => s.t401 # 0 \/ s.t403 # 0

\* SABME is repeated for a link that is not up and has nothing to retransmit.
Calling(s) ==
  (s.t401 # 0 /\ s.sched[s.t401] = "sabme") => s.state # "DATA" /\ s.txqueue = <<>>

\* T400 is only used where the ends detect each other.
Detecting(s) == s.detect \in BOOLEAN /\ (~s.detect => s.t400 = 0)

EndInv(s) == Shape(s) /\ Owned(s) /\ Supervised(s) /\ Calling(s) /\ Detecting(s)

\* An end between its steps: as EndInv, but possibly with a queue and no timer.
Between(s) == Shape(s) /\ Owned(s) /\ Calling(s) /\ Detecting(s)

Inv == DOMAIN end = Peer /\ \A p \in Peer : EndInv(end[p])

-----------------------------------------------------------------------------
\* A step that leaves the fields alone.
LEMMA SameKeeps ==
  ASSUME NEW s, NEW t, Same(s, t)
  PROVE  /\ EndInv(s) => EndInv(t)
         /\ Between(s) => Between(t)
BY DEF Same, EndInv, Between, Shape, Owned, Covered, Supervised, Calling, Detecting

\* Sending a frame.
LEMMA TxFrameSame ==
  ASSUME NEW s, NEW f, Fields \subseteq DOMAIN s
  PROVE  Same(s, TxFrame(s, f))
BY DEF TxFrame, Same, Fields

LEMMA RrSame ==
  ASSUME NEW s, NEW pf, Fields \subseteq DOMAIN s
  PROVE  Same(s, Rr(s, pf))
<1> DEFINE t == [s EXCEPT !.last_frame_we_acknowledged = s.next_expected_frame]
<1>1. Same(s, t)  BY DEF Same, Fields
<1>2. Same(t, TxFrame(t, SFrame("RR", s, pf)))  BY <1>1, TxFrameSame DEF Same
<1>3. Rr(s, pf) = TxFrame(t, SFrame("RR", s, pf))  BY DEF Rr
<1> QED  BY <1>1, <1>2, <1>3 DEF Same

LEMMA RejectSame ==
  ASSUME NEW s, Fields \subseteq DOMAIN s
  PROVE  Same(s, Reject(s))
BY TxFrameSame DEF Reject

-----------------------------------------------------------------------------
\* Three timers leave one of four slots free.
LEMMA SlotFree ==
  ASSUME NEW s, Shape(s), Covered(s)
  PROVE  FreeSlot(s) \in 1 .. Slots /\ s.sched[FreeSlot(s)] = "none"
<1> DEFINE Free(i) == i \in 1 .. Slots /\ s.sched[i] = "none"
                      /\ \A j \in 1 .. i - 1 : s.sched[j] # "none"
<1>1. {1, 2, 3, 4} \subseteq 1 .. Slots  BY LapmAssumption
<1>2. \E i \in {1, 2, 3, 4} : s.sched[i] = "none"
  <2>1. SUFFICES ASSUME \A i \in {1, 2, 3, 4} : s.sched[i] # "none"  PROVE FALSE
    OBVIOUS
  <2>2. \A i \in {1, 2, 3, 4} : i \in {s.t400, s.t401, s.t403}  BY <2>1, <1>1 DEF Covered
  <2> QED  BY <2>2
<1>3. \E i \in {1, 2, 3, 4} : Free(i)
  <2>1. CASE s.sched[1] = "none"  BY <2>1, <1>1
  <2>2. CASE s.sched[1] # "none" /\ s.sched[2] = "none"  BY <2>2, <1>1
  <2>3. CASE s.sched[1] # "none" /\ s.sched[2] # "none" /\ s.sched[3] = "none"  BY <2>3, <1>1
  <2>4. CASE s.sched[1] # "none" /\ s.sched[2] # "none" /\ s.sched[3] # "none"
    BY <2>4, <1>1, <1>2
  <2> QED  BY <2>1, <2>2, <2>3, <2>4
<1>4. Free(CHOOSE i \in 1 .. Slots : s.sched[i] = "none" /\ \A j \in 1 .. i - 1 : s.sched[j] # "none")
  BY <1>1, <1>3
<1> QED  BY <1>4 DEF FreeSlot

\* Stopping a timer frees its slot.
LEMMA StopT400Keeps ==
  ASSUME NEW s, EndInv(s)
  PROVE  /\ EndInv(StopT400(s)) /\ StopT400(s).t400 = 0
<1> DEFINE t == StopT400(s)
<1>1. CASE s.t400 = 0
  BY <1>1 DEF StopT400, EndInv, Between
<1>2. CASE s.t400 # 0
  <2>1. /\ Fields \subseteq DOMAIN t
        /\ t.t400 = 0 /\ t.t401 = s.t401 /\ t.t403 = s.t403
        /\ t.sched = [s.sched EXCEPT ![s.t400] = "none"]
        /\ t.txqueue = s.txqueue /\ t.state = s.state /\ t.detect = s.detect
    BY <1>2 DEF StopT400, EndInv, Shape, Fields
  <2>2. s.t400 \in 1 .. Slots
    BY <1>2, LapmAssumption DEF EndInv, Shape, Handles
  <2> HIDE DEF t
  <2>3. t.sched \in [1 .. Slots -> Callbacks]
    BY <2>1, <2>2 DEF EndInv, Shape, Callbacks
  <2>4. Shape(t)
    BY <2>1, <2>3, LapmAssumption DEF EndInv, Shape, Handles
  <2>5. Covered(t)
    BY <2>1, <2>2 DEF EndInv, Shape, Owned, Covered
  <2>6. Owned(t)
    BY <2>1, <2>2, <2>5 DEF EndInv, Shape, Owned, Covered, Handles
  <2>7. Calling(t) /\ Detecting(t)
    BY <2>1, <2>2 DEF EndInv, Shape, Owned, Calling, Detecting, Handles
  <2> QED  BY <2>1, <2>4, <2>6, <2>7 DEF EndInv, Between, Supervised, t
<1> QED  BY <1>1, <1>2

LEMMA StopT401Keeps ==
  ASSUME NEW s, Between(s)
  PROVE  LET t == StopT401(s) IN
         /\ Between(t) /\ t.t401 = 0 /\ t.t403 = s.t403
         /\ t.txqueue = s.txqueue /\ t.state = s.state /\ t.detect = s.detect
<1> DEFINE t == StopT401(s)
<1>1. CASE s.t401 = 0
  BY <1>1 DEF StopT401, EndInv, Between
<1>2. CASE s.t401 # 0
  <2>1. /\ Fields \subseteq DOMAIN t
        /\ t.t401 = 0 /\ t.t400 = s.t400 /\ t.t403 = s.t403
        /\ t.sched = [s.sched EXCEPT ![s.t401] = "none"]
        /\ t.txqueue = s.txqueue /\ t.state = s.state /\ t.detect = s.detect
    BY <1>2 DEF StopT401, Between, Shape, Fields
  <2>2. s.t401 \in 1 .. Slots
    BY <1>2, LapmAssumption DEF Between, Shape, Handles
  <2> HIDE DEF t
  <2>3. t.sched \in [1 .. Slots -> Callbacks]
    BY <2>1, <2>2 DEF Between, Shape, Callbacks
  <2>4. Shape(t)
    BY <2>1, <2>3, LapmAssumption DEF Between, Shape, Handles
  <2>5. Covered(t)
    BY <2>1, <2>2 DEF Between, Shape, Owned, Covered
  <2>6. Owned(t)
    BY <2>1, <2>2, <2>5 DEF Between, Shape, Owned, Covered, Handles
  <2>7. Calling(t) /\ Detecting(t)
    BY <2>1, <2>2 DEF Between, Shape, Owned, Calling, Detecting, Handles
  <2> QED  BY <2>1, <2>4, <2>6, <2>7 DEF EndInv, Between, Supervised, t
<1> QED  BY <1>1, <1>2

LEMMA StopT403Keeps ==
  ASSUME NEW s, Between(s)
  PROVE  LET t == StopT403(s) IN
         /\ Between(t) /\ t.t403 = 0 /\ t.t401 = s.t401
         /\ t.txqueue = s.txqueue /\ t.state = s.state /\ t.detect = s.detect
<1> DEFINE t == StopT403(s)
<1>1. CASE s.t403 = 0
  BY <1>1 DEF StopT403, EndInv, Between
<1>2. CASE s.t403 # 0
  <2>1. /\ Fields \subseteq DOMAIN t
        /\ t.t403 = 0 /\ t.t400 = s.t400 /\ t.t401 = s.t401
        /\ t.sched = [s.sched EXCEPT ![s.t403] = "none"]
        /\ t.txqueue = s.txqueue /\ t.state = s.state /\ t.detect = s.detect
    BY <1>2 DEF StopT403, Between, Shape, Fields
  <2>2. s.t403 \in 1 .. Slots
    BY <1>2, LapmAssumption DEF Between, Shape, Handles
  <2> HIDE DEF t
  <2>3. t.sched \in [1 .. Slots -> Callbacks]
    BY <2>1, <2>2 DEF Between, Shape, Callbacks
  <2>4. Shape(t)
    BY <2>1, <2>3, LapmAssumption DEF Between, Shape, Handles
  <2>5. Covered(t)
    BY <2>1, <2>2 DEF Between, Shape, Owned, Covered
  <2>6. Owned(t)
    BY <2>1, <2>2, <2>5 DEF Between, Shape, Owned, Covered, Handles
  <2>7. Calling(t) /\ Detecting(t)
    BY <2>1, <2>2 DEF Between, Shape, Owned, Calling, Detecting, Handles
  <2> QED  BY <2>1, <2>4, <2>6, <2>7 DEF EndInv, Between, Supervised, t
<1> QED  BY <1>1, <1>2

\* Starting one where neither runs.
LEMMA StartT401Keeps ==
  ASSUME NEW s, Between(s), s.t401 = 0, s.t403 = 0, NEW c \in {"sabme", "t401"},
         c = "sabme" => s.state # "DATA" /\ s.txqueue = <<>>
  PROVE  EndInv(StartT401(s, c))
<1> DEFINE i == FreeSlot(s)
           t == StartT401(s, c)
<1>1. i \in 1 .. Slots /\ s.sched[i] = "none"
  BY SlotFree DEF Between, Owned
<1> HIDE DEF i
<1>2. /\ Fields \subseteq DOMAIN t
      /\ t.t401 = i /\ t.t400 = s.t400 /\ t.t403 = 0
      /\ t.sched = [s.sched EXCEPT ![i] = c]
      /\ t.txqueue = s.txqueue /\ t.state = s.state /\ t.detect = s.detect
  BY DEF StartT401, Between, Shape, Fields, i
<1> HIDE DEF t
<1>3. i # 0 /\ i \in Handles
  BY <1>1, LapmAssumption DEF Handles
<1>4. t.sched \in [1 .. Slots -> Callbacks]
  BY <1>1, <1>2 DEF Between, Shape, Callbacks
<1>5. Shape(t)
  BY <1>2, <1>3, <1>4, LapmAssumption DEF Between, Shape, Handles
<1>6. Covered(t)
  BY <1>1, <1>2 DEF Between, Shape, Owned, Covered
<1>7. t.sched[i] = c /\ (s.t400 # 0 => s.t400 # i /\ t.sched[s.t400] = "t400")
  <2>1. s.sched \in [1 .. Slots -> Callbacks] /\ s.t400 \in 0 .. Slots
    BY DEF Between, Shape, Handles
  <2>2. s.t400 # 0 => s.t400 \in 1 .. Slots /\ s.t400 # i /\ s.sched[s.t400] = "t400"
    BY <1>1, <2>1, LapmAssumption DEF Between, Owned
  <2> QED  BY <1>1, <1>2, <2>1, <2>2
<1>8. Owned(t)
  BY <1>2, <1>6, <1>7 DEF Owned
<1>9. Supervised(t) /\ Calling(t) /\ Detecting(t)
  BY <1>2, <1>3, <1>7 DEF Between, Supervised, Calling, Detecting
<1> QED  BY <1>5, <1>8, <1>9 DEF EndInv, t

LEMMA StartT403Keeps ==
  ASSUME NEW s, Between(s), s.t401 = 0, s.t403 = 0
  PROVE  EndInv(StartT403(s))
<1> DEFINE i == FreeSlot(s)
           t == StartT403(s)
<1>1. i \in 1 .. Slots /\ s.sched[i] = "none"
  BY SlotFree DEF Between, Owned
<1> HIDE DEF i
<1>2. /\ Fields \subseteq DOMAIN t
      /\ t.t403 = i /\ t.t400 = s.t400 /\ t.t401 = 0
      /\ t.sched = [s.sched EXCEPT ![i] = "t403"]
      /\ t.txqueue = s.txqueue /\ t.state = s.state /\ t.detect = s.detect
  BY DEF StartT403, Between, Shape, Fields, i
<1> HIDE DEF t
<1>3. i # 0 /\ i \in Handles
  BY <1>1, LapmAssumption DEF Handles
<1>4. t.sched \in [1 .. Slots -> Callbacks]
  BY <1>1, <1>2 DEF Between, Shape, Callbacks
<1>5. Shape(t)
  BY <1>2, <1>3, <1>4, LapmAssumption DEF Between, Shape, Handles
<1>6. Covered(t)
  BY <1>1, <1>2 DEF Between, Shape, Owned, Covered
<1>7. t.sched[i] = "t403" /\ (s.t400 # 0 => s.t400 # i /\ t.sched[s.t400] = "t400")
  <2>1. s.sched \in [1 .. Slots -> Callbacks] /\ s.t400 \in 0 .. Slots
    BY DEF Between, Shape, Handles
  <2>2. s.t400 # 0 => s.t400 \in 1 .. Slots /\ s.t400 # i /\ s.sched[s.t400] = "t400"
    BY <1>1, <2>1, LapmAssumption DEF Between, Owned
  <2> QED  BY <1>1, <1>2, <2>1, <2>2
<1>8. Owned(t)
  BY <1>2, <1>6, <1>7 DEF Owned
<1>9. Supervised(t) /\ Calling(t) /\ Detecting(t)
  BY <1>2, <1>3, <1>7 DEF Between, Supervised, Calling, Detecting
<1> QED  BY <1>5, <1>8, <1>9 DEF EndInv, t

-----------------------------------------------------------------------------
\* An I frame is sent, and T401 runs.
LEMMA TxIframeKeeps ==
  ASSUME NEW s, NEW n, Between(s), s.state = "DATA"
  PROVE  EndInv(TxIframe(s, n)) /\ TxIframe(s, n).t401 # 0
<1> DEFINE f == IFrame(s, n)
           q == [s EXCEPT !.next_tx_frame = (@ + 1) % Mod,
                          !.last_frame_we_acknowledged = s.next_expected_frame,
                          !.txqueue = IF s.tx_last = "freed" THEN @ ELSE Append(@, f),
                          !.tx_last = IF @ = "freed" THEN @ ELSE "tail"]
           x == IF s.retransmissions = 0 THEN TxFrame(q, f) ELSE q
           t == StopT403(x)
<1>1. Between(q) /\ q.state = "DATA"
  BY DEF Between, Shape, Owned, Covered, Calling, Detecting, Fields
<1>2. Between(x) /\ x.state = "DATA"
  <2> HIDE DEF q, f
  <2>1. Same(q, TxFrame(q, f))  BY <1>1, TxFrameSame DEF Between, Shape
  <2>2. Between(TxFrame(q, f)) /\ TxFrame(q, f).state = "DATA"
    <3>1. Between(q) => Between(TxFrame(q, f))  BY <2>1, SameKeeps
    <3> QED  BY <1>1, <2>1, <3>1 DEF Same
  <2> QED  BY <1>1, <2>2
<1>3. Between(t) /\ t.t403 = 0 /\ t.state = "DATA"  BY <1>2, StopT403Keeps
<1>4. TxIframe(s, n) = IF t.t401 = 0 THEN StartT401(t, "t401") ELSE t  BY DEF TxIframe
<1>5. CASE t.t401 = 0
  <2>1. EndInv(StartT401(t, "t401"))  BY <1>3, <1>5, StartT401Keeps
  <2>2. FreeSlot(t) \in 1 .. Slots  BY <1>3, SlotFree DEF Between, Owned
  <2>3. StartT401(t, "t401").t401 # 0
    BY <1>3, <2>2, LapmAssumption DEF StartT401, Between, Shape, Fields
  <2> QED  BY <1>4, <1>5, <2>1, <2>3
<1>6. CASE t.t401 # 0
  BY <1>3, <1>4, <1>6 DEF EndInv, Between, Supervised
<1> QED  BY <1>5, <1>6

\* lapm_reset and lapm_link_down.
LEMMA ResetKeeps ==
  ASSUME NEW s, Between(s)
  PROVE  LET t == Reset(s) IN
         /\ EndInv(t) /\ t.t401 = 0 /\ t.t403 = 0 /\ t.txqueue = <<>>
         /\ t.state = "RELEASE" /\ t.detect = s.detect
<1> DEFINE a == StopT401(s)
           b == StopT403(a)
<1>1. Between(a) /\ a.t401 = 0 /\ a.detect = s.detect  BY StopT401Keeps
<1>2. Between(b) /\ b.t401 = 0 /\ b.t403 = 0 /\ b.detect = s.detect  BY <1>1, StopT403Keeps
<1> HIDE DEF b
<1>3. Reset(s) = [b EXCEPT
     !.next_tx_frame = 0, !.last_frame_peer_acknowledged = 0,
     !.next_expected_frame = 0, !.last_frame_we_acknowledged = 0,
     !.solicit_f_bit = FALSE, !.state = "RELEASE", !.retransmissions = 0,
     !.txqueue = <<>>, !.tx_last = IF @ = "null" THEN @ ELSE "freed"]  BY DEF Reset, b
<1> QED  BY <1>2, <1>3
  DEF EndInv, Between, Shape, Owned, Covered, Supervised, Calling, Detecting, Fields

\* SABME is sent again, or no more.
LEMMA SendSabmeKeeps ==
  ASSUME NEW s, Fields \subseteq DOMAIN s,
         LET t == StopT401(s) IN
         Between(t) /\ t.t401 = 0 /\ t.t403 = 0 /\ t.txqueue = <<>> /\ t.state # "DATA"
  PROVE  EndInv(SendSabme(s))
<1> DEFINE t == StopT401(s)
           r == [t EXCEPT !.retransmissions = @ + 1]
           u == StartT401(r, "sabme")
<1>1. Between(r) /\ r.t401 = 0 /\ r.t403 = 0 /\ r.txqueue = <<>> /\ r.state # "DATA"
  BY DEF Between, Shape, Owned, Covered, Calling, Detecting, Fields
<1>2. EndInv(u)  BY <1>1, StartT401Keeps
<1>3. EndInv(TxFrame(u, UFrame("SABME")))
  BY <1>2, TxFrameSame, SameKeeps DEF EndInv, Shape
<1>4. EndInv([r EXCEPT !.state = "RELEASE"])
  BY <1>1 DEF EndInv, Between, Shape, Owned, Covered, Supervised, Calling, Detecting, Fields
<1> QED  BY <1>3, <1>4 DEF SendSabme

\* The link is set up anew after its timers were stopped.
LEMMA RestartKeeps ==
  ASSUME NEW s, Between(s), s.t401 = 0, s.t403 = 0
  PROVE  EndInv(Restart(s))
<1> DEFINE a == [s EXCEPT !.buffer = <<>>, !.crc = FALSE, !.t401 = 0, !.t403 = 0]
           b == Reset(a)
<1>1. Between(a)  BY DEF Between, Shape, Owned, Covered, Calling, Detecting, Fields
<1>2. EndInv(b) /\ b.t401 = 0 /\ b.t403 = 0 /\ b.txqueue = <<>> /\ b.state = "RELEASE"
  BY <1>1, ResetKeeps
<1>3. StopT401(b) = b  BY <1>2 DEF StopT401
<1>4. EndInv(SendSabme(b))  BY <1>2, <1>3, SendSabmeKeeps DEF EndInv, Between, Shape
<1> QED  BY <1>4 DEF Restart

\* v42_restart empties the scheduler first.
LEMMA V42RestartKeeps ==
  ASSUME NEW s, Shape(s), Detecting(s)
  PROVE  EndInv(V42Restart(s))
<1> DEFINE None == [i \in 1 .. Slots |-> "none"]
           z == [s EXCEPT !.sched = None]
           a == [z EXCEPT !.buffer = <<>>, !.crc = FALSE, !.t401 = 0, !.t403 = 0]
           b == Reset(a)
           c == [b EXCEPT !.retransmissions = @ + 1]
           r == Restart(z)
           Quiet(t) == /\ Fields \subseteq DOMAIN t
                       /\ t.sched = None /\ t.t400 = s.t400 /\ t.detect = s.detect
                       /\ t.t401 = 0 /\ t.t403 = 0
           Begun(t) == /\ Fields \subseteq DOMAIN t
                       /\ t.t400 = s.t400 /\ t.detect = s.detect
                       /\ t.t403 = 0 /\ t.txqueue = <<>> /\ t.state # "DATA"
                       /\ \/ t.t401 = 0 /\ t.sched = None
                          \/ /\ t.t401 \in 1 .. Slots
                             /\ t.sched = [None EXCEPT ![t.t401] = "sabme"]
<1>1. Quiet(a)  BY DEF Shape, Fields
<1>2. Quiet(b) /\ b.txqueue = <<>> /\ b.state # "DATA"
  <2> HIDE DEF a, None
  <2>1. StopT401(a) = a /\ StopT403(a) = a  BY <1>1 DEF StopT401, StopT403
  <2> QED  BY <1>1, <2>1 DEF Reset, Fields
<1>3. Quiet(c) /\ c.txqueue = <<>> /\ c.state # "DATA"
  <2> HIDE DEF b, None
  <2> QED  BY <1>2 DEF Fields
<1>4. StopT401(b) = b
  <2> HIDE DEF b
  <2> QED  BY <1>2 DEF StopT401
<1> HIDE DEF b
<1>5. r = IF c.retransmissions > N_400 THEN [c EXCEPT !.state = "RELEASE"]
          ELSE TxFrame(StartT401(c, "sabme"), UFrame("SABME"))
  BY <1>4 DEF Restart, SendSabme, b
<1>6. FreeSlot(c) \in 1 .. Slots
  <2> HIDE DEF c
  <2>1. Shape(c) /\ Covered(c)  BY <1>3, LapmAssumption DEF Shape, Covered, Handles, Callbacks
  <2> QED  BY <2>1, SlotFree
<1>7. Begun(r)
  <2> HIDE DEF c
  <2>1. Begun([c EXCEPT !.state = "RELEASE"])
    <3> HIDE DEF None
    <3> QED  BY <1>3 DEF Fields
  <2>2. Begun(StartT401(c, "sabme"))
    <3> HIDE DEF None
    <3> QED  BY <1>3, <1>6, LapmAssumption DEF StartT401, Fields
  <2>3. Begun(TxFrame(StartT401(c, "sabme"), UFrame("SABME")))
    <3> DEFINE u == StartT401(c, "sabme")
    <3> HIDE DEF u, None
    <3>1. Begun(u)  BY <2>2 DEF u
    <3>2. Same(u, TxFrame(u, UFrame("SABME")))  BY <3>1, TxFrameSame
    <3>3. Begun(TxFrame(u, UFrame("SABME")))  BY <3>1, <3>2 DEF Same
    <3> QED  BY <3>3 DEF u
  <2> QED  BY <1>5, <2>1, <2>3
<1> HIDE DEF r, z
<1>8. Shape(r) /\ Covered(r)
  <2>1. Fields \subseteq DOMAIN r /\ r.t401 \in Handles /\ r.t403 \in Handles /\ r.t400 \in Handles
    BY <1>7, LapmAssumption DEF Shape, Handles
  <2>2. None \in [1 .. Slots -> Callbacks] /\ \A i \in 1 .. Slots : None[i] = "none"
    BY DEF Callbacks
  <2> HIDE DEF None
  <2>3. r.sched \in [1 .. Slots -> Callbacks] /\ \A i \in 1 .. Slots : r.sched[i] # "none" => i = r.t401
    BY <1>7, <2>2 DEF Callbacks
  <2> QED  BY <2>1, <2>3 DEF Shape, Covered
<1>9. FreeSlot(r) \in 1 .. Slots /\ r.sched[FreeSlot(r)] = "none"  BY <1>8, SlotFree
<1>10. CASE s.detect
  <2> DEFINE i == FreeSlot(r)
             w == [r EXCEPT !.odp_seen = FALSE, !.txadps = 0,
                            !.sched[i] = "t400", !.t400 = i, !.state = "DETECT"]
  <2>1. V42Restart(s) = w  BY <1>10 DEF V42Restart, r, z
  <2> HIDE DEF i
  <2>2. i \in 1 .. Slots /\ r.sched[i] = "none"  BY <1>9 DEF i
  <2>3. /\ Fields \subseteq DOMAIN w
        /\ w.t400 = i /\ w.t401 = r.t401 /\ w.t403 = 0
        /\ w.txqueue = <<>> /\ w.state = "DETECT" /\ w.detect = TRUE
        /\ w.sched = [r.sched EXCEPT ![i] = "t400"]
    <3> HIDE DEF None
    <3> QED  BY <1>7, <1>10 DEF Fields
  <2> HIDE DEF w
  <2>4. Shape(w)  BY <1>8, <2>2, <2>3, LapmAssumption DEF Shape, Handles, Callbacks
  <2>5. Owned(w)  BY <1>7, <1>8, <2>2, <2>3, LapmAssumption DEF Owned, Covered, Shape, Handles
  <2>6. Supervised(w) /\ Calling(w) /\ Detecting(w)
    BY <2>3, <2>2, LapmAssumption DEF Supervised, Calling, Detecting
  <2> QED  BY <2>1, <2>4, <2>5, <2>6 DEF EndInv
<1>11. CASE ~s.detect
  <2>1. V42Restart(s) = [r EXCEPT !.state = "ESTABLISH"]  BY <1>11 DEF V42Restart, r, z
  <2>2. s.t400 = 0 /\ s.detect \in BOOLEAN  BY <1>11 DEF Detecting
  <2>3. EndInv([r EXCEPT !.state = "ESTABLISH"])
    BY <1>7, <1>8, <1>11, <2>2, LapmAssumption
    DEF EndInv, Shape, Owned, Covered, Supervised, Calling, Detecting, Fields, Handles, Callbacks
  <2> QED  BY <2>1, <2>3
<1> QED  BY <1>10, <1>11

\* The link comes up.
LEMMA LinkUpKeeps ==
  ASSUME NEW s, NEW more, NEW n, Between(s)
  PROVE  EndInv(LinkUp(s, more, n))
<1> DEFINE r == [Reset(s) EXCEPT !.state = "DATA"]
           t == IF more THEN TxIframe(r, n) ELSE r
           u == StopT401(t)
<1>1. Between(r) /\ r.state = "DATA" /\ r.t403 = 0
  BY ResetKeeps DEF EndInv, Between, Shape, Owned, Covered, Calling, Detecting, Fields
<1>2. Between(t) /\ t.t403 = 0
  <2> HIDE DEF r
  <2>1. EndInv(TxIframe(r, n)) /\ TxIframe(r, n).t401 # 0  BY <1>1, TxIframeKeeps
  <2>2. Between(TxIframe(r, n)) /\ TxIframe(r, n).t403 = 0  BY <2>1 DEF EndInv, Between, Owned
  <2> QED  BY <1>1, <2>2
<1>3. Between(u) /\ u.t401 = 0 /\ u.t403 = 0  BY <1>2, StopT401Keeps
<1>4. EndInv(StartT403(u))  BY <1>3, StartT403Keeps
<1> QED  BY <1>4 DEF LinkUp

\* Stopping both timers and starting T403.
LEMMA RestartT403Keeps ==
  ASSUME NEW s, Between(s)
  PROVE  EndInv(StartT403(StopT403(StopT401(s))))
<1>1. Between(StopT401(s)) /\ StopT401(s).t401 = 0  BY StopT401Keeps
<1>2. LET t == StopT403(StopT401(s)) IN Between(t) /\ t.t401 = 0 /\ t.t403 = 0
  BY <1>1, StopT403Keeps
<1> QED  BY <1>2, StartT403Keeps

\* Frames are acknowledged.
LEMMA AckRxKeeps ==
  ASSUME NEW s, NEW ack, EndInv(s), s.state = "DATA"
  PROVE  EndInv(AckRx(s, ack))
<1> DEFINE n == Len(s.txqueue)
           kept == {i \in 1 .. n : ~Acked(s, i, ack)}
           left == Picked(s.txqueue, kept)
           r == [s EXCEPT !.txqueue = left,
                          !.tx_last = IF n \notin kept /\ @ = "tail" THEN "freed" ELSE @,
                          !.retransmissions = IF kept = 1 .. n THEN @ ELSE 0,
                          !.last_frame_peer_acknowledged = ack]
           t == StopT403(r)
<1> HIDE DEF left, kept, n
<1>1. Between(r) /\ r.state = "DATA"
  BY DEF EndInv, Between, Shape, Owned, Covered, Calling, Detecting, Fields
<1> HIDE DEF r
<1>2. Between(t) /\ t.t403 = 0 /\ t.t401 = r.t401  BY <1>1, StopT403Keeps
<1>3. EndInv(StartT403(StopT403(StopT401(r))))  BY <1>1, RestartT403Keeps
<1>4. r.t401 = 0 => EndInv(StartT401(t, "t401"))  BY <1>2, StartT401Keeps
<1>5. r.t401 # 0 => EndInv(t)  BY <1>2 DEF EndInv, Between, Supervised
<1>6. \/ AckRx(s, ack) \in {s, StartT403(StopT403(StopT401(r)))}
      \/ r.t401 = 0 /\ AckRx(s, ack) = StartT401(t, "t401")
      \/ r.t401 # 0 /\ AckRx(s, ack) = t
  BY DEF AckRx, r, left, kept, n
<1> QED  BY <1>3, <1>4, <1>5, <1>6

\* Frames are sent again.
LEMMA RetransmitKeeps ==
  ASSUME NEW s, NEW nr, EndInv(s), s.state = "DATA"
  PROVE  EndInv(Retransmit(s, nr))
<1> DEFINE wanted == {i \in DOMAIN s.txqueue : s.txqueue[i].ns = nr}
           a == [s EXCEPT !.last_frame_peer_acknowledged = nr, !.next_tx_frame = nr]
<1>1. CASE wanted # {}
  <2>1. s.txqueue # <<>>  BY <1>1
  <2>2. PICK q, b : Retransmit(s, nr) = [s EXCEPT !.txqueue = q, !.buffer = b]
    BY <1>1 DEF Retransmit
  <2> QED  BY <2>1, <2>2
    DEF EndInv, Shape, Owned, Covered, Supervised, Calling, Detecting, Fields
<1>2. CASE wanted = {} /\ s.txqueue # <<>>
  <2>1. Retransmit(s, nr) = s  BY <1>2 DEF Retransmit
  <2> QED  BY <2>1
<1>3. CASE wanted = {} /\ s.txqueue = <<>>
  <2>1. Retransmit(s, nr) = StartT403(StopT403(StopT401(a)))  BY <1>3 DEF Retransmit
  <2>2. Between(a)  BY DEF EndInv, Between, Shape, Owned, Covered, Calling, Detecting, Fields
  <2> QED  BY <2>1, <2>2, RestartT403Keeps
<1> QED  BY <1>1, <1>2, <1>3

-----------------------------------------------------------------------------
\* T401 has expired: its callback and its handle are cleared.
LEMMA T401ExpiredKeeps ==
  ASSUME NEW s, Between(s), s.t401 = 0, s.t403 = 0
  PROVE  EndInv(T401Expired(s))
<1> DEFINE f == [Head(s.txqueue) EXCEPT !.nr = s.next_expected_frame, !.pf = TRUE]
           r == [s EXCEPT !.txqueue[1] = f, !.solicit_f_bit = TRUE, !.retransmissions = @ + 1,
                          !.last_frame_we_acknowledged = s.next_expected_frame]
           t == TxFrame(r, f)
<1>1. Between(r) /\ r.t401 = 0 /\ r.t403 = 0
  BY DEF Between, Shape, Owned, Covered, Calling, Detecting, Fields
<1>2. T401Expired(s) = IF s.txqueue = <<>> THEN s
                       ELSE IF r.retransmissions <= N_400 THEN StartT401(t, "t401")
                       ELSE Restart(Reset(r))
  BY DEF T401Expired
<1> HIDE DEF r, f
<1>3. EndInv(StartT401(t, "t401"))
  <2>1. Same(r, t)  BY <1>1, TxFrameSame DEF Between, Shape
  <2>2. Between(r) => Between(t)  BY <2>1, SameKeeps
  <2>3. Between(t) /\ t.t401 = 0 /\ t.t403 = 0  BY <1>1, <2>1, <2>2 DEF Same
  <2> QED  BY <2>3, StartT401Keeps
<1>4. EndInv(Restart(Reset(r)))
  <2>1. Between(Reset(r)) /\ Reset(r).t401 = 0 /\ Reset(r).t403 = 0
    BY <1>1, ResetKeeps DEF EndInv, Between
  <2> QED  BY <2>1, RestartKeeps
<1>5. s.txqueue = <<>> => EndInv(s)  BY DEF EndInv, Between, Supervised
<1> QED  BY <1>2, <1>3, <1>4, <1>5

LEMMA T403ExpiredKeeps ==
  ASSUME NEW s, Between(s), s.t401 = 0, s.t403 = 0
  PROVE  EndInv(T403Expired(s))
<1> DEFINE a == [s EXCEPT !.retransmissions = 0, !.solicit_f_bit = TRUE]
<1>1. Between(a) /\ a.t401 = 0 /\ a.t403 = 0
  BY DEF Between, Shape, Owned, Covered, Calling, Detecting, Fields
<1> HIDE DEF a
<1>2. Same(a, Rr(a, TRUE))  BY <1>1, RrSame DEF Between, Shape
<1>3. Between(a) => Between(Rr(a, TRUE))  BY <1>2, SameKeeps
<1>4. EndInv(StartT401(Rr(a, TRUE), "t401"))
  BY <1>1, <1>2, <1>3, StartT401Keeps DEF Same
<1> QED  BY <1>4 DEF T403Expired, a

-----------------------------------------------------------------------------
\* Another make of modem answers with the final bit when it sends DM: without
\* it lapm_restart forgets timers that still run (v42.c:982-998, 1109).
DmFinal ==
  \A p \in Peer : line[p] # <<>> /\ Frame(p).type = "DM" => Frame(p).pf

\* One end changes.
LEMMA OneChanges ==
  ASSUME Inv, NEW p \in Peer, NEW t, EndInv(t), end' = [end EXCEPT ![p] = t]
  PROVE  Inv'
BY DEF Inv

LEMMA InitInv == Init => Inv
<1> SUFFICES ASSUME Init PROVE Inv  OBVIOUS
<1>1. PICK sc \in Scenarios :
        end = [p \in Peer |-> V42Restart([Cleared EXCEPT !.detect = sc.detect])]
  BY DEF Init
<1> DEFINE s == [Cleared EXCEPT !.detect = sc.detect]
<1>2. Shape(s) /\ Detecting(s)
  <2>1. sc.detect \in BOOLEAN  BY LapmAssumption
  <2>2. /\ Fields \subseteq DOMAIN s /\ s.sched = [i \in 1 .. Slots |-> "none"]
        /\ s.t400 = 0 /\ s.t401 = 0 /\ s.t403 = 0 /\ s.detect = sc.detect
    BY DEF Cleared, Fields
  <2> QED  BY <2>1, <2>2, LapmAssumption DEF Shape, Detecting, Handles, Callbacks
<1>3. EndInv(V42Restart(s))  BY <1>2, V42RestartKeeps
<1> QED  BY <1>1, <1>3 DEF Inv

\* The applications and the detection of V.42.
LEMMA ApplicationInv == ASSUME Inv, NEW p \in Peer, Application(p) PROVE Inv'
<1>1. EndInv(end[p])  BY DEF Inv
<1>2. CASE Write(p)  BY <1>2 DEF Write, Inv
<1>3. CASE Release(p)
  <2> DEFINE t == [end[p] EXCEPT !.state = "RELEASE"]
  <2>1. EndInv(t)
    BY <1>1 DEF EndInv, Shape, Owned, Covered, Supervised, Calling, Detecting, Fields
  <2>2. end' = [end EXCEPT ![p] = t]  BY <1>3 DEF Release
  <2> QED  BY <2>1, <2>2, OneChanges
<1>4. CASE StartAgain(p)
  <2>1. EndInv(V42Restart(end[p]))  BY <1>1, V42RestartKeeps DEF EndInv
  <2>2. end' = [end EXCEPT ![p] = V42Restart(end[p])]  BY <1>4 DEF StartAgain
  <2> QED  BY <2>1, <2>2, OneChanges
<1> QED  BY <1>2, <1>3, <1>4 DEF Application

LEMMA DetectionInv == ASSUME Inv, SeeOdp \/ SendAdp \/ SeeAdp PROVE Inv'
<1>1. Answerer \in Peer /\ Caller \in Peer  BY DEF Peer
<1>2. EndInv(end[Answerer]) /\ EndInv(end[Caller])  BY <1>1 DEF Inv
<1>3. CASE SeeOdp
  <2> DEFINE t == [end[Answerer] EXCEPT !.odp_seen = TRUE]
  <2>1. EndInv(t)
    BY <1>2 DEF EndInv, Shape, Owned, Covered, Supervised, Calling, Detecting, Fields
  <2>2. end' = [end EXCEPT ![Answerer] = t]  BY <1>3 DEF SeeOdp
  <2> QED  BY <1>1, <2>1, <2>2, OneChanges
<1>4. CASE SendAdp
  <2> DEFINE s == end[Answerer]
             r == StopT400(s)
             t == IF s.txadps + 1 = Adps THEN [r EXCEPT !.txadps = Adps, !.state = "ESTABLISH"]
                  ELSE [s EXCEPT !.txadps = @ + 1]
  <2>1. end' = [end EXCEPT ![Answerer] = t]  BY <1>4 DEF SendAdp
  <2>2. EndInv(r)  BY <1>2, StopT400Keeps
  <2> HIDE DEF r
  <2>3. EndInv([r EXCEPT !.txadps = Adps, !.state = "ESTABLISH"])
    BY <2>2 DEF EndInv, Shape, Owned, Covered, Supervised, Calling, Detecting, Fields
  <2>4. EndInv([s EXCEPT !.txadps = @ + 1])
    BY <1>2 DEF EndInv, Shape, Owned, Covered, Supervised, Calling, Detecting, Fields
  <2> QED  BY <1>1, <2>1, <2>3, <2>4, OneChanges
<1>5. CASE SeeAdp
  <2> DEFINE r == StopT400(end[Caller])
  <2>1. end' = [end EXCEPT ![Caller] = [r EXCEPT !.state = "ESTABLISH"]]  BY <1>5 DEF SeeAdp
  <2>2. EndInv(r)  BY <1>2, StopT400Keeps
  <2> HIDE DEF r
  <2>3. EndInv([r EXCEPT !.state = "ESTABLISH"])
    BY <2>2 DEF EndInv, Shape, Owned, Covered, Supervised, Calling, Detecting, Fields
  <2> QED  BY <1>1, <2>1, <2>3, OneChanges
<1> QED  BY <1>3, <1>4, <1>5

\* The HDLC transmitter, whose end of a frame sends the next piece.
LEMMA TransmitInv == ASSUME Inv, NEW p \in Peer, Transmit(p) PROVE Inv'
<1>1. EndInv(end[p])  BY DEF Inv
<1>2. CASE BeginCrc(p)
  <2> DEFINE t == [end[p] EXCEPT !.crc = TRUE]
  <2>1. EndInv(t)
    BY <1>1 DEF EndInv, Shape, Owned, Covered, Supervised, Calling, Detecting, Fields
  <2>2. end' = [end EXCEPT ![p] = t]  BY <1>2 DEF BeginCrc
  <2> QED  BY <2>1, <2>2, OneChanges
<1>3. CASE EndFrame(p)
  <2> DEFINE s == [end[p] EXCEPT !.buffer = <<>>, !.crc = FALSE]
             more == s.state = "DATA" /\ Pending(p)
             t == IF more THEN TxIframe(s, read[p] + 1) ELSE s
  <2>1. EndInv(s)
    BY <1>1 DEF EndInv, Shape, Owned, Covered, Supervised, Calling, Detecting, Fields
  <2>2. end' = [end EXCEPT ![p] = t]  BY <1>3 DEF EndFrame
  <2> HIDE DEF s
  <2>3. s.state = "DATA" => EndInv(TxIframe(s, read[p] + 1))
    BY <2>1, TxIframeKeeps DEF EndInv, Between
  <2> QED  BY <2>1, <2>2, <2>3, OneChanges
<1> QED  BY <1>2, <1>3 DEF Transmit

\* A frame arrives.
LEMMA ReceiveInv == ASSUME Inv, NEW p \in Peer, Receive(p), DmFinal PROVE Inv'
<1> DEFINE s == end[p]
<1>1. EndInv(s) /\ Between(s) /\ Fields \subseteq DOMAIN s
  BY DEF Inv, EndInv, Between, Shape
<1> HIDE DEF s
\* An answer that is only a frame.
<1>2. \A pf : EndInv(Rr(s, pf)) /\ Rr(s, pf).state = s.state
  BY <1>1, RrSame, SameKeeps DEF Same
<1>3. EndInv(Reject(s))
  BY <1>1, RejectSame, SameKeeps
<1>4. ASSUME NEW f PROVE EndInv(TxFrame(s, f)) /\ Between(TxFrame(s, f))
  BY <1>1, TxFrameSame, SameKeeps
<1>5. CASE ReceiveI(p)
  <2> DEFINE f == Frame(p)
             e == [s EXCEPT !.next_expected_frame = (@ + 1) % Mod]
             a == AckRx(e, f.nr)
             b == IF f.pf THEN Rr(a, TRUE) ELSE a
             c == IF b.last_frame_we_acknowledged # b.next_expected_frame
                    THEN Rr(b, FALSE) ELSE b
             t == IF s.state # "DATA" THEN s
                  ELSE IF Expected(s, f) THEN c
                  ELSE IF (s.next_expected_frame - f.ns) % Mod < Window THEN Rr(s, FALSE)
                  ELSE Reject(s)
  <2>1. end' = [end EXCEPT ![p] = t]  BY <1>5 DEF ReceiveI, s
  <2>2. EndInv(e) /\ e.state = s.state
    BY <1>1 DEF EndInv, Shape, Owned, Covered, Supervised, Calling, Detecting, Fields
  <2> HIDE DEF e
  <2>3. ASSUME s.state = "DATA" PROVE EndInv(a)  BY <2>2, <2>3, AckRxKeeps
  <2> HIDE DEF a
  <2>4. ASSUME s.state = "DATA" PROVE EndInv(b)
    BY <2>3, <2>4, RrSame, SameKeeps DEF EndInv, Shape
  <2> HIDE DEF b
  <2>5. ASSUME s.state = "DATA" PROVE EndInv(c)
    BY <2>4, <2>5, RrSame, SameKeeps DEF EndInv, Shape
  <2> HIDE DEF c
  <2>6. EndInv(t)  BY <1>1, <1>2, <1>3, <2>5
  <2> QED  BY <2>1, <2>6, OneChanges
<1>6. CASE ReceiveRr(p)
  <2> DEFINE a == AckRx(s, Frame(p).nr)
             b == IF a.solicit_f_bit THEN a ELSE Rr(a, TRUE)
             t == IF s.state # "DATA" THEN s
                  ELSE IF Frame(p).pf THEN [b EXCEPT !.solicit_f_bit = FALSE] ELSE a
  <2>1. end' = [end EXCEPT ![p] = t]  BY <1>6 DEF ReceiveRr, s
  <2>2. ASSUME s.state = "DATA" PROVE EndInv(a)  BY <1>1, <2>2, AckRxKeeps
  <2> HIDE DEF a
  <2>3. ASSUME s.state = "DATA" PROVE EndInv(b)
    BY <2>2, <2>3, RrSame, SameKeeps DEF EndInv, Shape
  <2> HIDE DEF b
  <2>4. ASSUME s.state = "DATA" PROVE EndInv([b EXCEPT !.solicit_f_bit = FALSE])
    BY <2>3, <2>4 DEF EndInv, Shape, Owned, Covered, Supervised, Calling, Detecting, Fields
  <2>5. EndInv(t)  BY <1>1, <2>2, <2>4
  <2> QED  BY <2>1, <2>5, OneChanges
<1>7. CASE ReceiveRej(p)
  <2> DEFINE r == IF Frame(p).pf THEN Rr(s, TRUE) ELSE s
             t == IF s.state # "DATA" THEN s ELSE Retransmit(r, Frame(p).nr)
  <2>1. end' = [end EXCEPT ![p] = t]  BY <1>7 DEF ReceiveRej, s
  <2>2. EndInv(r) /\ r.state = s.state  BY <1>1, <1>2
  <2> HIDE DEF r
  <2>3. EndInv(t)  BY <1>1, <2>2, RetransmitKeeps
  <2> QED  BY <2>1, <2>3, OneChanges
<1>8. CASE ReceiveSabme(p)
  <2> DEFINE r == TxFrame(s, UFrame("UA"))
             t == LinkUp(r, Pending(p), read[p] + 1)
  <2>1. end' = [end EXCEPT ![p] = t]  BY <1>8 DEF ReceiveSabme, ComesUp, s
  <2>2. EndInv(t)  BY <1>4, LinkUpKeeps
  <2> QED  BY <2>1, <2>2, OneChanges
<1>9. CASE ReceiveUa(p)
  <2>1. \/ end' = [end EXCEPT ![p] = LinkUp(s, Pending(p), read[p] + 1)]
        \/ end' = end
    BY <1>9 DEF ReceiveUa, ComesUp, s
  <2>2. EndInv(LinkUp(s, Pending(p), read[p] + 1))  BY <1>1, LinkUpKeeps
  <2>3. CASE end' = end  BY <2>3 DEF Inv
  <2> QED  BY <2>1, <2>2, <2>3, OneChanges
<1>10. CASE ReceiveDisc(p)
  <2> DEFINE t == Reset(TxFrame(s, UFrame("UA")))
  <2>1. end' = [end EXCEPT ![p] = t]  BY <1>10 DEF ReceiveDisc, s
  <2>2. EndInv(t)  BY <1>4, ResetKeeps
  <2> QED  BY <2>1, <2>2, OneChanges
<1>11. CASE ReceiveDm(p)
  <2>1. Frame(p).pf  BY <1>11 DEF ReceiveDm, Arrives, DmFinal, Frame
  <2>2. end' = [end EXCEPT ![p] = Restart(Reset(s))]  BY <1>11, <2>1 DEF ReceiveDm, s
  <2>3. Between(Reset(s)) /\ Reset(s).t401 = 0 /\ Reset(s).t403 = 0
    BY <1>1, ResetKeeps DEF EndInv, Between
  <2>4. EndInv(Restart(Reset(s)))  BY <2>3, RestartKeeps
  <2> QED  BY <2>2, <2>4, OneChanges
<1>12. CASE Ignore(p)  BY <1>12 DEF Ignore, Inv
<1> QED  BY <1>5, <1>6, <1>7, <1>8, <1>9, <1>10, <1>11, <1>12 DEF Receive

\* A timer expires.
LEMMA TimersInv == ASSUME Inv, NEW p \in Peer, Timers(p) PROVE Inv'
<1> DEFINE s == end[p]
           Cleared1(i) == [s EXCEPT !.sched[i] = "none"]
<1>1. EndInv(s)  BY DEF Inv
<1> HIDE DEF s
<1>2. CASE FireSabme(p)
  <2>1. PICK i \in 1 .. Slots :
          /\ s.sched[i] = "sabme"
          /\ end' = [end EXCEPT ![p] = SendSabme(Cleared1(i))]
    BY <1>2 DEF FireSabme, Fire, s
  <2>2. s.t401 = i /\ s.t403 = 0 /\ s.txqueue = <<>> /\ s.state # "DATA"
    BY <1>1, <2>1 DEF EndInv, Shape, Owned, Covered, Calling, Handles
  <2> DEFINE c == Cleared1(i)
             t == StopT401(c)
  <2>3. /\ Fields \subseteq DOMAIN t /\ t.sched = [s.sched EXCEPT ![i] = "none"]
        /\ t.t401 = 0 /\ t.t403 = 0 /\ t.t400 = s.t400
        /\ t.txqueue = <<>> /\ t.state = s.state /\ t.detect = s.detect
    BY <1>1, <2>1, <2>2, LapmAssumption DEF EndInv, Shape, StopT401, Fields
  <2>4. Fields \subseteq DOMAIN c  BY <1>1 DEF EndInv, Shape
  <2> HIDE DEF c, t
  <2>5. Between(t)
    BY <1>1, <2>1, <2>2, <2>3, LapmAssumption
    DEF EndInv, Between, Shape, Owned, Covered, Calling, Detecting, Handles, Callbacks
  <2>6. EndInv(SendSabme(c))  BY <2>2, <2>3, <2>4, <2>5, SendSabmeKeeps DEF t
  <2> QED  BY <2>1, <2>6, OneChanges DEF c
<1>3. CASE FireT400(p)
  <2> DEFINE u(i) == [Cleared1(i) EXCEPT !.t400 = 0, !.state = "UNSUPPORTED"]
  <2>1. PICK i \in 1 .. Slots :
          /\ s.sched[i] = "t400"
          /\ end' = [end EXCEPT ![p] = u(i)]
    BY <1>3 DEF FireT400, Fire, s
  <2>2. s.t400 = i
    BY <1>1, <2>1 DEF EndInv, Shape, Owned, Covered, Handles
  <2>3. EndInv(u(i))
    BY <1>1, <2>1, <2>2, LapmAssumption
    DEF EndInv, Shape, Owned, Covered, Supervised, Calling, Detecting, Fields, Handles, Callbacks
  <2> QED  BY <2>1, <2>3, OneChanges
<1>4. CASE FireT401(p)
  <2> DEFINE u(i) == [Cleared1(i) EXCEPT !.t401 = 0]
  <2>1. PICK i \in 1 .. Slots :
          /\ s.sched[i] = "t401"
          /\ end' = [end EXCEPT ![p] = T401Expired(u(i))]
    BY <1>4 DEF FireT401, Fire, s
  <2>2. s.t401 = i /\ s.t403 = 0
    BY <1>1, <2>1 DEF EndInv, Shape, Owned, Covered, Handles
  <2>3. Between(u(i)) /\ u(i).t401 = 0 /\ u(i).t403 = 0
    BY <1>1, <2>1, <2>2, LapmAssumption
    DEF EndInv, Between, Shape, Owned, Covered, Calling, Detecting, Fields, Handles, Callbacks
  <2>4. EndInv(T401Expired(u(i)))  BY <2>3, T401ExpiredKeeps
  <2> QED  BY <2>1, <2>4, OneChanges
<1>5. CASE FireT403(p)
  <2> DEFINE u(i) == [Cleared1(i) EXCEPT !.t403 = 0]
  <2>1. PICK i \in 1 .. Slots :
          /\ s.sched[i] = "t403"
          /\ end' = [end EXCEPT ![p] = T403Expired(u(i))]
    BY <1>5 DEF FireT403, Fire, s
  <2>2. s.t403 = i /\ s.t401 = 0
    BY <1>1, <2>1 DEF EndInv, Shape, Owned, Covered, Handles
  <2>3. Between(u(i)) /\ u(i).t401 = 0 /\ u(i).t403 = 0
    BY <1>1, <2>1, <2>2, LapmAssumption
    DEF EndInv, Between, Shape, Owned, Covered, Calling, Detecting, Fields, Handles, Callbacks
  <2>4. EndInv(T403Expired(u(i)))  BY <2>3, T403ExpiredKeeps
  <2> QED  BY <2>1, <2>4, OneChanges
<1> QED  BY <1>2, <1>3, <1>4, <1>5 DEF Timers

LEMMA NextInv == Inv /\ DmFinal /\ [Next]_vars => Inv'
<1> SUFFICES ASSUME Inv, DmFinal, [Next]_vars PROVE Inv'  OBVIOUS
<1>1. CASE SeeOdp \/ SendAdp \/ SeeAdp  BY <1>1, DetectionInv
<1>2. ASSUME NEW p \in Peer, Application(p) PROVE Inv'  BY <1>2, ApplicationInv
<1>3. ASSUME NEW p \in Peer, Transmit(p) PROVE Inv'  BY <1>3, TransmitInv
<1>4. ASSUME NEW p \in Peer, Receive(p) PROVE Inv'  BY <1>4, ReceiveInv
<1>5. ASSUME NEW p \in Peer, Timers(p) PROVE Inv'  BY <1>5, TimersInv
<1>6. ASSUME NEW p \in Peer, Corrupt(p) \/ Inject(p) PROVE Inv'
  BY <1>6 DEF Corrupt, Inject, Inv
<1>7. CASE UNCHANGED vars  BY <1>7 DEF vars, Inv
<1> QED  BY <1>1, <1>2, <1>3, <1>4, <1>5, <1>6, <1>7 DEF Next

\* Every timer of an end has its handle and every handle its timer, and T401
\* and T403 never run both, through set-up, restarts, retransmissions,
\* releases and whatever the line loses.
THEOREM TimersAreOwned == Spec /\ []DmFinal => []TimersOwned
<1>1. Inv => TimersOwned  BY DEF Inv, EndInv, Owned, Covered, TimersOwned
<1> QED  BY InitInv, NextInv, <1>1, PTL DEF Spec

\* An end never keeps a frame for retransmission without a timer running that
\* will look at it.
THEOREM FramesSupervised == Spec /\ []DmFinal => []OutstandingSupervised
<1>1. Inv => OutstandingSupervised  BY DEF Inv, EndInv, Supervised, OutstandingSupervised
<1> QED  BY InitInv, NextInv, <1>1, PTL DEF Spec

-----------------------------------------------------------------------------
(* Remainders: what the proofs about sequence numbers use of % Mod.          *)

\* A number is a multiple of m and a remainder.
LEMMA Division ==
  ASSUME NEW m \in Nat \ {0}, NEW d \in Int, NEW r \in 0 .. m - 1
  PROVE  (m * d + r) % m = r
<1> DEFINE a == m * d + r
<1>1. a \in Int /\ a = m * (a \div m) + (a % m) /\ a % m \in 0 .. m - 1 /\ a \div m \in Int
  <2>1. a \in Int  OBVIOUS
  <2> HIDE DEF a
  <2> QED  BY <2>1
<1>2. \A x \in Int, y \in 0 .. m - 1 : m * d + r = m * x + y => d = x /\ r = y
  OBVIOUS
<1> QED  BY <1>1, <1>2

\* The remainder is the only one.
LEMMA Remainder ==
  ASSUME NEW m \in Nat \ {0}, NEW a \in Int
  PROVE  \E d \in Int : a = m * d + (a % m) /\ a % m \in 0 .. m - 1
<1>1. a = m * (a \div m) + (a % m) /\ a % m \in 0 .. m - 1 /\ a \div m \in Int
  OBVIOUS
<1> QED  BY <1>1

\* Remainders of sums.
LEMMA ModSum ==
  ASSUME NEW m \in Nat \ {0}, NEW d \in Int, NEW r \in Int
  PROVE  (m * d + r) % m = r % m
<1>1. PICK e \in Int : r = m * e + (r % m) /\ r % m \in 0 .. m - 1  BY Remainder
<1> DEFINE x == r % m
<1>2. x \in 0 .. m - 1 /\ r = m * e + x  BY <1>1
<1> HIDE DEF x
<1>3. m * d + r = m * (d + e) + x  BY <1>2
<1>4. (m * (d + e) + x) % m = x
  <2> DEFINE y == d + e
  <2>1. y \in Int  OBVIOUS
  <2> HIDE DEF y
  <2>2. (m * y + x) % m = x  BY <1>2, <2>1, Division
  <2> QED  BY <2>2 DEF y
<1> QED  BY <1>3, <1>4 DEF x

\* One step further.
LEMMA ModStep ==
  ASSUME NEW m \in Nat \ {0}, NEW r \in Int
  PROVE  (m + r) % m = r % m
<1> DEFINE d == 1
<1>1. d \in Int /\ m * d = m  OBVIOUS
<1> HIDE DEF d
<1>2. (m * d + r) % m = r % m  BY <1>1, ModSum
<1> QED  BY <1>1, <1>2

\* A remainder may be taken before the sum.
LEMMA ModPlus ==
  ASSUME NEW m \in Nat \ {0}, NEW a \in Int, NEW b \in Int
  PROVE  ((a % m) + b) % m = (a + b) % m /\ (b - (a % m)) % m = (b - a) % m
<1>1. PICK d \in Int : a = m * d + (a % m) /\ a % m \in 0 .. m - 1  BY Remainder
<1> DEFINE r == a % m
<1>2. r \in Int /\ a = m * d + r  BY <1>1
<1> HIDE DEF r
<1> DEFINE x == r + b
           y == b - a
           e == d
<1>3. x \in Int /\ y \in Int /\ a + b = m * d + x /\ b - r = m * d + y  BY <1>2
<1> HIDE DEF x, y
<1>4. (m * d + x) % m = x % m /\ (m * d + y) % m = y % m  BY <1>3, ModSum
<1>5. (b - r) % m = y % m /\ (a + b) % m = x % m
  <2> DEFINE u == m * d + x
             v == m * d + y
  <2>1. a + b = u /\ b - r = v /\ u % m = x % m /\ v % m = y % m  BY <1>3, <1>4
  <2> HIDE DEF u, v
  <2> QED  BY <2>1
<1> QED  BY <1>5 DEF r, x, y

\* Two numbers less than m apart have different remainders.
LEMMA ModSame ==
  ASSUME NEW m \in Nat \ {0}, NEW a \in Int, NEW b \in Int, a % m = b % m, a - b < m, b - a < m
  PROVE  a = b
<1>1. PICK d \in Int : a = m * d + (a % m) /\ a % m \in 0 .. m - 1  BY Remainder
<1>2. PICK e \in Int : b = m * e + (b % m)  BY Remainder
<1> DEFINE r == a % m
<1>3. r \in 0 .. m - 1 /\ a = m * d + r /\ b = m * e + r BY <1>1, <1>2
<1> HIDE DEF r
<1>4. d = e
  <2>1. m * (d - e) < m /\ m * (e - d) < m  BY <1>3
  <2>2. d > e => m * (d - e) >= m  OBVIOUS
  <2>3. e > d => m * (e - d) >= m  OBVIOUS
  <2> QED  BY <2>1, <2>2, <2>3
<1> QED  BY <1>3, <1>4

\* A small number is its own remainder.
LEMMA ModSmall ==
  ASSUME NEW m \in Nat \ {0}, NEW a \in 0 .. m - 1
  PROVE  a % m = a
OBVIOUS

-----------------------------------------------------------------------------
(* Picked: the places kept of a queue, in their order.                       *)

\* A set of numbers has a least one.
LEMMA Least ==
  ASSUME NEW T \in SUBSET Nat, T # {}
  PROVE  Min(T) \in T /\ \A y \in T : Min(T) <= y
<1>1. \E x \in T : \A y \in T : ~(<<y, x>> \in OpToRel(<, Nat))
  BY NatLessThanWellFounded, WFMin
<1>2. \E x \in T : \A y \in T : x =< y  
  <2>1. PICK x \in T : \A y \in T : ~(<<y, x>> \in OpToRel(<, Nat))  BY <1>1
  <2>2. \A y \in T : <<y, x>> \in OpToRel(<, Nat) <=> y < x  BY Zenon DEF OpToRel
  <2>3. \A y \in T : ~(y < x)  BY <2>1, <2>2
  <2> QED  BY <2>3
<1> QED  BY <1>2 DEF Min

\* The rank of a place among those kept.
Upto(kept, i) == {j \in kept : j <= i}
Rank(kept, i) == Cardinality(Upto(kept, i))

\* Ranks grow by one at each place kept.
LEMMA RankFacts ==
  ASSUME NEW n \in Nat, NEW kept \in SUBSET (1 .. n)
  PROVE  /\ IsFiniteSet(kept) /\ Cardinality(kept) \in Nat
         /\ \A i \in 0 .. n : Rank(kept, i) \in Nat
         /\ Rank(kept, 0) = 0 /\ Rank(kept, n) = Cardinality(kept)
         /\ \A i \in 1 .. n : Rank(kept, i) =
              IF i \in kept THEN Rank(kept, i - 1) + 1 ELSE Rank(kept, i - 1)
         /\ \A i, j \in kept : i < j => Rank(kept, i) < Rank(kept, j)
<1>1. IsFiniteSet(kept) /\ Cardinality(kept) \in Nat
  <2>1. IsFiniteSet(1 .. n)  BY FS_Interval
  <2>2. IsFiniteSet(kept)  BY <2>1, FS_Subset
  <2> QED  BY <2>2, FS_CardinalityType
<1>2. \A i : IsFiniteSet(Upto(kept, i)) /\ Rank(kept, i) \in Nat
  <2> TAKE i
  <2>1. Upto(kept, i) \in SUBSET kept  BY DEF Upto
  <2>2. IsFiniteSet(Upto(kept, i))  BY <1>1, <2>1, FS_Subset
  <2> QED  BY <2>2, FS_CardinalityType DEF Rank
<1>3. Rank(kept, 0) = 0 /\ Rank(kept, n) = Cardinality(kept)
  <2>1. \A j \in kept : ~(j <= 0) /\ j <= n  OBVIOUS
  <2>2. Upto(kept, 0) = {}  BY <2>1, Zenon DEF Upto
  <2>3. Upto(kept, n) = kept  BY <2>1, Zenon DEF Upto
  <2> QED  BY <2>2, <2>3, FS_EmptySet DEF Rank
<1>4. ASSUME NEW i \in 1 .. n
      PROVE  Rank(kept, i) = IF i \in kept THEN Rank(kept, i - 1) + 1 ELSE Rank(kept, i - 1)
  <2>1. \A j \in kept : (j <= i <=> j <= i - 1 \/ j = i) /\ (j = i => ~(j <= i - 1))
    OBVIOUS
  <2>2. i \notin Upto(kept, i - 1)  BY <2>1, Zenon DEF Upto
  <2>3. i \in kept => Upto(kept, i) = Upto(kept, i - 1) \cup {i}  BY <2>1, Zenon DEF Upto
  <2>4. i \notin kept => Upto(kept, i) = Upto(kept, i - 1)  BY <2>1, Zenon DEF Upto
  <2>5. Cardinality(Upto(kept, i - 1) \cup {i}) = Rank(kept, i - 1) + 1
    BY <1>2, <2>2, FS_AddElement DEF Rank
  <2> QED  BY <2>3, <2>4, <2>5 DEF Rank
<1>5. ASSUME NEW i \in kept, NEW j \in kept, i < j  PROVE Rank(kept, i) < Rank(kept, j)
  <2>1. \A k \in kept : k <= i => k <= j  BY <1>5
  <2>2. j <= j /\ ~(j <= i)  BY <1>5
  <2>3. Upto(kept, i) \in SUBSET Upto(kept, j)  BY <2>1, Zenon DEF Upto
  <2>4. Upto(kept, i) # Upto(kept, j)  BY <2>2, Zenon DEF Upto
  <2>5. IsFiniteSet(Upto(kept, j)) /\ Rank(kept, i) \in Nat /\ Rank(kept, j) \in Nat  BY <1>2
  <2>6. Rank(kept, i) <= Rank(kept, j) /\ Rank(kept, i) # Rank(kept, j)
    BY <2>3, <2>4, <2>5, FS_Subset DEF Rank
  <2> QED  BY <2>5, <2>6
<1> QED  BY <1>1, <1>2, <1>3, <1>4, <1>5

\* Every rank up to the last is that of a place.
LEMMA RankReached ==
  ASSUME NEW n \in Nat, NEW kept \in SUBSET (1 .. n), NEW k \in 1 .. Cardinality(kept)
  PROVE  \E i \in kept : Rank(kept, i) = k
<1> DEFINE T == {i \in 0 .. n : Rank(kept, i) >= k}
           m == Min(T)
<1>1. n \in T /\ T \in SUBSET Nat
  <2>1. Rank(kept, n) >= k  BY RankFacts
  <2> QED  BY <2>1
<1>2. m \in T /\ \A y \in T : m <= y  BY <1>1, Least
<1> HIDE DEF m
<1>3. m \in 1 .. n /\ Rank(kept, m) >= k  BY <1>2, RankFacts
<1>4. m - 1 \in 0 .. n /\ m - 1 \notin T  BY <1>2, <1>3
<1>5. Rank(kept, m - 1) < k /\ Rank(kept, m - 1) \in Nat  BY <1>4, RankFacts
<1>6. Rank(kept, m) = IF m \in kept THEN Rank(kept, m - 1) + 1 ELSE Rank(kept, m - 1)
  BY <1>3, RankFacts
<1> QED  BY <1>3, <1>5, <1>6

\* What is picked is in the queue, in the queue's order, and all that is kept is picked.
LEMMA PickedFacts ==
  ASSUME NEW S, NEW q \in Seq(S), NEW kept \in SUBSET (1 .. Len(q))
  PROVE  LET l == Picked(q, kept) IN
         /\ l \in Seq(S) /\ Len(l) = Cardinality(kept)
         /\ l = <<>> <=> kept = {}
         /\ \E g \in [1 .. Len(l) -> kept] :
              /\ \A k \in 1 .. Len(l) : l[k] = q[g[k]]
              /\ \A a, b \in 1 .. Len(l) : a < b => g[a] < g[b]
<1> DEFINE N == Cardinality(kept)
           nth(k) == CHOOSE i \in kept : Rank(kept, i) = k
           l == Picked(q, kept)
           g == [k \in 1 .. N |-> nth(k)]
<1>1. Len(q) \in Nat /\ \A i \in kept : i \in 1 .. Len(q)  OBVIOUS
<1>r. N \in Nat /\ \A i \in kept : Rank(kept, i) \in Nat
  <2>1. N \in Nat /\ \A i \in 0 .. Len(q) : Rank(kept, i) \in Nat  BY <1>1, RankFacts
  <2>2. \A i \in kept : i \in 0 .. Len(q)  BY <1>1
  <2> QED  BY <2>1, <2>2
<1>2. \A k \in 1 .. N : nth(k) \in kept /\ Rank(kept, nth(k)) = k
  <2> TAKE k \in 1 .. N
  <2>1. \E i \in kept : Rank(kept, i) = k  BY <1>1, RankReached
  <2> QED  BY <2>1
<1>3. l = [k \in 1 .. N |-> q[nth(k)]]
  BY DEF Picked, Rank, Upto
<1> HIDE DEF l, nth, N
<1>4. g \in [1 .. N -> kept]  BY <1>2
<1>5. l \in Seq(S) /\ Len(l) = N
  <2>1. \A i \in kept : q[i] \in S  OBVIOUS
  <2>2. \A k \in 1 .. N : q[nth(k)] \in S  BY <1>2, <2>1
  <2> QED  BY <1>r, <1>3, <2>2
<1>6. ASSUME NEW a \in 1 .. N, NEW b \in 1 .. N, a < b  PROVE g[a] < g[b]
  <2>1. /\ nth(a) \in kept /\ nth(b) \in kept
        /\ Rank(kept, nth(a)) = a /\ Rank(kept, nth(b)) = b
    BY <1>2
  <2>2. nth(a) # nth(b)  BY <1>6, <2>1
  <2>3. nth(b) < nth(a) => b < a
    <3>1. \A i, j \in kept : i < j => Rank(kept, i) < Rank(kept, j)  BY <1>1, RankFacts
    <3> QED  BY <2>1, <3>1
  <2>4. ~(nth(b) < nth(a))  BY <1>6, <2>3
  <2>5. nth(a) \in Int /\ nth(b) \in Int
    <3>1. \A i \in kept : i \in Int  BY <1>1
    <3> QED  BY <2>1, <3>1
  <2> QED  BY <2>2, <2>4, <2>5
<1>7. l = <<>> <=> kept = {}
  <2>1. N = 0 <=> kept = {}  BY <1>1, RankFacts, FS_EmptySet DEF N
  <2>2. l = <<>> <=> Len(l) = 0  BY <1>5
  <2> QED  BY <1>5, <2>1, <2>2
<1>8. \A k \in 1 .. N : l[k] = q[g[k]]  BY <1>3
<1> HIDE DEF g
<1>9. Len(l) = Cardinality(kept)  BY <1>5 DEF N
<1>10. g \in [1 .. Len(l) -> kept] /\ \A k \in 1 .. Len(l) : l[k] = q[g[k]]
  BY <1>4, <1>5, <1>8
<1>11. \A a, b \in 1 .. Len(l) : a < b => g[a] < g[b]  BY <1>5, <1>6
<1> QED  BY <1>5, <1>7, <1>9, <1>10, <1>11 DEF l

\* When a suffix is kept.
LEMMA PickedSuffix ==
  ASSUME NEW S, NEW q \in Seq(S), NEW m \in 1 .. Len(q) + 1
  PROVE  Picked(q, m .. Len(q)) = SubSeq(q, m, Len(q))
<1> DEFINE n == Len(q)
           kept == m .. n
           N == n - m + 1
           nth(k) == CHOOSE i \in kept : Rank(kept, i) = k
<1>1. n \in Nat /\ m \in 1 .. n + 1  OBVIOUS
<1> HIDE DEF n
<1>2. Cardinality(kept) = N
  <2>1. Cardinality(kept) = IF m > n THEN 0 ELSE N  BY <1>1, FS_Interval
  <2> QED  BY <1>1, <2>1
<1>3. ASSUME NEW i \in kept PROVE Rank(kept, i) = i - m + 1
  <2>1. \A j : j \in kept /\ j <= i <=> j \in m .. i  BY <1>1
  <2>2. Upto(kept, i) = m .. i  BY <2>1, Zenon DEF Upto
  <2>3. Cardinality(m .. i) = i - m + 1  BY <1>1, FS_Interval
  <2> QED  BY <2>2, <2>3 DEF Rank
<1>4. ASSUME NEW k \in 1 .. N PROVE nth(k) = m + k - 1
  <2>1. m + k - 1 \in kept /\ Rank(kept, m + k - 1) = k  BY <1>1, <1>3
  <2>2. \A i \in kept : Rank(kept, i) = k => i = m + k - 1
    BY <1>1, <1>3
  <2> HIDE DEF kept
  <2>3. nth(k) \in kept /\ Rank(kept, nth(k)) = k  BY <2>1
  <2> QED  BY <2>2, <2>3
<1>5. Picked(q, kept) = [k \in 1 .. N |-> q[nth(k)]]
  <2> HIDE DEF kept, N
  <2> QED  BY <1>2 DEF Picked, Rank, Upto
<1>6. Picked(q, kept) = [k \in 1 .. N |-> q[m + k - 1]]
  <2> HIDE DEF nth, kept
  <2> QED  BY <1>4, <1>5
<1>7. SubSeq(q, m, n) = [k \in 1 .. N |-> q[m + k - 1]]
  BY <1>1 DEF n
<1> QED  BY <1>6, <1>7 DEF n

-----------------------------------------------------------------------------
(* Types: an end is what Ends says, because one that has tried once too      *)
(* often has no T401 and is not in the data state.                           *)

States == {"DETECT", "ESTABLISH", "DATA", "RELEASE", "UNSUPPORTED"}
All == {"state", "next_tx_frame", "last_frame_peer_acknowledged", "next_expected_frame",
  "last_frame_we_acknowledged", "solicit_f_bit", "retransmissions", "txqueue", "tx_last",
  "buffer", "crc", "sched", "t400", "t401", "t403", "detect", "odp_seen", "txadps"}
IFrames == [type : {"I"}, ns : Numbers, nr : Numbers, pf : BOOLEAN, piece : Nat]

\* An end counts no further than one retry too many, and then T401 stands still.
Tried(s) == s.retransmissions > N_400 => s.t401 = 0 /\ s.state # "DATA"

Counters(s) ==
  /\ s.next_tx_frame \in Numbers /\ s.last_frame_peer_acknowledged \in Numbers
  /\ s.next_expected_frame \in Numbers /\ s.last_frame_we_acknowledged \in Numbers
  /\ s.retransmissions \in 0 .. N_400 + 1

Stores(s) ==
  /\ s.txqueue \in Seq(IFrames) /\ s.buffer \in Seq(Frames)
  /\ s.crc \in BOOLEAN /\ (s.crc => s.buffer # <<>>)

Modes(s) ==
  /\ s.state \in States /\ (s.state = "DETECT" => s.txadps < Adps)
  /\ s.solicit_f_bit \in BOOLEAN /\ s.tx_last \in {"null", "tail", "freed"}
  /\ s.odp_seen \in BOOLEAN /\ s.txadps \in 0 .. Adps

Contents(s) == Counters(s) /\ Stores(s) /\ Modes(s)
Whole(s) == s = [x \in All |-> s[x]]
Typed(s) == Whole(s) /\ Contents(s) /\ Tried(s)

\* What the proofs use of the assumption.
LEMMA Bounds ==
  /\ Caller # Answerer /\ Mod \in Nat \ {0} /\ N_400 \in Nat /\ Adps \in Nat \ {0}
  /\ MaxMerge \in Nat \ {0} /\ Foreign \subseteq Frames /\ 0 \in Numbers
  /\ 0 < Adps /\ 0 \in 0 .. Adps /\ <<>> \in Seq(Frames)
BY LapmAssumption DEF Numbers

\* An I frame, or one of the others.
LEMMA FrameKinds ==
  /\ IFrames \subseteq Frames
  /\ \A f \in Frames : f.type = "I" => f \in IFrames
  /\ \A f \in Frames : f.type \in {"RR", "REJ"} => f.nr \in Numbers /\ f.pf \in BOOLEAN
  /\ \A f \in Frames : f.type = "DM" => f.pf \in BOOLEAN
<1>1. \A f \in Frames : \/ f \in [type : {"SABME", "UA", "DISC"}] \cup [type : {"DM"}, pf : BOOLEAN]
                      \/ f \in [type : {"RR", "REJ"}, nr : Numbers, pf : BOOLEAN]
                      \/ f \in IFrames
  BY DEF Frames, IFrames
<1>2. \A f \in IFrames : f.type = "I"  BY DEF IFrames
<1>3. IFrames \subseteq Frames  BY DEF Frames, IFrames
<1> QED  BY <1>1, <1>2, <1>3

\* Types are kept by every operator that takes and returns an end.
LEMMA TypedTxFrame ==
  ASSUME NEW s, Typed(s), NEW f \in Frames
  PROVE  Typed(TxFrame(s, f))
<1> DEFINE b == Append(s.buffer, f)
<1>1. b \in Seq(Frames) /\ b # <<>>
  <2>1. s.buffer \in Seq(Frames)  BY DEF Typed, Contents, Stores
  <2> QED  BY <2>1
<1> HIDE DEF b
<1>2. Typed([s EXCEPT !.buffer = b])  BY <1>1 DEF Typed, Whole, Contents, Counters, Stores, Modes, Tried, All
<1> QED  BY <1>2 DEF TxFrame, b

\* Stopping timers.
LEMMA TypedStops ==
  ASSUME NEW s, Typed(s)
  PROVE  Typed(StopT400(s)) /\ Typed(StopT401(s)) /\ Typed(StopT403(s))
<1>1. Typed(StopT400(s))  BY DEF StopT400, Typed, Whole, Contents, Counters, Stores, Modes, Tried, All
<1>2. Typed(StopT401(s))  BY DEF StopT401, Typed, Whole, Contents, Counters, Stores, Modes, Tried, All
<1>3. Typed(StopT403(s))  BY DEF StopT403, Typed, Whole, Contents, Counters, Stores, Modes, Tried, All
<1> QED  BY <1>1, <1>2, <1>3

\* Stopping T401 where the retries may have run out.
LEMMA FormedStops ==
  ASSUME NEW s, Whole(s), Contents(s)
  PROVE  LET t == StopT403(StopT401(s)) IN Whole(t) /\ Contents(t)
<1> DEFINE a == StopT401(s)
<1>1. Whole(a) /\ Contents(a)
  BY DEF StopT401, Whole, Contents, Counters, Stores, Modes, All
<1> HIDE DEF a
<1>2. Whole(StopT403(a)) /\ Contents(StopT403(a))
  BY <1>1 DEF StopT403, Whole, Contents, Counters, Stores, Modes, All
<1> QED  BY <1>2 DEF a

\* Starting timers.
LEMMA TypedStarts ==
  ASSUME NEW s, Typed(s)
  PROVE  /\ Typed(StartT403(s))
         /\ s.retransmissions <= N_400 => \A c : Typed(StartT401(s, c))
<1> DEFINE i == FreeSlot(s)
<1> HIDE DEF i
<1>1. Typed(StartT403(s))
  BY DEF StartT403, Typed, Whole, Contents, Counters, Stores, Modes, Tried, All, i
<1>2. ASSUME s.retransmissions <= N_400, NEW c PROVE Typed(StartT401(s, c))
  <2> DEFINE t == StartT401(s, c)
  <2>1. Whole(t) /\ \A x \in All \ {"sched", "t401"} : t[x] = s[x]
    BY DEF StartT401, Typed, Whole, All, i
  <2>2. s.retransmissions \in 0 .. N_400  BY <1>2, Bounds DEF Typed, Contents, Counters
  <2> HIDE DEF t
  <2>3. Contents(t)  BY <2>1 DEF Typed, Contents, Counters, Stores, Modes, All
  <2>4. Tried(t)  BY <2>1, <2>2, Bounds DEF Tried, All
  <2> QED  BY <2>1, <2>3, <2>4 DEF Typed, t
<1> QED  BY <1>1, <1>2

\* RR and REJ.
LEMMA TypedRr ==
  ASSUME NEW s, Typed(s), NEW pf \in BOOLEAN
  PROVE  Typed(Rr(s, pf)) /\ Typed(Reject(s))
<1> DEFINE t == [s EXCEPT !.last_frame_we_acknowledged = s.next_expected_frame]
<1>1. Typed(t)  BY DEF Typed, Whole, Contents, Counters, Stores, Modes, Tried, All
<1>2. SFrame("RR", s, pf) \in Frames /\ SFrame("REJ", s, TRUE) \in Frames
  BY DEF Typed, Contents, Counters, Stores, Modes, SFrame, Frames
<1> HIDE DEF t
<1>3. Rr(s, pf) = TxFrame(t, SFrame("RR", s, pf))  BY DEF Rr, t
<1> QED  BY <1>1, <1>2, <1>3, TypedTxFrame DEF Reject

\* An I frame is sent.
LEMMA TypedTxIframe ==
  ASSUME NEW s, Typed(s), s.state = "DATA", NEW n \in Nat
  PROVE  Typed(TxIframe(s, n))
<1> DEFINE f == IFrame(s, n)
           Q == IF s.tx_last = "freed" THEN s.txqueue ELSE Append(s.txqueue, f)
           q == [s EXCEPT !.next_tx_frame = (@ + 1) % Mod,
                          !.last_frame_we_acknowledged = s.next_expected_frame,
                          !.txqueue = IF s.tx_last = "freed" THEN @ ELSE Append(@, f),
                          !.tx_last = IF @ = "freed" THEN @ ELSE "tail"]
           x == IF s.retransmissions = 0 THEN TxFrame(q, f) ELSE q
           t == StopT403(x)
<1>1. f \in IFrames  BY DEF Typed, Contents, Counters, Stores, Modes, IFrame, IFrames
<1>2. Q \in Seq(IFrames)
  <2> HIDE DEF f
  <2> QED  BY <1>1 DEF Typed, Contents, Counters, Stores, Modes
<1>3. (s.next_tx_frame + 1) % Mod \in Numbers  BY Bounds DEF Typed, Contents, Counters, Stores, Modes, Numbers
<1>4. q = [s EXCEPT !.next_tx_frame = (s.next_tx_frame + 1) % Mod,
                    !.last_frame_we_acknowledged = s.next_expected_frame, !.txqueue = Q,
                    !.tx_last = IF s.tx_last = "freed" THEN "freed" ELSE "tail"]
  <2> HIDE DEF f
  <2> QED BY DEF Typed, Whole, All
<1>5. Typed(q) /\ q.state = "DATA"
  <2> HIDE DEF Q, q, f
  <2> QED  BY <1>2, <1>3, <1>4 DEF Typed, Whole, Contents, Counters, Stores, Modes, Tried, All
<1> HIDE DEF q, f
<1>6. Typed(x) /\ x.retransmissions <= N_400
  <2>1. Typed(TxFrame(q, f)) /\ TxFrame(q, f).state = "DATA"
    <3>1. TxFrame(q, f).state = q.state  BY <1>5 DEF TxFrame, Typed, Whole, All
    <3> QED  BY <3>1, <1>1, <1>5, TypedTxFrame, FrameKinds
  <2> QED  BY SMTT(30), <1>5, <2>1, Bounds DEF Typed, Contents, Counters, Stores, Modes, Tried
<1> HIDE DEF x
<1>7. Typed(t) /\ t.retransmissions = x.retransmissions
  <2>1. t.retransmissions = x.retransmissions  BY <1>6 DEF StopT403, Typed, Whole, All
  <2> QED  BY <2>1, <1>6, TypedStops
<1>8. TxIframe(s, n) = IF t.t401 = 0 THEN StartT401(t, "t401") ELSE t
  BY DEF TxIframe, x, q, f
<1> HIDE DEF t
<1> QED  BY <1>6, <1>7, <1>8, TypedStarts

\* lapm_reset and lapm_link_down.
LEMMA TypedReset ==
  ASSUME NEW s, Whole(s), Contents(s)
  PROVE  Typed(Reset(s)) /\ Reset(s).retransmissions = 0
<1> DEFINE b == StopT403(StopT401(s))
<1>1. Whole(b) /\ Contents(b)  BY FormedStops
<1> HIDE DEF b
<1>2. Reset(s) = [b EXCEPT
     !.next_tx_frame = 0, !.last_frame_peer_acknowledged = 0,
     !.next_expected_frame = 0, !.last_frame_we_acknowledged = 0,
     !.solicit_f_bit = FALSE, !.state = "RELEASE", !.retransmissions = 0,
     !.txqueue = <<>>, !.tx_last = IF @ = "null" THEN @ ELSE "freed"]  BY DEF Reset, b
<1>3. 0 \in Numbers /\ <<>> \in Seq(IFrames)  BY Bounds DEF Numbers
<1> DEFINE t == Reset(s)
<1>4. /\ Whole(t)
      /\ t.next_tx_frame = 0 /\ t.last_frame_peer_acknowledged = 0
      /\ t.next_expected_frame = 0 /\ t.last_frame_we_acknowledged = 0
      /\ t.solicit_f_bit = FALSE /\ t.state = "RELEASE" /\ t.retransmissions = 0
      /\ t.txqueue = <<>> /\ t.tx_last \in {"null", "freed"}
      /\ t.buffer = b.buffer /\ t.crc = b.crc /\ t.odp_seen = b.odp_seen /\ t.txadps = b.txadps
  BY ZenonT(30), <1>1, <1>2 DEF Whole, All
<1> HIDE DEF t
<1>5. Counters(t) /\ Tried(t)  BY <1>3, <1>4, Bounds DEF Counters, Tried
<1>6. Stores(t)  BY <1>1, <1>3, <1>4 DEF Contents, Stores
<1>7. Modes(t)  BY <1>1, <1>4 DEF Contents, Modes, States
<1> QED  BY <1>4, <1>5, <1>6, <1>7 DEF Typed, Contents, t

\* SABME is sent again, or no more.
LEMMA TypedSendSabme ==
  ASSUME NEW s, Typed(s), s.retransmissions <= N_400
  PROVE  Typed(SendSabme(s))
<1> DEFINE t == StopT401(s)
           r == [t EXCEPT !.retransmissions = @ + 1]
           u == StartT401(r, "sabme")
           w == [r EXCEPT !.state = "RELEASE"]
<1>1. Typed(t) /\ t.t401 = 0 /\ t.retransmissions = s.retransmissions
  <2>1. t.t401 = 0 /\ t.retransmissions = s.retransmissions
    BY DEF StopT401, Typed, Whole, All
  <2> QED  BY <2>1, TypedStops
<1> HIDE DEF t
<1>2. s.retransmissions \in 0 .. N_400
  BY Bounds DEF Typed, Contents, Counters, Stores, Modes
<1>3. /\ Whole(r) /\ r.retransmissions = s.retransmissions + 1
      /\ \A x \in All \ {"retransmissions"} : r[x] = t[x]
  BY <1>1 DEF Typed, Whole, All
<1> HIDE DEF r
<1>4. Contents(r) /\ r.t401 = 0
  BY SMTT(30), <1>1, <1>2, <1>3, Bounds DEF Typed, Contents, Counters, Stores, Modes, All
<1>5. Typed(w)
  <2>1. Whole(w) /\ w.state = "RELEASE" /\ \A x \in All \ {"state"} : w[x] = r[x]
    BY <1>3 DEF Whole, All
  <2> HIDE DEF w
  <2> QED  BY <1>4, <2>1 DEF Typed, Contents, Counters, Stores, Modes, Tried, All, States
<1>6. CASE ~(r.retransmissions > N_400)
  <2>1. Typed(r)  BY <1>3, <1>4, <1>6 DEF Typed, Tried
  <2>2. Typed(u)
    BY <1>2, <1>3, <1>6, <2>1, TypedStarts, Bounds
  <2>3. UFrame("SABME") \in Frames  BY DEF UFrame, Frames
  <2> HIDE DEF u
  <2>4. Typed(TxFrame(u, UFrame("SABME")))  BY <2>2, <2>3, TypedTxFrame
  <2> QED  BY <1>6, <2>4 DEF SendSabme, u, r, t
<1> QED  BY <1>5, <1>6 DEF SendSabme, r, t

\* The link is set up anew.
LEMMA TypedRestart ==
  ASSUME NEW s, Typed(s)
  PROVE  Typed(Restart(s))
<1> DEFINE a == [s EXCEPT !.buffer = <<>>, !.crc = FALSE, !.t401 = 0, !.t403 = 0]
<1>1. Typed(a)
  <2>1. /\ Whole(a) /\ a.buffer = <<>> /\ a.crc = FALSE /\ a.t401 = 0
        /\ \A x \in All \ {"buffer", "crc", "t401", "t403"} : a[x] = s[x]
    BY DEF Typed, Whole, All
  <2> HIDE DEF a
  <2>2. Counters(a)  BY <2>1 DEF Typed, Contents, Counters, All
  <2>3. Stores(a)  BY <2>1, Bounds DEF Typed, Contents, Stores, All
  <2>4. Modes(a) /\ Tried(a)  BY <2>1 DEF Typed, Contents, Modes, Tried, All
  <2> QED  BY <2>1, <2>2, <2>3, <2>4 DEF Typed, Contents
<1> HIDE DEF a
<1>2. Typed(Reset(a)) /\ Reset(a).retransmissions = 0  BY <1>1, TypedReset DEF Typed
<1>3. Typed(SendSabme(Reset(a)))  BY <1>2, TypedSendSabme, Bounds
<1> QED  BY <1>3 DEF Restart, a

\* v42_restart.
LEMMA TypedV42Restart ==
  ASSUME NEW s, Typed(s)
  PROVE  Typed(V42Restart(s))
<1> DEFINE z == [s EXCEPT !.sched = [i \in 1 .. Slots |-> "none"]]
           r == Restart(z)
           i == FreeSlot(r)
<1>1. Typed(z)  BY DEF Typed, Whole, Contents, Counters, Stores, Modes, Tried, All
<1>2. Typed(r)  BY <1>1, TypedRestart
<1> HIDE DEF r, i, z
<1>3. Typed([r EXCEPT !.odp_seen = FALSE, !.txadps = 0,
                      !.sched[i] = "t400", !.t400 = i, !.state = "DETECT"])
  <2> DEFINE w == [r EXCEPT !.odp_seen = FALSE, !.txadps = 0,
                            !.sched[i] = "t400", !.t400 = i, !.state = "DETECT"]
  <2>1. /\ Whole(w) /\ w.odp_seen = FALSE /\ w.txadps = 0 /\ w.state = "DETECT"
        /\ \A x \in All \ {"odp_seen", "txadps", "sched", "t400", "state"} : w[x] = r[x]
    BY <1>2 DEF Typed, Whole, All
  <2> HIDE DEF w
  <2>2. Counters(w) /\ Stores(w) /\ Tried(w)
    BY <1>2, <2>1 DEF Typed, Contents, Counters, Stores, Tried, All
  <2>3. Modes(w)  BY <1>2, <2>1, Bounds DEF Typed, Contents, Modes, All, States
  <2> QED  BY <2>1, <2>2, <2>3 DEF Typed, Contents, w
<1>4. Typed([r EXCEPT !.state = "ESTABLISH"])
  BY <1>2 DEF Typed, Whole, Contents, Counters, Stores, Modes, Tried, All, States
<1> QED  BY <1>3, <1>4 DEF V42Restart, r, i, z

\* The link comes up.
LEMMA TypedLinkUp ==
  ASSUME NEW s, Typed(s), NEW more, NEW n \in Nat
  PROVE  Typed(LinkUp(s, more, n))
<1> DEFINE a == Reset(s)
           r == [a EXCEPT !.state = "DATA"]
           t == IF more THEN TxIframe(r, n) ELSE r
<1>1. Typed(a) /\ a.retransmissions = 0  BY TypedReset DEF Typed
<1> HIDE DEF a
<1>2. Typed(r) /\ r.state = "DATA"
  <2>1. Whole(r) /\ r.state = "DATA" /\ \A x \in All \ {"state"} : r[x] = a[x]
    BY <1>1 DEF Typed, Whole, All
  <2> HIDE DEF r
  <2> QED  BY SMTT(30), <1>1, <2>1, Bounds DEF Typed, Contents, Counters, Stores, Modes, Tried, All, States
<1> HIDE DEF r
<1>3. Typed(t)  BY <1>2, TypedTxIframe
<1> HIDE DEF t
<1>4. Typed(StartT403(StopT401(t)))  BY <1>3, TypedStops, TypedStarts
<1> QED  BY <1>4 DEF LinkUp, t, r, a

\* Frames are acknowledged.
LEMMA TypedAckRx ==
  ASSUME NEW s, Typed(s), s.state = "DATA", NEW ack \in Numbers
  PROVE  Typed(AckRx(s, ack))
<1> DEFINE n == Len(s.txqueue)
           kept == {i \in 1 .. n : ~Acked(s, i, ack)}
           left == Picked(s.txqueue, kept)
           freed == n \notin kept
           none == kept = 1 .. n
           r == [s EXCEPT !.txqueue = left,
                          !.tx_last = IF freed /\ @ = "tail" THEN "freed" ELSE @,
                          !.retransmissions = IF none THEN @ ELSE 0,
                          !.last_frame_peer_acknowledged = ack]
<1>1. left \in Seq(IFrames)
  <2>1. s.txqueue \in Seq(IFrames)  BY DEF Typed, Contents, Stores
  <2>2. kept \in SUBSET (1 .. n)  OBVIOUS
  <2> HIDE DEF kept
  <2> QED  BY <2>1, <2>2, PickedFacts
<1> HIDE DEF left, freed, none
<1>2. /\ Whole(r) /\ r.txqueue = left /\ r.tx_last \in {s.tx_last, "freed"}
      /\ r.retransmissions \in {s.retransmissions, 0}
      /\ r.last_frame_peer_acknowledged = ack
      /\ \A x \in All \ {"txqueue", "tx_last", "retransmissions", "last_frame_peer_acknowledged"} :
           r[x] = s[x]
  BY DEF Typed, Whole, All
<1> HIDE DEF r
<1>3. s.retransmissions \in 0 .. N_400
  BY Bounds DEF Typed, Contents, Counters, Tried
<1>4. r.retransmissions \in 0 .. N_400  BY <1>2, <1>3, Bounds
<1>5. Counters(r)  BY <1>2, <1>4, Bounds DEF Typed, Contents, Counters, All
<1>6. Stores(r) /\ Modes(r)  BY <1>1, <1>2 DEF Typed, Contents, Stores, Modes, All
<1>7. Typed(r)  BY <1>2, <1>4, <1>5, <1>6, Bounds DEF Typed, Contents, Tried
<1>8. Typed(StartT403(StopT403(StopT401(r))))  BY <1>7, TypedStops, TypedStarts
<1>9. Typed(StartT401(StopT403(r), "t401"))
  <2>1. Typed(StopT403(r))  BY <1>7, TypedStops
  <2>2. StopT403(r).retransmissions = r.retransmissions
    BY <1>2 DEF StopT403, Whole, All
  <2>3. StopT403(r).retransmissions <= N_400  BY <1>4, <2>2, Bounds
  <2> QED  BY <2>1, <2>3, TypedStarts
<1>10. Typed(StopT403(r))  BY <1>7, TypedStops
<1>11. AckRx(s, ack) \in {s, StartT403(StopT403(StopT401(r))),
                          StartT401(StopT403(r), "t401"), StopT403(r)}
  BY DEF AckRx, r, left, freed, none
<1> QED  BY <1>8, <1>9, <1>10, <1>11

\* A frame that is sent again.
LEMMA Renumbered ==
  ASSUME NEW f \in IFrames, NEW k \in Numbers, NEW pf \in BOOLEAN
  PROVE  LET e == [f EXCEPT !.nr = k, !.pf = pf] IN
         e \in IFrames /\ e.ns = f.ns /\ e.piece = f.piece /\ e.nr = k
BY DEF IFrames

\* The queue and the buffer after a retransmission: only the numbers that are
\* acknowledged change, and the frame at the front of an empty buffer is one of
\* the queue.
ResentAs(s, nr, q, b) ==
  /\ Retransmit(s, nr) = [s EXCEPT !.txqueue = q, !.buffer = b]
  /\ Len(q) = Len(s.txqueue)
  /\ \A i \in 1 .. Len(q) :
       /\ q[i].ns = s.txqueue[i].ns /\ q[i].piece = s.txqueue[i].piece
       /\ q[i].nr \in {s.txqueue[i].nr, s.next_expected_frame}
  /\ s.buffer # <<>> => b # <<>> /\ b[1] = s.buffer[1]
  /\ s.buffer = <<>> => b = <<>> \/ \E i \in 1 .. Len(q) : b[1] = q[i]
  /\ \A i \in 1 .. Len(b) :
       \/ \E j \in 1 .. Len(s.buffer) : b[i] = s.buffer[j]
       \/ \E j \in 1 .. Len(q) : b[i] = q[j]

\* Frames are sent again from the queue.
LEMMA Resent ==
  ASSUME NEW s, Whole(s), Contents(s), NEW nr,
         \E i \in DOMAIN s.txqueue : s.txqueue[i].ns = nr
  PROVE  \E q \in Seq(IFrames), b \in Seq(Frames) : ResentAs(s, nr, q, b)
<1> DEFINE Q == s.txqueue
           wanted == {i \in DOMAIN Q : Q[i].ns = nr}
           m == Min(wanted)
           again == [i \in DOMAIN Q |->
             IF \E j \in wanted : j <= i
               THEN [Q[i] EXCEPT !.nr = s.next_expected_frame, !.pf = FALSE]
               ELSE Q[i]]
           last == Min({Len(again), m + MaxMerge - Len(s.buffer) - 1})
           more == SubSeq(again, m, last)
           b == IF s.crc THEN s.buffer ELSE s.buffer \o more
<1>1. Q \in Seq(IFrames) /\ s.buffer \in Seq(Frames) /\ s.crc \in BOOLEAN
      /\ (s.crc => s.buffer # <<>>) /\ s.next_expected_frame \in Numbers
  BY DEF Contents, Stores, Counters
<1>2. wanted \in SUBSET Nat /\ wanted # {} /\ wanted \subseteq 1 .. Len(Q)  BY <1>1
<1>3. m \in 1 .. Len(Q)
  <2> HIDE DEF wanted
  <2> QED  BY <1>2, Least
<1>4. again \in Seq(IFrames) /\ Len(again) = Len(Q)
      /\ \A i \in 1 .. Len(Q) :
           /\ again[i].ns = Q[i].ns /\ again[i].piece = Q[i].piece
           /\ again[i].nr \in {Q[i].nr, s.next_expected_frame}
  <2> DEFINE e(i) == [Q[i] EXCEPT !.nr = s.next_expected_frame, !.pf = FALSE]
             P(i) == \E j \in wanted : j <= i
  <2>1. \A i \in 1 .. Len(Q) :
          e(i) \in IFrames /\ e(i).ns = Q[i].ns /\ e(i).piece = Q[i].piece
          /\ e(i).nr = s.next_expected_frame
    <3> TAKE i \in 1 .. Len(Q)
    <3>1. Q[i] \in IFrames /\ FALSE \in BOOLEAN  BY <1>1
    <3> QED  BY <1>1, <3>1, Renumbered
  <2>2. again = [i \in 1 .. Len(Q) |-> IF P(i) THEN e(i) ELSE Q[i]]  BY <1>1
  <2> HIDE DEF e, P, again
  <2>3. \A i \in 1 .. Len(Q) : Q[i] \in IFrames /\ again[i] \in {e(i), Q[i]}
    <3>1. \A i \in 1 .. Len(Q) : Q[i] \in IFrames  BY <1>1
    <3>2. \A i \in 1 .. Len(Q) : again[i] \in {e(i), Q[i]}  BY <2>2
    <3> QED  BY <3>1, <3>2
  <2>4. again \in Seq(IFrames) /\ Len(again) = Len(Q)
    <3>1. \A i \in 1 .. Len(Q) : again[i] \in IFrames  BY <2>1, <2>3
    <3>2. again \in [1 .. Len(Q) -> IFrames]  BY <2>2, <3>1
    <3>3. Len(Q) \in Nat  BY <1>1
    <3> HIDE DEF Q
    <3> QED  BY <3>2, <3>3
  <2> QED  BY <2>1, <2>3, <2>4
<1> HIDE DEF again
<1>5. last \in Int /\ last <= Len(Q) /\ (s.buffer = <<>> => last >= m)
  <2> DEFINE x == Len(again)
             y == m + MaxMerge - Len(s.buffer) - 1
  <2>1. x \in Int /\ y \in Int /\ x = Len(Q) /\ (s.buffer = <<>> => x >= m /\ y >= m)
    BY <1>1, <1>3, <1>4, Bounds
  <2> HIDE DEF x, y
  <2>2. Min({x, y}) \in {x, y} /\ Min({x, y}) <= x /\ Min({x, y}) <= y
    <3>1. \E z \in {x, y} : \A w \in {x, y} : z <= w  BY <2>1
    <3> QED  BY <3>1 DEF Min
  <2> QED  BY <2>1, <2>2 DEF x, y
<1> HIDE DEF last, m
<1>6. /\ more \in Seq(IFrames) /\ (last >= m => more # <<>> /\ more[1] = again[m])
      /\ (last < m => more = <<>>)
  BY <1>3, <1>4, <1>5, SubSeqProperties
<1> HIDE DEF more
<1>7. more \in Seq(Frames)  BY <1>6, FrameKinds
<1>8. b \in Seq(Frames)  BY <1>1, <1>7
<1>9. s.buffer # <<>> => b # <<>> /\ b[1] = s.buffer[1]
  BY <1>1, <1>7, ConcatProperties
<1>10. s.buffer = <<>> => b # <<>> /\ b[1] = again[m]
  BY <1>1, <1>5, <1>6, <1>7
<1>11. Retransmit(s, nr) = [s EXCEPT !.txqueue = again, !.buffer = b]
  <2>1. Retransmit(s, nr) =
         [s EXCEPT !.txqueue = again, !.buffer = IF s.crc THEN @ ELSE @ \o SubSeq(again, m, last)]
    BY <1>2 DEF Retransmit, again, m, last
  <2> QED  BY <2>1 DEF more, Whole, All
<1>12. s.buffer = <<>> => b = <<>> \/ \E i \in 1 .. Len(again) : b[1] = again[i]
  BY <1>3, <1>4, <1>10
<1>13. ASSUME NEW i \in 1 .. Len(b)
       PROVE  \/ \E j \in 1 .. Len(s.buffer) : b[i] = s.buffer[j]
              \/ \E j \in 1 .. Len(again) : b[i] = again[j]
  <2>1. CASE s.crc  BY <1>13, <2>1
  <2>2. CASE ~s.crc
    <3>1. b = s.buffer \o more  BY <2>2
    <3>2. ASSUME NEW j \in 1 .. Len(more) PROVE \E l \in 1 .. Len(again) : more[j] = again[l]
      <4>1. m \in Int /\ last \in Int /\ m >= 1 /\ last <= Len(again) /\ Len(again) \in Nat
        BY <1>1, <1>3, <1>4, <1>5
      <4>2. \A l \in m .. last : again[l] \in IFrames  BY <1>4, <4>1
      <4>3. /\ Len(more) = IF m <= last THEN last - m + 1 ELSE 0
            /\ \A l \in 1 .. last - m + 1 : more[l] = again[m + l - 1]
        BY <4>1, <4>2, SubSeqProperties DEF more
      <4>4. j \in 1 .. last - m + 1 /\ m + j - 1 \in 1 .. Len(again)
        BY <4>1, <4>3
      <4> QED  BY <4>3, <4>4
    <3>3. /\ Len(b) = Len(s.buffer) + Len(more)
          /\ \A l \in 1 .. Len(b) :
               b[l] = IF l <= Len(s.buffer) THEN s.buffer[l] ELSE more[l - Len(s.buffer)]
      <4> HIDE DEF b
      <4> QED  BY <1>1, <1>7, <3>1, ConcatProperties
    <3>4. CASE i <= Len(s.buffer)
      <4>1. i \in 1 .. Len(s.buffer)  BY <1>1, <1>13, <3>4
      <4>2. b[i] = s.buffer[i]  BY <1>13, <3>3, <3>4
      <4> QED  BY <4>1, <4>2
    <3>5. CASE ~ i <= Len(s.buffer)
      <4> DEFINE j == i - Len(s.buffer)
      <4>1. j \in 1 .. Len(more)  BY <1>1, <1>7, <1>13, <3>3, <3>5
      <4>2. b[i] = more[j]  BY <1>13, <3>3, <3>5
      <4> QED  BY <3>2, <4>1, <4>2
    <3> QED  BY <3>4, <3>5
  <2> QED  BY <1>1, <2>1, <2>2
<1> HIDE DEF b
<1>14. ResentAs(s, nr, again, b)  BY <1>4, <1>9, <1>11, <1>12, <1>13 DEF ResentAs
<1> QED  BY <1>4, <1>8, <1>14

\* REJ is answered.
LEMMA TypedRetransmit ==
  ASSUME NEW s, Typed(s), s.state = "DATA", NEW nr \in Numbers
  PROVE  Typed(Retransmit(s, nr))
<1>1. CASE \E i \in DOMAIN s.txqueue : s.txqueue[i].ns = nr
  <2>1. PICK q \in Seq(IFrames), b \in Seq(Frames) :
          ResentAs(s, nr, q, b)
    BY <1>1, Resent DEF Typed
  <2> DEFINE t == [s EXCEPT !.txqueue = q, !.buffer = b]
  <2>2. /\ Whole(t) /\ t.txqueue = q /\ t.buffer = b
        /\ \A x \in All \ {"txqueue", "buffer"} : t[x] = s[x]
    BY DEF Typed, Whole, All
  <2> HIDE DEF t
  <2>3. Counters(t) /\ Tried(t) /\ Modes(t)
    BY <2>2 DEF Typed, Contents, Counters, Modes, Tried, All
  <2>4. Stores(t)  BY <2>1, <2>2 DEF Typed, Contents, Stores, All, ResentAs
  <2> QED  BY <2>1, <2>2, <2>3, <2>4 DEF Typed, Contents, t, ResentAs
<1>2. CASE ~ \E i \in DOMAIN s.txqueue : s.txqueue[i].ns = nr
  <2> DEFINE a == [s EXCEPT !.last_frame_peer_acknowledged = nr, !.next_tx_frame = nr]
  <2>1. Retransmit(s, nr) \in {s, StartT403(StopT403(StopT401(a)))}
    BY <1>2 DEF Retransmit
  <2>2. Typed(a)  BY DEF Typed, Whole, Contents, Counters, Stores, Modes, Tried, All
  <2> HIDE DEF a
  <2>3. Typed(StartT403(StopT403(StopT401(a))))  BY <2>2, TypedStops, TypedStarts
  <2> QED  BY <2>1, <2>3
<1> QED  BY <1>1, <1>2

\* T401 has expired.
LEMMA TypedT401Expired ==
  ASSUME NEW s, Typed(s), s.retransmissions <= N_400
  PROVE  Typed(T401Expired(s))
<1> DEFINE f == [Head(s.txqueue) EXCEPT !.nr = s.next_expected_frame, !.pf = TRUE]
           q == [s.txqueue EXCEPT ![1] = f]
           r == [s EXCEPT !.txqueue[1] = f, !.solicit_f_bit = TRUE, !.retransmissions = @ + 1,
                          !.last_frame_we_acknowledged = s.next_expected_frame]
           t == TxFrame(r, f)
<1>1. SUFFICES ASSUME s.txqueue # <<>> PROVE Typed(T401Expired(s))
  BY DEF T401Expired
<1>2. s.txqueue \in Seq(IFrames) /\ s.retransmissions \in 0 .. N_400
      /\ s.next_expected_frame \in Numbers
  BY Bounds DEF Typed, Contents, Counters, Stores
<1>3. f \in IFrames
  <2>1. Head(s.txqueue) \in IFrames  BY <1>1, <1>2
  <2> QED  BY <1>2, <2>1, Renumbered
<1> HIDE DEF f
<1>4. q \in Seq(IFrames)  BY <1>1, <1>2, <1>3
<1> HIDE DEF q
<1>5. /\ Whole(r) /\ r.txqueue = q /\ r.solicit_f_bit = TRUE
      /\ r.retransmissions = s.retransmissions + 1
      /\ r.last_frame_we_acknowledged = s.next_expected_frame
      /\ \A x \in All \ {"txqueue", "solicit_f_bit", "retransmissions", "last_frame_we_acknowledged"} :
           r[x] = s[x]
  BY DEF Typed, Whole, All, q
<1>6. T401Expired(s) = IF r.retransmissions <= N_400 THEN StartT401(t, "t401")
                       ELSE Restart(Reset(r))
  BY <1>1 DEF T401Expired, f
<1> HIDE DEF r
<1>7. Counters(r)  BY <1>2, <1>5, Bounds DEF Typed, Contents, Counters, All
<1>8. Stores(r) /\ Modes(r)  BY <1>4, <1>5 DEF Typed, Contents, Stores, Modes, All
<1>9. CASE r.retransmissions <= N_400
  <2>1. Typed(r)  BY <1>2, <1>5, <1>7, <1>8, <1>9, Bounds DEF Typed, Contents, Tried
  <2>2. Typed(t) /\ t.retransmissions = r.retransmissions
    <3>1. t.retransmissions = r.retransmissions  BY <1>5 DEF TxFrame, Whole, All
    <3> QED  BY <2>1, <3>1, <1>3, TypedTxFrame, FrameKinds
  <2> QED  BY <1>6, <1>9, <2>2, TypedStarts
<1>10. CASE ~(r.retransmissions <= N_400)
  <2>1. Typed(Reset(r))  BY <1>5, <1>7, <1>8, TypedReset DEF Contents
  <2>2. Typed(Restart(Reset(r)))  BY <2>1, TypedRestart
  <2> QED  BY <1>6, <1>10, <2>2
<1> QED  BY <1>9, <1>10

\* T403 has expired.
LEMMA TypedT403Expired ==
  ASSUME NEW s, Typed(s)
  PROVE  Typed(T403Expired(s))
<1> DEFINE a == [s EXCEPT !.retransmissions = 0, !.solicit_f_bit = TRUE]
<1>1. Typed(a) /\ a.retransmissions = 0
  <2>1. /\ Whole(a) /\ a.retransmissions = 0 /\ a.solicit_f_bit = TRUE
        /\ \A x \in All \ {"retransmissions", "solicit_f_bit"} : a[x] = s[x]
    BY DEF Typed, Whole, All
  <2> HIDE DEF a
  <2>2. Counters(a) /\ Tried(a)  BY <2>1, Bounds DEF Typed, Contents, Counters, Tried, All
  <2>3. Stores(a) /\ Modes(a)  BY <2>1 DEF Typed, Contents, Stores, Modes, All
  <2> QED  BY <2>1, <2>2, <2>3 DEF Typed, Contents
<1> HIDE DEF a
<1>2. Typed(Rr(a, TRUE)) /\ Rr(a, TRUE).retransmissions = 0
  <2> DEFINE b == [a EXCEPT !.last_frame_we_acknowledged = a.next_expected_frame]
             f == SFrame("RR", a, TRUE)
  <2>0. b.retransmissions = 0 /\ Whole(b)  BY <1>1 DEF Typed, Whole, All
  <2>1. Rr(a, TRUE).retransmissions = 0
    <3> HIDE DEF b, f
    <3>1. TxFrame(b, f).retransmissions = 0  BY <2>0 DEF TxFrame, Whole, All
    <3> QED  BY <3>1 DEF Rr, b, f
  <2> QED  BY <1>1, <2>1, TypedRr
<1> DEFINE b == Rr(a, TRUE)
<1> HIDE DEF b
<1>3. Typed(b) /\ b.retransmissions <= N_400
  <2>1. b.retransmissions = 0 /\ Typed(b)  BY <1>2 DEF b
  <2>2. N_400 \in Nat  BY Bounds
  <2> QED  BY <2>1, <2>2
<1>4. Typed(StartT401(b, "t401"))  BY <1>3, TypedStarts
<1> QED  BY <1>4 DEF T403Expired, a, b

-----------------------------------------------------------------------------
(* Types: the actions.                                                       *)

EndsTyped == end = [p \in Peer |-> end[p]] /\ \A p \in Peer : Typed(end[p])
LinesTyped == line \in [Peer -> Seq(Seq(Frames) \ {<<>>})]
CountsTyped ==
  /\ unwritten \in [Peer -> Nat] /\ waiting \in [Peer -> Nat]
  /\ read \in [Peer -> Nat] /\ delivered \in [Peer -> Nat]
  /\ behind \in [Peer -> Seq(Nat)]
  /\ faults \in Nat

TypeInv == EndsTyped /\ LinesTyped /\ CountsTyped

\* The ways in which an action changes an end, a line and the counts.
LEMMA OneTyped ==
  ASSUME EndsTyped, NEW p \in Peer, NEW t, Typed(t), end' = [end EXCEPT ![p] = t]
  PROVE  EndsTyped'
BY DEF EndsTyped

\* A frame is taken from a line.
LEMMA LineShorter ==
  ASSUME LinesTyped, NEW p \in Peer, line[p] # <<>>, line' = [line EXCEPT ![p] = Tail(@)]
  PROVE  LinesTyped'
<1>1. line[p] \in Seq(Seq(Frames) \ {<<>>})  BY DEF LinesTyped
<1>2. Tail(line[p]) \in Seq(Seq(Frames) \ {<<>>})  BY <1>1
<1> QED  BY <1>2 DEF LinesTyped

\* A frame is put on a line.
LEMMA LineLonger ==
  ASSUME LinesTyped, NEW p \in Peer, NEW b \in Seq(Frames), b # <<>>,
         line' = [line EXCEPT ![p] = Append(@, b)]
  PROVE  LinesTyped'
<1>1. line[p] \in Seq(Seq(Frames) \ {<<>>})  BY DEF LinesTyped
<1>2. b \in Seq(Frames) \ {<<>>}  OBVIOUS
<1>3. Append(line[p], b) \in Seq(Seq(Frames) \ {<<>>})  BY <1>1, <1>2
<1> QED  BY <1>3 DEF LinesTyped

\* A piece is taken from tx_queue.
LEMMA TakeTyped ==
  ASSUME CountsTyped, NEW p \in Peer, NEW more \in BOOLEAN, more => Pending(p), Take(p, more),
         unwritten' = unwritten, delivered' = delivered, behind' = behind, faults' = faults
  PROVE  CountsTyped'
BY DEF CountsTyped, Take, Pending

\* What arrives is a frame.
LEMMA FrontFrame ==
  ASSUME LinesTyped, NEW p \in Peer, line[p] # <<>>
  PROVE  Frame(p) \in Frames
<1>1. line[p] \in Seq(Seq(Frames) \ {<<>>})  BY DEF LinesTyped
<1>2. Head(line[p]) \in Seq(Frames) \ {<<>>}  BY <1>1
<1>3. Head(line[p])[1] \in Frames  BY <1>2
<1> QED  BY <1>3 DEF Frame

\* What the frames merged with the first one leave behind its piece.
LEMMA FrontBehind ==
  ASSUME LinesTyped, NEW p \in Peer, line[p] # <<>>
  PROVE  /\ Head(line[p]) = line[p][1] /\ Head(line[p]) \in Seq(Frames) \ {<<>>}
         /\ Behind(Head(line[p])) \in Seq(Nat)
<1> DEFINE g == Head(line[p])
<1>1. line[p] \in Seq(Seq(Frames) \ {<<>>})  BY DEF LinesTyped
<1>2. g \in Seq(Frames) \ {<<>>} /\ g = line[p][1]  BY <1>1
<1> HIDE DEF g
<1>3. Len(g) - 1 \in Nat  BY <1>2
<1>4. \A i \in 1 .. Len(g) - 1 : g[i + 1] \in Frames  BY <1>2, <1>3
<1>5. \A i \in 1 .. Len(g) - 1 : g[i + 1].type = "I" => g[i + 1].piece \in Nat
  BY <1>4, FrameKinds DEF IFrames
<1>6. Behind(g) \in Seq(Nat)
  <2>1. Behind(g) \in [1 .. Len(g) - 1 -> Nat]  BY <1>5 DEF Behind
  <2> QED  BY <1>3, <2>1
<1> QED  BY <1>2, <1>6 DEF g

\* The memory v42_init clears.
LEMMA ClearedTyped == Typed(Cleared)
<1> DEFINE c == Cleared
<1>1. <<>> \in Seq(IFrames) /\ <<>> \in Seq(Frames)  OBVIOUS
<1>2. /\ c.next_tx_frame = 0 /\ c.last_frame_peer_acknowledged = 0
      /\ c.next_expected_frame = 0 /\ c.last_frame_we_acknowledged = 0
      /\ c.retransmissions = 0 /\ c.t401 = 0
      /\ c.txqueue = <<>> /\ c.buffer = <<>> /\ c.crc = FALSE
      /\ c.state = "DETECT" /\ c.txadps = 0 /\ c.solicit_f_bit = FALSE
      /\ c.tx_last = "null" /\ c.odp_seen = FALSE
  BY DEF Cleared
<1>3. Whole(c)  BY DEF Cleared, Whole, All
<1> HIDE DEF c
<1>4. Counters(c) /\ Tried(c)  BY <1>2, Bounds DEF Counters, Tried
<1>5. Stores(c)  BY <1>1, <1>2 DEF Stores
<1>6. Modes(c)  BY <1>2, Bounds DEF Modes, States
<1> QED  BY <1>3, <1>4, <1>5, <1>6 DEF Typed, Contents, c

\* Both ends after v42_init.
LEMMA InitTyped == Init => TypeInv
<1> SUFFICES ASSUME Init PROVE TypeInv  OBVIOUS
<1>1. PICK sc \in Scenarios :
        /\ end = [p \in Peer |-> V42Restart([Cleared EXCEPT !.detect = sc.detect])]
        /\ unwritten = sc.data /\ faults = sc.faults
  BY DEF Init
<1>2. Typed(Cleared)  BY ClearedTyped
<1>3. Typed([Cleared EXCEPT !.detect = sc.detect])
  <2> DEFINE c == Cleared
  <2>1. Typed(c)  BY <1>2
  <2> HIDE DEF c
  <2>2. Typed([c EXCEPT !.detect = sc.detect])
    BY <2>1 DEF Typed, Whole, Contents, Counters, Stores, Modes, Tried, All
  <2> QED  BY <2>2 DEF c
<1> DEFINE t == V42Restart([Cleared EXCEPT !.detect = sc.detect])
<1>4. Typed(t)  BY <1>3, TypedV42Restart
<1> HIDE DEF t
<1>5. EndsTyped  BY <1>1, <1>4 DEF EndsTyped, t
<1>6. LinesTyped
  <2>1. line = [p \in Peer |-> <<>>]  BY DEF Init
  <2>2. <<>> \in Seq(Seq(Frames) \ {<<>>})  OBVIOUS
  <2> QED  BY <2>1, <2>2 DEF LinesTyped
<1>7. CountsTyped
  <2>1. sc.data \in [Peer -> Nat] /\ sc.faults \in Nat  BY LapmAssumption
  <2> QED  BY <1>1, <2>1 DEF Init, CountsTyped
<1> QED  BY <1>5, <1>6, <1>7 DEF TypeInv

\* The applications.
LEMMA ApplicationTyped == ASSUME TypeInv, NEW p \in Peer, Application(p) PROVE TypeInv'
<1>1. Typed(end[p]) /\ EndsTyped /\ LinesTyped /\ CountsTyped  BY DEF TypeInv, EndsTyped
<1>2. CASE Write(p)
  <2>1. EndsTyped' /\ LinesTyped'  BY <1>1, <1>2 DEF Write, EndsTyped, LinesTyped
  <2>2. CountsTyped'  BY <1>1, <1>2 DEF Write, CountsTyped
  <2> QED  BY <2>1, <2>2 DEF TypeInv
<1>3. CASE Release(p)
  <2> DEFINE t == [end[p] EXCEPT !.state = "RELEASE"]
  <2>1. Typed(t)
    BY <1>1 DEF Typed, Whole, Contents, Counters, Stores, Modes, Tried, All, States
  <2> HIDE DEF t
  <2>2. end' = [end EXCEPT ![p] = t]  BY <1>3 DEF Release, t
  <2>3. LinesTyped' /\ CountsTyped'  BY <1>1, <1>3 DEF Release, Fault, LinesTyped, CountsTyped
  <2> QED  BY <1>1, <2>1, <2>2, <2>3, OneTyped DEF TypeInv
<1>4. CASE StartAgain(p)
  <2>1. Typed(V42Restart(end[p]))  BY <1>1, TypedV42Restart
  <2>2. end' = [end EXCEPT ![p] = V42Restart(end[p])]  BY <1>4 DEF StartAgain
  <2>3. LinesTyped' /\ CountsTyped'
    BY <1>1, <1>4 DEF StartAgain, Fault, LinesTyped, CountsTyped
  <2> QED  BY <1>1, <2>1, <2>2, <2>3, OneTyped DEF TypeInv
<1> QED  BY <1>2, <1>3, <1>4 DEF Application

\* The detection of V.42.
LEMMA DetectionTyped == ASSUME TypeInv, SeeOdp \/ SendAdp \/ SeeAdp PROVE TypeInv'
<1>1. Answerer \in Peer /\ Caller \in Peer /\ EndsTyped /\ LinesTyped /\ CountsTyped
  BY DEF Peer, TypeInv
<1>2. Typed(end[Answerer]) /\ Typed(end[Caller])  BY <1>1 DEF EndsTyped
<1>3. LinesTyped' /\ CountsTyped'
  BY <1>1 DEF SeeOdp, SendAdp, SeeAdp, LinesTyped, CountsTyped
<1>4. CASE SeeOdp
  <2> DEFINE t == [end[Answerer] EXCEPT !.odp_seen = TRUE]
  <2>1. Typed(t)
    BY <1>2 DEF Typed, Whole, Contents, Counters, Stores, Modes, Tried, All
  <2>2. end' = [end EXCEPT ![Answerer] = t]  BY <1>4 DEF SeeOdp
  <2> HIDE DEF t
  <2> QED  BY <1>1, <1>3, <2>1, <2>2, OneTyped DEF TypeInv
<1>5. CASE SendAdp
  <2> DEFINE s == end[Answerer]
             r == StopT400(s)
             u == [r EXCEPT !.txadps = Adps, !.state = "ESTABLISH"]
             v == [s EXCEPT !.txadps = @ + 1]
             t == IF s.txadps + 1 = Adps THEN u ELSE v
  <2>1. end' = [end EXCEPT ![Answerer] = t]  BY <1>5 DEF SendAdp
  <2>2. Typed(r)  BY <1>2, TypedStops
  <2> HIDE DEF r
  <2>3. Typed(u)
    <3>1. Whole(u) /\ u.txadps = Adps /\ u.state = "ESTABLISH"
          /\ \A x \in All \ {"txadps", "state"} : u[x] = r[x]
      BY <2>2 DEF Typed, Whole, All
    <3> HIDE DEF u
    <3>2. Counters(u) /\ Stores(u) /\ Tried(u)
      BY <2>2, <3>1 DEF Typed, Contents, Counters, Stores, Tried, All
    <3>3. Modes(u)  BY <2>2, <3>1, Bounds DEF Typed, Contents, Modes, All, States
    <3> QED  BY <3>1, <3>2, <3>3 DEF Typed, Contents
  <2>4. s.txadps + 1 # Adps => Typed(v)
    <3>1. Whole(v) /\ v.txadps = s.txadps + 1 /\ \A x \in All \ {"txadps"} : v[x] = s[x]
      BY <1>2 DEF Typed, Whole, All
    <3>2. s.state = "DETECT"  BY <1>5 DEF SendAdp
    <3> HIDE DEF v
    <3>3. Typed(s)  BY <1>2
    <3> HIDE DEF s
    <3>4. Counters(v) /\ Stores(v) /\ Tried(v)
      BY <3>1, <3>3 DEF Typed, Contents, Counters, Stores, Tried, All
    <3>5. s.txadps + 1 # Adps => Modes(v)
      BY <3>1, <3>2, <3>3, Bounds DEF Typed, Contents, Modes, All
    <3> QED  BY <3>1, <3>4, <3>5 DEF Typed, Contents
  <2> HIDE DEF u, v
  <2>5. Typed(t)  BY <2>3, <2>4
  <2> HIDE DEF t
  <2> QED  BY <1>1, <1>3, <2>1, <2>5, OneTyped DEF TypeInv
<1>6. CASE SeeAdp
  <2> DEFINE r == StopT400(end[Caller])
             t == [r EXCEPT !.state = "ESTABLISH"]
  <2>1. end' = [end EXCEPT ![Caller] = t]  BY <1>6 DEF SeeAdp
  <2>2. Typed(r)  BY <1>2, TypedStops
  <2> HIDE DEF r
  <2>3. Typed(t)
    BY <2>2 DEF Typed, Whole, Contents, Counters, Stores, Modes, Tried, All, States
  <2> HIDE DEF t
  <2> QED  BY <1>1, <1>3, <2>1, <2>3, OneTyped DEF TypeInv
<1> QED  BY <1>4, <1>5, <1>6

\* The transmitter has sent its frame.
LEMMA EmptiedTyped ==
  ASSUME NEW e, Typed(e)
  PROVE  Typed([e EXCEPT !.buffer = <<>>, !.crc = FALSE])
<1> DEFINE s == [e EXCEPT !.buffer = <<>>, !.crc = FALSE]
<1>1. /\ Whole(s) /\ s.buffer = <<>> /\ s.crc = FALSE
      /\ \A x \in All \ {"buffer", "crc"} : s[x] = e[x]
  BY DEF Typed, Whole, All
<1> HIDE DEF s
<1>2. Stores(s)  BY <1>1, Bounds DEF Typed, Contents, Stores, All
<1>3. Counters(s) /\ Modes(s) /\ Tried(s)
  BY <1>1 DEF Typed, Contents, Counters, Modes, Tried, All
<1> QED  BY <1>1, <1>2, <1>3 DEF Typed, Contents, s

\* The HDLC transmitter.
LEMMA TransmitTyped == ASSUME TypeInv, NEW p \in Peer, Transmit(p) PROVE TypeInv'
<1>1. Typed(end[p]) /\ EndsTyped /\ LinesTyped /\ CountsTyped  BY DEF TypeInv, EndsTyped
<1>2. CASE BeginCrc(p)
  <2> DEFINE t == [end[p] EXCEPT !.crc = TRUE]
  <2>1. end[p].buffer # <<>>  BY <1>2 DEF BeginCrc
  <2>2. Typed(t)
    BY <1>1, <2>1 DEF Typed, Whole, Contents, Counters, Stores, Modes, Tried, All
  <2>3. end' = [end EXCEPT ![p] = t]  BY <1>2 DEF BeginCrc
  <2> HIDE DEF t
  <2>4. LinesTyped' /\ CountsTyped'  BY <1>1, <1>2 DEF BeginCrc, LinesTyped, CountsTyped
  <2> QED  BY <1>1, <2>2, <2>3, <2>4, OneTyped DEF TypeInv
<1>3. CASE EndFrame(p)
  <2> DEFINE s == [end[p] EXCEPT !.buffer = <<>>, !.crc = FALSE]
             more == s.state = "DATA" /\ Pending(p)
             t == IF more THEN TxIframe(s, read[p] + 1) ELSE s
  <2>1. Typed(s)  BY <1>1, EmptiedTyped
  <2>2. end' = [end EXCEPT ![p] = t]  BY <1>3 DEF EndFrame
  <2>3. CountsTyped'
    <3>1. /\ Take(p, more) /\ unwritten' = unwritten /\ delivered' = delivered
          /\ behind' = behind /\ faults' = faults
      BY <1>3 DEF EndFrame
    <3>2. more \in BOOLEAN /\ (more => Pending(p))  OBVIOUS
    <3> HIDE DEF more
    <3> QED  BY <1>1, <3>1, <3>2, TakeTyped
  <2> HIDE DEF s
  <2>4. read[p] + 1 \in Nat  BY <1>1 DEF CountsTyped
  <2>5. Typed(t)  BY <2>1, <2>4, TypedTxIframe
  <2> HIDE DEF t
  <2>6. LinesTyped'
    <3>1. end[p].buffer \in Seq(Frames) /\ end[p].buffer # <<>>
      BY <1>1, <1>3 DEF EndFrame, Typed, Contents, Stores
    <3>2. Other(p) \in Peer  BY DEF Other, Peer
    <3>3. line' = [line EXCEPT ![Other(p)] = Append(@, end[p].buffer)]  BY <1>3 DEF EndFrame
    <3> QED  BY <1>1, <3>1, <3>2, <3>3, LineLonger
  <2> QED  BY <1>1, <2>2, <2>3, <2>5, <2>6, OneTyped DEF TypeInv
<1> QED  BY <1>2, <1>3 DEF Transmit

\* A frame is taken from the line.
LEMMA ArrivesTyped ==
  ASSUME LinesTyped, NEW p \in Peer, NEW k, Arrives(p, k)
  PROVE  /\ LinesTyped' /\ Frame(p) \in Frames /\ Frame(p).type = k
         /\ unwritten' = unwritten /\ faults' = faults
<1>1. line[p] # <<>> /\ line' = [line EXCEPT ![p] = Tail(@)]  BY DEF Arrives
<1> QED  BY <1>1, LineShorter, FrontFrame DEF Arrives, Frame

\* A frame arrives.
LEMMA ReceiveTyped == ASSUME TypeInv, NEW p \in Peer, Receive(p) PROVE TypeInv'
<1> DEFINE s == end[p]
           f == Frame(p)
<1>1. Typed(s) /\ EndsTyped /\ LinesTyped /\ CountsTyped  BY DEF TypeInv, EndsTyped
<1>2. read[p] + 1 \in Nat  BY <1>1 DEF CountsTyped
<1>3. UFrame("UA") \in Frames  BY DEF UFrame, Frames
<1>4. Typed(TxFrame(s, UFrame("UA")))  BY <1>1, <1>3, TypedTxFrame
<1>5. ASSUME waiting' = waiting, read' = read, unwritten' = unwritten, faults' = faults,
             delivered' = delivered, behind' = behind
      PROVE  CountsTyped'
  BY <1>1, <1>5 DEF CountsTyped
<1>6. ASSUME NEW r, Typed(r), ComesUp(p, r), unwritten' = unwritten, faults' = faults
      PROVE  EndsTyped' /\ CountsTyped'
  <2> DEFINE t == LinkUp(r, Pending(p), read[p] + 1)
  <2>1. Typed(t)  BY <1>2, <1>6, TypedLinkUp
  <2>2. end' = [end EXCEPT ![p] = t]  BY <1>6 DEF ComesUp
  <2> HIDE DEF t
  <2>3. Take(p, Pending(p)) /\ delivered' = delivered /\ behind' = behind  BY <1>6 DEF ComesUp
  <2>4. Pending(p) \in BOOLEAN  BY DEF Pending
  <2>5. CountsTyped'  BY <1>1, <1>6, <2>3, <2>4, TakeTyped
  <2> QED  BY <1>1, <2>1, <2>2, <2>5, OneTyped
<1> HIDE DEF s
<1>7. CASE ReceiveI(p)
  <2> DEFINE e == [s EXCEPT !.next_expected_frame = (@ + 1) % Mod]
             a == AckRx(e, f.nr)
             b == IF f.pf THEN Rr(a, TRUE) ELSE a
             c == IF b.last_frame_we_acknowledged # b.next_expected_frame
                    THEN Rr(b, FALSE) ELSE b
             t == IF s.state # "DATA" THEN s
                  ELSE IF Expected(s, f) THEN c
                  ELSE IF (s.next_expected_frame - f.ns) % Mod < Window THEN Rr(s, FALSE)
                  ELSE Reject(s)
  <2>1. end' = [end EXCEPT ![p] = t]  BY <1>7 DEF ReceiveI, s
  <2>2. LinesTyped' /\ f \in IFrames /\ unwritten' = unwritten /\ faults' = faults
    BY <1>1, <1>7, ArrivesTyped, FrameKinds DEF ReceiveI
  <2>3. f.nr \in Numbers /\ f.pf \in BOOLEAN /\ f.piece \in Nat  BY <2>2 DEF IFrames
  <2>4. Typed(e) /\ e.state = s.state
    <3>1. (s.next_expected_frame + 1) % Mod \in Numbers
      BY <1>1, Bounds DEF Typed, Contents, Counters, Numbers
    <3> DEFINE k == (s.next_expected_frame + 1) % Mod
    <3>2. e = [s EXCEPT !.next_expected_frame = k]  BY <1>1 DEF Typed, Whole, All
    <3> HIDE DEF k, e
    <3>3. k \in Numbers  BY <3>1 DEF k
    <3> QED
      BY <1>1, <3>2, <3>3 DEF Typed, Whole, Contents, Counters, Stores, Modes, Tried, All
  <2> HIDE DEF f, e
  <2>5. ASSUME s.state = "DATA" PROVE Typed(a)  BY <2>3, <2>4, <2>5, TypedAckRx
  <2> HIDE DEF a
  <2>6. ASSUME s.state = "DATA" PROVE Typed(b)  BY <2>5, <2>6, TypedRr
  <2> HIDE DEF b
  <2>7. ASSUME s.state = "DATA" PROVE Typed(c)  BY <2>6, <2>7, TypedRr
  <2> HIDE DEF c
  <2>8. Typed(Rr(s, FALSE)) /\ Typed(Reject(s))  BY <1>1, TypedRr
  <2>9. Typed(t)  BY <1>1, <2>7, <2>8
  <2> HIDE DEF t
  <2>10. CountsTyped'
    <3> DEFINE g == Head(line[p])
    <3>1. /\ delivered' = [delivered EXCEPT ![p] = IF Expected(s, f) THEN f.piece ELSE @]
          /\ behind' = [behind EXCEPT ![p] = IF Expected(s, f) THEN Behind(g) ELSE @]
          /\ waiting' = waiting /\ read' = read
      BY <1>7 DEF ReceiveI, s, f
    <3>2. Behind(g) \in Seq(Nat)
      <4>1. line[p] # <<>>  BY <1>7 DEF ReceiveI, Arrives
      <4> QED  BY <1>1, <4>1, FrontBehind
    <3> HIDE DEF g
    <3> QED  BY <1>1, <2>2, <2>3, <3>1, <3>2 DEF CountsTyped
  <2> QED  BY <1>1, <2>1, <2>2, <2>9, <2>10, OneTyped DEF TypeInv
<1>8. CASE ReceiveRr(p)
  <2> DEFINE a == AckRx(s, f.nr)
             b == IF a.solicit_f_bit THEN a ELSE Rr(a, TRUE)
             c == [b EXCEPT !.solicit_f_bit = FALSE]
             t == IF s.state # "DATA" THEN s ELSE IF f.pf THEN c ELSE a
  <2>1. end' = [end EXCEPT ![p] = t]  BY <1>8 DEF ReceiveRr, s
  <2>2. LinesTyped' /\ f.nr \in Numbers /\ unwritten' = unwritten /\ faults' = faults
    BY <1>1, <1>8, ArrivesTyped, FrameKinds DEF ReceiveRr
  <2> HIDE DEF f
  <2>3. ASSUME s.state = "DATA" PROVE Typed(a)  BY <1>1, <2>2, <2>3, TypedAckRx
  <2> HIDE DEF a
  <2>4. ASSUME s.state = "DATA" PROVE Typed(b)  BY <2>3, <2>4, TypedRr
  <2> HIDE DEF b
  <2>5. ASSUME s.state = "DATA" PROVE Typed(c)
    BY <2>4, <2>5 DEF Typed, Whole, Contents, Counters, Stores, Modes, Tried, All
  <2> HIDE DEF c
  <2>6. Typed(t)  BY <1>1, <2>3, <2>5
  <2> HIDE DEF t
  <2>7. CountsTyped'  BY <1>5, <1>8, <2>2 DEF ReceiveRr
  <2> QED  BY <1>1, <2>1, <2>2, <2>6, <2>7, OneTyped DEF TypeInv
<1>9. CASE ReceiveRej(p)
  <2> DEFINE r == IF f.pf THEN Rr(s, TRUE) ELSE s
             t == IF s.state # "DATA" THEN s ELSE Retransmit(r, f.nr)
  <2>1. end' = [end EXCEPT ![p] = t]  BY <1>9 DEF ReceiveRej, s
  <2>2. LinesTyped' /\ f.nr \in Numbers /\ unwritten' = unwritten /\ faults' = faults
    BY <1>1, <1>9, ArrivesTyped, FrameKinds DEF ReceiveRej
  <2> HIDE DEF f
  <2>3. Typed(r) /\ r.state = s.state
    <3>1. Rr(s, TRUE).state = s.state
      <4>1. Fields \subseteq DOMAIN s  BY <1>1 DEF Typed, Whole, All, Fields
      <4> QED  BY <4>1, RrSame DEF Same
    <3>2. Typed(Rr(s, TRUE))  BY <1>1, TypedRr
    <3> QED  BY <1>1, <3>1, <3>2
  <2> HIDE DEF r
  <2>4. Typed(t)  BY <1>1, <2>2, <2>3, TypedRetransmit
  <2> HIDE DEF t
  <2>5. CountsTyped'  BY <1>5, <1>9, <2>2 DEF ReceiveRej
  <2> QED  BY <1>1, <2>1, <2>2, <2>4, <2>5, OneTyped DEF TypeInv
<1>10. CASE ReceiveSabme(p)
  <2>1. LinesTyped' /\ unwritten' = unwritten /\ faults' = faults
    BY <1>1, <1>10, ArrivesTyped DEF ReceiveSabme
  <2>2. ComesUp(p, TxFrame(s, UFrame("UA")))  BY <1>10 DEF ReceiveSabme, s
  <2> QED  BY <1>4, <1>6, <2>1, <2>2 DEF TypeInv, s
<1>11. CASE ReceiveUa(p)
  <2>1. LinesTyped' /\ unwritten' = unwritten /\ faults' = faults
    BY <1>1, <1>11, ArrivesTyped DEF ReceiveUa
  <2>2. CASE ComesUp(p, s)  BY <1>1, <1>6, <2>1, <2>2 DEF TypeInv
  <2>3. CASE UNCHANGED <<end, waiting, read, delivered, behind>>
    <3>1. EndsTyped'  BY <1>1, <2>3 DEF EndsTyped
    <3>2. CountsTyped'  BY <1>5, <2>1, <2>3
    <3> QED  BY <2>1, <3>1, <3>2 DEF TypeInv
  <2> QED  BY <1>11, <2>2, <2>3 DEF ReceiveUa, s
<1>12. CASE ReceiveDisc(p)
  <2> DEFINE t == Reset(TxFrame(s, UFrame("UA")))
  <2>1. end' = [end EXCEPT ![p] = t]  BY <1>12 DEF ReceiveDisc, s
  <2>2. LinesTyped' /\ unwritten' = unwritten /\ faults' = faults
    BY <1>1, <1>12, ArrivesTyped DEF ReceiveDisc
  <2>3. Typed(t)  BY <1>4, TypedReset DEF Typed, s
  <2> HIDE DEF t
  <2>4. CountsTyped'  BY <1>5, <1>12, <2>2 DEF ReceiveDisc
  <2> QED  BY <1>1, <2>1, <2>2, <2>3, <2>4, OneTyped DEF TypeInv
<1>13. CASE ReceiveDm(p)
  <2> DEFINE t == Restart(IF f.pf THEN Reset(s) ELSE s)
  <2>1. end' = [end EXCEPT ![p] = t]  BY <1>13 DEF ReceiveDm, s
  <2>2. LinesTyped' /\ unwritten' = unwritten /\ faults' = faults
    BY <1>1, <1>13, ArrivesTyped DEF ReceiveDm
  <2>3. Typed(Reset(s))  BY <1>1, TypedReset DEF Typed
  <2>4. Typed(t)  BY <1>1, <2>3, TypedRestart
  <2> HIDE DEF t
  <2>5. CountsTyped'  BY <1>5, <1>13, <2>2 DEF ReceiveDm
  <2> QED  BY <1>1, <2>1, <2>2, <2>4, <2>5, OneTyped DEF TypeInv
<1>14. CASE Ignore(p)
  <2>1. EndsTyped'  BY <1>1, <1>14 DEF Ignore, EndsTyped
  <2>2. LinesTyped'  BY <1>1, <1>14, LineShorter DEF Ignore
  <2>3. CountsTyped'  BY <1>5, <1>14 DEF Ignore
  <2> QED  BY <2>1, <2>2, <2>3 DEF TypeInv
<1> QED
  BY <1>7, <1>8, <1>9, <1>10, <1>11, <1>12, <1>13, <1>14 DEF Receive

\* A callback that fires has a handle, so that its end has not given up yet.
LEMMA LiveTried ==
  ASSUME NEW s, Typed(s), EndInv(s), NEW i \in 1 .. Slots, s.sched[i] \in {"sabme", "t401"}
  PROVE  s.retransmissions <= N_400
<1>1. s.t401 = i /\ i # 0
  BY DEF EndInv, Shape, Owned, Covered, Handles
<1>2. ~(s.retransmissions > N_400)  BY <1>1 DEF Typed, Tried
<1>3. s.retransmissions \in 0 .. N_400 + 1 /\ N_400 \in Nat
  BY Bounds DEF Typed, Contents, Counters
<1> QED  BY <1>2, <1>3

\* A timer expires.
LEMMA TimersTyped == ASSUME Inv, TypeInv, NEW p \in Peer, Timers(p) PROVE TypeInv'
<1> DEFINE s == end[p]
           one(i) == [s EXCEPT !.sched[i] = "none"]
           four(i) == [one(i) EXCEPT !.t400 = 0, !.state = "UNSUPPORTED"]
           first(i) == [one(i) EXCEPT !.t401 = 0]
           third(i) == [one(i) EXCEPT !.t403 = 0]
<1>1. Typed(s) /\ EndsTyped /\ LinesTyped /\ CountsTyped /\ EndInv(s)
  BY DEF TypeInv, EndsTyped, Inv
<1>2. LinesTyped' /\ CountsTyped'
  <2>1. UNCHANGED <<line, unwritten, waiting, read, delivered, behind>>
    BY DEF Timers, FireSabme, FireT400, FireT401, FireT403, Fire
  <2>2. faults' \in Nat
    BY <1>1 DEF CountsTyped, Timers, FireSabme, FireT400, FireT401, FireT403, Fault
  <2>3. LinesTyped'  BY <1>1, <2>1 DEF LinesTyped
  <2>4. CountsTyped'  BY <1>1, <2>1, <2>2 DEF CountsTyped
  <2> QED  BY <2>3, <2>4
<1>3. ASSUME NEW i \in 1 .. Slots, s.sched[i] \in {"sabme", "t401"}
      PROVE  s.retransmissions <= N_400
  BY <1>1, <1>3, LiveTried
<1> HIDE DEF s
<1>4. \A i : Typed(one(i)) /\ one(i).retransmissions = s.retransmissions
  BY <1>1 DEF Typed, Whole, Contents, Counters, Stores, Modes, Tried, All
<1> HIDE DEF one
<1>5. \A i : Typed(first(i)) /\ first(i).retransmissions = s.retransmissions
  BY <1>4 DEF Typed, Whole, Contents, Counters, Stores, Modes, Tried, All
<1>6. \A i : Typed(third(i))
  BY <1>4 DEF Typed, Whole, Contents, Counters, Stores, Modes, Tried, All
<1>7. \A i : Typed(four(i))
  BY ZenonT(30), <1>4 DEF Typed, Whole, Contents, Counters, Stores, Modes, Tried, All, States
<1>8. CASE FireSabme(p)
  <2>1. PICK i \in 1 .. Slots :
          /\ s.sched[i] = "sabme"
          /\ end' = [end EXCEPT ![p] = SendSabme(one(i))]
    BY <1>8 DEF FireSabme, Fire, s, one
  <2>2. Typed(SendSabme(one(i)))  BY <1>3, <1>4, <2>1, TypedSendSabme
  <2> QED  BY <1>1, <1>2, <2>1, <2>2, OneTyped DEF TypeInv
<1>9. CASE FireT400(p)
  <2>1. PICK i \in 1 .. Slots : end' = [end EXCEPT ![p] = four(i)]
    BY <1>9 DEF FireT400, Fire, s, one
  <2> QED  BY <1>1, <1>2, <1>7, <2>1, OneTyped DEF TypeInv
<1>10. CASE FireT401(p)
  <2>1. PICK i \in 1 .. Slots :
          /\ s.sched[i] = "t401"
          /\ end' = [end EXCEPT ![p] = T401Expired(first(i))]
    BY <1>10 DEF FireT401, Fire, s, one
  <2>2. Typed(T401Expired(first(i)))  BY <1>3, <1>5, <2>1, TypedT401Expired
  <2> QED  BY <1>1, <1>2, <2>1, <2>2, OneTyped DEF TypeInv
<1>11. CASE FireT403(p)
  <2>1. PICK i \in 1 .. Slots : end' = [end EXCEPT ![p] = T403Expired(third(i))]
    BY <1>11 DEF FireT403, Fire, s, one
  <2>2. Typed(T403Expired(third(i)))  BY <1>6, TypedT403Expired
  <2> QED  BY <1>1, <1>2, <2>1, <2>2, OneTyped DEF TypeInv
<1> QED  BY <1>8, <1>9, <1>10, <1>11 DEF Timers

\* The line corrupts a frame, or brings one of another make.
LEMMA LineTyped == ASSUME TypeInv, NEW p \in Peer, Corrupt(p) \/ Inject(p) PROVE TypeInv'
<1>1. EndsTyped /\ LinesTyped /\ CountsTyped  BY DEF TypeInv
<1>2. EndsTyped' /\ CountsTyped'
  BY <1>1 DEF Corrupt, Inject, Fault, EndsTyped, CountsTyped
<1>3. CASE Corrupt(p)  BY <1>1, <1>2, <1>3, LineShorter DEF Corrupt, TypeInv
<1>4. CASE Inject(p)
  <2>1. PICK f \in Foreign : line' = [line EXCEPT ![p] = Append(@, <<f>>)]  BY <1>4 DEF Inject
  <2>2. <<f>> \in Seq(Frames) /\ <<f>> # <<>>
    <3>1. f \in Frames  BY Bounds
    <3> QED  BY <3>1
  <2> QED  BY <1>1, <1>2, <2>1, <2>2, LineLonger DEF TypeInv
<1> QED  BY <1>3, <1>4

\* Every step.
LEMMA NextTyped == Inv /\ TypeInv /\ [Next]_vars => TypeInv'
<1> SUFFICES ASSUME Inv, TypeInv, [Next]_vars PROVE TypeInv'  OBVIOUS
<1>1. CASE SeeOdp \/ SendAdp \/ SeeAdp  BY <1>1, DetectionTyped
<1>2. ASSUME NEW p \in Peer, Application(p) PROVE TypeInv'  BY <1>2, ApplicationTyped
<1>3. ASSUME NEW p \in Peer, Transmit(p) PROVE TypeInv'  BY <1>3, TransmitTyped
<1>4. ASSUME NEW p \in Peer, Receive(p) PROVE TypeInv'  BY <1>4, ReceiveTyped
<1>5. ASSUME NEW p \in Peer, Timers(p) PROVE TypeInv'  BY <1>5, TimersTyped
<1>6. ASSUME NEW p \in Peer, Corrupt(p) \/ Inject(p) PROVE TypeInv'  BY <1>6, LineTyped
<1>7. CASE UNCHANGED vars
  BY <1>7 DEF vars, TypeInv, EndsTyped, LinesTyped, CountsTyped
<1> QED  BY <1>1, <1>2, <1>3, <1>4, <1>5, <1>6, <1>7 DEF Next

\* Typed ends are what TypeOK says.
LEMMA TypesFollow == Inv /\ TypeInv => TypeOK
<1> SUFFICES ASSUME Inv, TypeInv PROVE TypeOK  OBVIOUS
<1>1. ASSUME NEW p \in Peer PROVE end[p] \in Ends
  <2> DEFINE s == end[p]
  <2>1. EndInv(s) /\ Typed(s)  BY DEF Inv, TypeInv, EndsTyped
  <2> HIDE DEF s
  <2>2. s.txqueue \in Seq(Frames)
    <3>1. s.txqueue \in Seq(IFrames)  BY <2>1 DEF Typed, Contents, Stores
    <3> QED  BY <3>1, FrameKinds
  <2>3. /\ s.sched \in [1 .. Slots -> {"none", "sabme", "t401", "t403", "t400"}]
        /\ s.t400 \in Handles /\ s.t401 \in Handles /\ s.t403 \in Handles
        /\ s.detect \in BOOLEAN
    BY <2>1 DEF EndInv, Shape, Detecting, Callbacks
  <2>4. s \in Ends
    BY <2>1, <2>2, <2>3
    DEF Ends, Typed, Whole, Contents, Counters, Stores, Modes, States, All
  <2> QED  BY <2>4 DEF s
<1>2. end \in [Peer -> Ends]
  <2>1. end = [p \in Peer |-> end[p]]  BY DEF TypeInv, EndsTyped
  <2> QED  BY <1>1, <2>1
<1> QED  BY <1>2 DEF TypeInv, LinesTyped, CountsTyped, TypeOK

\* All values keep their types; in particular no end tries more often than
\* N_400 times without an answer, and the answerer never sends more than Adps
\* patterns.
THEOREM TypesKept == Spec /\ []DmFinal => []TypeOK
<1>1. Init => Inv /\ TypeInv  BY InitInv, InitTyped
<1>2. Inv /\ TypeInv /\ DmFinal /\ [Next]_vars => (Inv /\ TypeInv)'  BY NextInv, NextTyped
<1> QED  BY <1>1, <1>2, TypesFollow, PTL DEF Spec

-----------------------------------------------------------------------------
(* Numbers: the queue holds the frames from the last one acknowledged up to  *)
(* the next to be sent. Before its first I frame an end must not be          *)
(* acknowledged anything: neither the peer nor the line has counted one.     *)

Acks == {"I", "RR", "REJ"}
Timing == {"sched", "t400", "t401", "t403"}
SameBut(X, s, t) == \A x \in All \ X : t[x] = s[x]

\* The queue of an end whose tx_last does not dangle.
Numbered(s) ==
  /\ s.tx_last = "tail" =>
       /\ s.txqueue # <<>>
       /\ s.next_tx_frame = (s.last_frame_peer_acknowledged + Len(s.txqueue)) % Mod
       /\ \A i \in 1 .. Len(s.txqueue) :
            s.txqueue[i].ns = (s.last_frame_peer_acknowledged + i - 1) % Mod
  /\ s.tx_last # "tail" => s.txqueue = <<>>
  /\ s.tx_last = "null" => s.next_tx_frame = 0 /\ s.last_frame_peer_acknowledged = 0

\* An end that has not sent an I frame yet, and one that has not received one.
Hushed(s) == s.tx_last = "null" /\ s.buffer # <<>> => s.buffer[1].type # "I"
Zeroed(s) ==
  /\ s.next_expected_frame = 0
  /\ \A i \in 1 .. Len(s.txqueue) : s.txqueue[i].nr = 0
  /\ s.buffer # <<>> /\ s.buffer[1].type \in Acks => s.buffer[1].nr = 0

Fits(s) == Numbered(s) /\ Hushed(s)

\* What an operator that sends makes of an end.
Later(s, t) ==
  /\ Fits(t)
  /\ t.tx_last = "null" => s.tx_last = "null"
  /\ Zeroed(s) => Zeroed(t)

\* One operator after another.
LEMMA LaterTwice ==
  ASSUME NEW s, NEW t, NEW u, Later(s, t), Later(t, u)
  PROVE  Later(s, u)
BY DEF Later

\* The timers' operators change the timers only.
LEMMA TimersOnly ==
  ASSUME NEW s, Whole(s)
  PROVE  /\ SameBut(Timing, s, StopT401(s)) /\ SameBut(Timing, s, StopT403(s))
         /\ SameBut(Timing, s, StopT400(s))
         /\ SameBut(Timing, s, StartT403(s)) /\ \A c : SameBut(Timing, s, StartT401(s, c))
<1>1. SameBut(Timing, s, StopT401(s))  BY DEF SameBut, Timing, StopT401, Whole, All
<1>2. SameBut(Timing, s, StopT403(s))  BY DEF SameBut, Timing, StopT403, Whole, All
<1>3. SameBut(Timing, s, StartT403(s))  BY DEF SameBut, Timing, StartT403, Whole, All
<1>4. \A c : SameBut(Timing, s, StartT401(s, c))  BY DEF SameBut, Timing, StartT401, Whole, All
<1>5. SameBut(Timing, s, StopT400(s))  BY DEF SameBut, Timing, StopT400, Whole, All
<1> QED  BY <1>1, <1>2, <1>3, <1>4, <1>5

\* Timers do not matter for the numbers.
LEMMA LaterTimers ==
  ASSUME NEW s, NEW t, Fits(s), SameBut(Timing, s, t)
  PROVE  Later(s, t)
<1>1. /\ t.tx_last = s.tx_last /\ t.txqueue = s.txqueue /\ t.buffer = s.buffer
      /\ t.next_tx_frame = s.next_tx_frame /\ t.next_expected_frame = s.next_expected_frame
      /\ t.last_frame_peer_acknowledged = s.last_frame_peer_acknowledged
  BY DEF SameBut, Timing, All
<1>2. Fits(t)  BY <1>1 DEF Fits, Numbered, Hushed
<1>3. Zeroed(s) => Zeroed(t)  BY <1>1 DEF Zeroed
<1> QED  BY <1>1, <1>2, <1>3 DEF Later

\* A frame is sent.
LEMMA LaterTxFrame ==
  ASSUME NEW s, Typed(s), Fits(s), NEW f,
         f.type = "I" => s.tx_last # "null", Zeroed(s) /\ f.type \in Acks => f.nr = 0
  PROVE  Later(s, TxFrame(s, f))
<1> DEFINE t == TxFrame(s, f)
<1>1. \/ t = s
      \/ /\ t = [s EXCEPT !.buffer = Append(s.buffer, f)]
         /\ SameBut({"buffer"}, s, t) /\ t.buffer = Append(s.buffer, f)
  <2> DEFINE b == Append(s.buffer, f)
  <2>1. t \in {s, [s EXCEPT !.buffer = b]}  BY DEF TxFrame
  <2> HIDE DEF b, t
  <2>2. t = [s EXCEPT !.buffer = b] => SameBut({"buffer"}, s, t) /\ t.buffer = b
    BY DEF SameBut, Typed, Whole, All
  <2> QED  BY <2>1, <2>2 DEF b
<1> HIDE DEF t
<1>2. CASE t = s  BY <1>2 DEF Later, t
<1>3. CASE SameBut({"buffer"}, s, t) /\ t.buffer = Append(s.buffer, f)
  <2>1. /\ t.tx_last = s.tx_last /\ t.txqueue = s.txqueue
        /\ t.next_tx_frame = s.next_tx_frame /\ t.next_expected_frame = s.next_expected_frame
        /\ t.last_frame_peer_acknowledged = s.last_frame_peer_acknowledged
    BY <1>3 DEF SameBut, All
  <2>2. s.buffer \in Seq(Frames)  BY DEF Typed, Contents, Stores
  <2>3. t.buffer[1] = IF s.buffer = <<>> THEN f ELSE s.buffer[1]  BY <1>3, <2>2
  <2> HIDE <1>3
  <2>4. Fits(t)  BY <2>1, <2>3 DEF Fits, Numbered, Hushed
  <2>5. Zeroed(s) => Zeroed(t)  BY <2>1, <2>3 DEF Zeroed
  <2> QED  BY <2>1, <2>4, <2>5 DEF Later, t
<1> QED  BY <1>1, <1>2, <1>3

\* RR and REJ.
LEMMA LaterRr ==
  ASSUME NEW s, Typed(s), Fits(s), NEW pf \in BOOLEAN
  PROVE  Later(s, Rr(s, pf)) /\ Later(s, Reject(s))
<1> DEFINE t == [s EXCEPT !.last_frame_we_acknowledged = s.next_expected_frame]
           f == SFrame("RR", s, pf)
           e == SFrame("REJ", s, TRUE)
<1>1. Typed(t)  BY DEF Typed, Whole, Contents, Counters, Stores, Modes, Tried, All
<1>2. SameBut({"last_frame_we_acknowledged"}, s, t)  BY DEF SameBut, Typed, Whole, All
<1>3. /\ f.type # "I" /\ f.nr = s.next_expected_frame
      /\ e.type # "I" /\ e.nr = s.next_expected_frame
  BY DEF SFrame
<1>4. Rr(s, pf) = TxFrame(t, f) /\ Reject(s) = TxFrame(s, e)  BY DEF Rr, Reject
<1> HIDE DEF t, f, e
<1>5. Later(s, t)
  <2>1. /\ t.tx_last = s.tx_last /\ t.txqueue = s.txqueue /\ t.buffer = s.buffer
        /\ t.next_tx_frame = s.next_tx_frame /\ t.next_expected_frame = s.next_expected_frame
        /\ t.last_frame_peer_acknowledged = s.last_frame_peer_acknowledged
    BY <1>2 DEF SameBut, All
  <2> QED  BY <2>1 DEF Later, Fits, Numbered, Hushed, Zeroed
<1>6. Zeroed(s) => f.nr = 0 /\ e.nr = 0  BY <1>3 DEF Zeroed
<1>7. Later(t, TxFrame(t, f))
  <2>1. Zeroed(t) => f.nr = 0
    <3>1. t.next_expected_frame = s.next_expected_frame  BY <1>2 DEF SameBut, All
    <3> QED  BY <1>3, <3>1 DEF Zeroed
  <2> QED  BY <1>1, <1>3, <1>5, <2>1, LaterTxFrame DEF Later
<1>8. Later(s, TxFrame(s, e))  BY <1>3, <1>6, LaterTxFrame
<1> QED  BY <1>4, <1>5, <1>7, <1>8, LaterTwice

\* An I frame is sent.
LEMMA LaterTxIframe ==
  ASSUME NEW s, Typed(s), Fits(s), s.state = "DATA", NEW n \in Nat
  PROVE  Later(s, TxIframe(s, n))
<1> DEFINE f == IFrame(s, n)
           Q == IF s.tx_last = "freed" THEN s.txqueue ELSE Append(s.txqueue, f)
           L == IF s.tx_last = "freed" THEN "freed" ELSE "tail"
           k == (s.next_tx_frame + 1) % Mod
           q == [s EXCEPT !.next_tx_frame = k,
                          !.last_frame_we_acknowledged = s.next_expected_frame,
                          !.txqueue = Q, !.tx_last = L]
           x == IF s.retransmissions = 0 THEN TxFrame(q, f) ELSE q
           t == StopT403(x)
<1>1. f \in IFrames /\ f.type = "I" /\ f.ns = s.next_tx_frame /\ f.nr = s.next_expected_frame
  BY DEF Typed, Contents, Counters, IFrame, IFrames
<1>2. TxIframe(s, n) = IF t.t401 = 0 THEN StartT401(t, "t401") ELSE t
  <2>1. [s EXCEPT !.next_tx_frame = (@ + 1) % Mod,
                  !.last_frame_we_acknowledged = s.next_expected_frame,
                  !.txqueue = IF s.tx_last = "freed" THEN @ ELSE Append(@, f),
                  !.tx_last = IF @ = "freed" THEN @ ELSE "tail"] = q
    <3> HIDE DEF f
    <3> QED  BY DEF Typed, Whole, All
  <2> HIDE DEF q
  <2> QED  BY <2>1 DEF TxIframe
<1> HIDE DEF f
<1>3. /\ s.txqueue \in Seq(IFrames) /\ s.next_tx_frame \in Numbers
      /\ s.last_frame_peer_acknowledged \in Numbers
  BY DEF Typed, Contents, Counters, Stores
<1>4. Q \in Seq(IFrames) /\ k \in Numbers
  BY <1>1, <1>3, Bounds DEF Numbers
<1>5. /\ s.tx_last = "freed" => Q = <<>> /\ L = "freed"
      /\ s.tx_last # "freed" =>
           /\ L = "tail" /\ Q # <<>> /\ Len(Q) = Len(s.txqueue) + 1
           /\ \A i \in 1 .. Len(Q) : Q[i] = IF i <= Len(s.txqueue) THEN s.txqueue[i] ELSE f
  <2>1. s.tx_last = "freed" => s.txqueue = <<>>
    <3>1. "freed" # "tail"  OBVIOUS
    <3>2. s.tx_last # "tail" => s.txqueue = <<>>  BY DEF Fits, Numbered
    <3> QED  BY <3>1, <3>2
  <2>2. LET a == Append(s.txqueue, f) IN
        /\ a # <<>> /\ Len(a) = Len(s.txqueue) + 1
        /\ \A i \in 1 .. Len(a) : a[i] = IF i <= Len(s.txqueue) THEN s.txqueue[i] ELSE f
    BY <1>1, <1>3
  <2> QED  BY <2>1, <2>2
<1> HIDE DEF Q, L
<1>6. /\ Whole(q) /\ q.next_tx_frame = k /\ q.txqueue = Q /\ q.tx_last = L
      /\ SameBut({"next_tx_frame", "last_frame_we_acknowledged", "txqueue", "tx_last"}, s, q)
      /\ q.last_frame_we_acknowledged = s.next_expected_frame
  BY DEF Typed, Whole, SameBut, All
<1> HIDE DEF q
<1>7. /\ q.buffer = s.buffer /\ q.next_expected_frame = s.next_expected_frame
      /\ q.last_frame_peer_acknowledged = s.last_frame_peer_acknowledged
      /\ q.state = s.state
  BY <1>6 DEF SameBut, All
<1>8. Numbered(q) /\ q.tx_last # "null"
  <2> DEFINE va == s.last_frame_peer_acknowledged
             n0 == Len(s.txqueue)
  <2>1. CASE s.tx_last = "freed"  BY <1>5, <1>6, <2>1 DEF Numbered
  <2>2. CASE s.tx_last # "freed"
    <3>1. s.next_tx_frame = (va + n0) % Mod /\ n0 \in Nat /\ va \in Numbers
          /\ \A i \in 1 .. n0 : s.txqueue[i].ns = (va + i - 1) % Mod
      <4>1. CASE s.tx_last = "tail"  BY <1>3, <4>1 DEF Fits, Numbered
      <4>2. CASE s.tx_last = "null"
        <5>1. s.txqueue = <<>> /\ s.next_tx_frame = 0 /\ va = 0  BY <4>2 DEF Fits, Numbered
        <5>2. 0 % Mod = 0  BY Bounds, ModSmall DEF Numbers
        <5>3. n0 = 0 /\ va + n0 = 0  BY <5>1
        <5>4. va \in Numbers  BY <1>3
        <5>5. \A i \in 1 .. n0 : FALSE  BY <5>3
        <5>6. s.next_tx_frame = (va + n0) % Mod  BY <5>1, <5>2, <5>3
        <5> HIDE DEF va, n0
        <5> QED  BY <5>3, <5>4, <5>5, <5>6
      <4> QED  BY <2>2, <4>1, <4>2 DEF Typed, Contents, Modes
    <3> HIDE DEF va, n0
    <3>2. va + n0 \in Int  BY <3>1 DEF Numbers
    <3>3. k = (va + (n0 + 1)) % Mod
      <4>1. (((va + n0) % Mod) + 1) % Mod = ((va + n0) + 1) % Mod  BY <3>2, Bounds, ModPlus
      <4>2. (va + n0) + 1 = va + (n0 + 1)  BY <3>1 DEF Numbers
      <4> QED  BY <3>1, <4>1, <4>2
    <3>4. Len(Q) = n0 + 1  BY <1>5, <2>2 DEF n0
    <3>5. \A i \in 1 .. n0 + 1 : Q[i].ns = (va + i - 1) % Mod
      <4> TAKE i \in 1 .. n0 + 1
      <4>1. Q[i] = IF i <= n0 THEN s.txqueue[i] ELSE f  BY <1>5, <2>2, <3>4 DEF n0
      <4>2. CASE i <= n0  BY <3>1, <4>1, <4>2
      <4>3. CASE ~(i <= n0)
        <5>1. i = n0 + 1  BY <3>1, <4>3
        <5>2. va + i - 1 = va + n0  BY <3>1, <5>1 DEF Numbers
        <5> QED  BY <1>1, <3>1, <4>1, <4>3, <5>2
      <4> QED  BY <4>2, <4>3
    <3> HIDE DEF k
    <3>6. q.last_frame_peer_acknowledged = va  BY <1>7 DEF va
    <3>7. q.tx_last = "tail" /\ Q # <<>>  BY <1>5, <1>6, <2>2
    <3> QED  BY <1>6, <3>3, <3>4, <3>5, <3>6, <3>7 DEF Numbered
  <2> QED  BY <2>1, <2>2
<1>9. Zeroed(s) => Zeroed(q)
  <2>1. \A i \in 1 .. Len(Q) : Q[i].nr \in {s.next_expected_frame} \/ \E j \in 1 .. Len(s.txqueue) : Q[i] = s.txqueue[j]
    <3>1. CASE s.tx_last = "freed"  BY <1>5, <3>1
    <3>2. CASE s.tx_last # "freed"
      <4> TAKE i \in 1 .. Len(Q)
      <4>1. Len(s.txqueue) \in Nat  BY <1>3
      <4> QED  BY <1>1, <1>5, <3>2, <4>1
    <3> QED  BY <3>1, <3>2
  <2> QED  BY <1>6, <1>7, <2>1 DEF Zeroed
<1>10. Later(s, q)
  <2>1. Hushed(q)  BY <1>8 DEF Hushed
  <2> QED  BY <1>8, <1>9, <2>1 DEF Later, Fits
<1>11. Typed(q)
  <2>1. Counters(q)  BY <1>3, <1>4, <1>6, <1>7 DEF Typed, Contents, Counters, SameBut, All
  <2>2. Stores(q)  BY <1>4, <1>6, <1>7 DEF Typed, Contents, Stores, SameBut, All
  <2>3. Modes(q) /\ Tried(q)
    <3>1. L \in {"tail", "freed"}  BY DEF L
    <3> QED  BY <1>6, <1>7, <3>1 DEF Typed, Contents, Modes, Tried, SameBut, All
  <2> QED  BY <1>6, <2>1, <2>2, <2>3 DEF Typed, Contents
<1>12. Later(s, x) /\ Typed(x)
  <2>1. Later(q, TxFrame(q, f))
    <3>1. Zeroed(q) => f.nr = 0  BY <1>1, <1>7 DEF Zeroed
    <3> QED  BY <1>8, <1>10, <1>11, <3>1, LaterTxFrame DEF Later
  <2>2. Typed(TxFrame(q, f))  BY <1>1, <1>11, TypedTxFrame, FrameKinds
  <2> QED  BY <1>10, <1>11, <2>1, <2>2, LaterTwice
<1> HIDE DEF x
<1>13. Later(x, t) /\ Typed(t)
  BY <1>12, TimersOnly, TypedStops, LaterTimers DEF Later, Typed
<1> HIDE DEF t
<1>14. Later(t, StartT401(t, "t401"))
  BY <1>13, TimersOnly, LaterTimers DEF Later, Typed
<1>15. Later(s, t)  BY <1>12, <1>13, LaterTwice
<1> QED  BY <1>2, <1>14, <1>15, LaterTwice

\* lapm_reset and lapm_link_down.
LEMMA LaterReset ==
  ASSUME NEW s, Whole(s), Contents(s), Hushed(s)
  PROVE  Later(s, Reset(s))
<1> DEFINE b == StopT403(StopT401(s))
           t == Reset(s)
<1>1. Whole(StopT401(s)) /\ Whole(b)
  <2>1. Whole(StopT401(s))  BY DEF StopT401, Whole, All
  <2> QED  BY <2>1, FormedStops
<1>2. SameBut(Timing, s, b)
  <2>1. SameBut(Timing, s, StopT401(s)) /\ SameBut(Timing, StopT401(s), b)
    BY <1>1, TimersOnly
  <2> HIDE DEF b
  <2> QED  BY <2>1 DEF SameBut
<1>3. t = [b EXCEPT
     !.next_tx_frame = 0, !.last_frame_peer_acknowledged = 0,
     !.next_expected_frame = 0, !.last_frame_we_acknowledged = 0,
     !.solicit_f_bit = FALSE, !.state = "RELEASE", !.retransmissions = 0,
     !.txqueue = <<>>, !.tx_last = IF @ = "null" THEN @ ELSE "freed"]  BY DEF Reset
<1> HIDE DEF b, t
<1>4. /\ t.next_tx_frame = 0 /\ t.last_frame_peer_acknowledged = 0
      /\ t.next_expected_frame = 0 /\ t.txqueue = <<>>
      /\ t.tx_last = IF b.tx_last = "null" THEN "null" ELSE "freed"
      /\ t.buffer = b.buffer
  BY <1>1, <1>3 DEF Whole, All
<1>5. b.tx_last = s.tx_last /\ b.buffer = s.buffer  BY <1>2 DEF SameBut, Timing, All
<1>6. Fits(t)  BY <1>4, <1>5 DEF Fits, Numbered, Hushed
<1>7. Zeroed(s) => Zeroed(t)
  <2>1. Len(<<>>) = 0  OBVIOUS
  <2> QED  BY <1>4, <1>5, <2>1 DEF Zeroed
<1> QED  BY <1>4, <1>5, <1>6, <1>7 DEF Later, t

Linked == {"txqueue", "tx_last", "buffer", "next_tx_frame", "next_expected_frame",
           "last_frame_peer_acknowledged"}

\* The fields in Linked are all that matters.
LEMMA LaterSame ==
  ASSUME NEW s, NEW t, Fits(s), \A x \in Linked : t[x] = s[x]
  PROVE  Later(s, t)
<1>1. /\ t.tx_last = s.tx_last /\ t.txqueue = s.txqueue /\ t.buffer = s.buffer
      /\ t.next_tx_frame = s.next_tx_frame /\ t.next_expected_frame = s.next_expected_frame
      /\ t.last_frame_peer_acknowledged = s.last_frame_peer_acknowledged
  BY DEF Linked
<1>2. Fits(t)  BY <1>1 DEF Fits, Numbered, Hushed
<1>3. Zeroed(s) => Zeroed(t)  BY <1>1 DEF Zeroed
<1> QED  BY <1>1, <1>2, <1>3 DEF Later

\* SABME is sent again, or no more.
LEMMA LaterSendSabme ==
  ASSUME NEW s, Typed(s), Fits(s), s.retransmissions <= N_400
  PROVE  Later(s, SendSabme(s))
<1> DEFINE t == StopT401(s)
           r == [t EXCEPT !.retransmissions = @ + 1]
           u == StartT401(r, "sabme")
           w == [r EXCEPT !.state = "RELEASE"]
           f == UFrame("SABME")
<1>1. Typed(t) /\ t.t401 = 0 /\ t.retransmissions = s.retransmissions /\ Later(s, t)
  <2>1. t.t401 = 0 /\ t.retransmissions = s.retransmissions
    BY DEF StopT401, Typed, Whole, All
  <2>2. SameBut(Timing, s, t)  BY TimersOnly DEF Typed
  <2> QED  BY <2>1, <2>2, TypedStops, LaterTimers
<1> HIDE DEF t
<1>2. s.retransmissions \in 0 .. N_400
  BY Bounds DEF Typed, Contents, Counters
<1>3. /\ Whole(r) /\ r.retransmissions = s.retransmissions + 1
      /\ \A x \in All \ {"retransmissions"} : r[x] = t[x]
  BY <1>1 DEF Typed, Whole, All
<1> HIDE DEF r
<1>4. Later(s, r)
  <2>1. \A x \in Linked : r[x] = t[x]  BY <1>3 DEF Linked, All
  <2>2. Later(t, r)  BY <1>1, <2>1, LaterSame DEF Later
  <2> QED  BY <1>1, <2>2, LaterTwice
<1>5. Later(s, w)
  <2>1. \A x \in Linked : w[x] = r[x]  BY <1>3 DEF Linked, Whole, All
  <2>2. Later(r, w)  BY <1>4, <2>1, LaterSame DEF Later
  <2> QED  BY <1>4, <2>2, LaterTwice
<1>6. CASE ~(r.retransmissions > N_400)
  <2>1. Contents(r) /\ r.t401 = 0
    BY SMTT(30), <1>1, <1>2, <1>3, Bounds DEF Typed, Contents, Counters, Stores, Modes, All
  <2>2. Typed(r)  BY <1>3, <1>6, <2>1 DEF Typed, Tried
  <2>3. Typed(u)
    <3>1. r.retransmissions <= N_400  BY <1>2, <1>3, <1>6, Bounds
    <3> QED  BY <2>2, <3>1, TypedStarts
  <2>4. Later(s, u)
    <3>1. SameBut(Timing, r, u)  BY <1>3, TimersOnly
    <3>2. Later(r, u)  BY <1>4, <3>1, LaterTimers DEF Later
    <3> QED  BY <1>4, <3>2, LaterTwice
  <2>5. f.type = "SABME"  BY DEF UFrame
  <2> HIDE DEF u, f
  <2>6. Later(u, TxFrame(u, f))  BY <2>3, <2>4, <2>5, LaterTxFrame DEF Later, Acks
  <2>7. Later(s, TxFrame(u, f))  BY <2>4, <2>6, LaterTwice
  <2> QED  BY <1>6, <2>7 DEF SendSabme, u, r, t, f
<1> QED  BY <1>5, <1>6 DEF SendSabme, r, t

\* The link is set up anew.
LEMMA LaterRestart ==
  ASSUME NEW s, Typed(s), Fits(s)
  PROVE  Later(s, Restart(s))
<1> DEFINE a == [s EXCEPT !.buffer = <<>>, !.crc = FALSE, !.t401 = 0, !.t403 = 0]
<1>1. /\ Whole(a) /\ a.buffer = <<>> /\ a.crc = FALSE /\ a.t401 = 0
      /\ \A x \in All \ {"buffer", "crc", "t401", "t403"} : a[x] = s[x]
  BY DEF Typed, Whole, All
<1> HIDE DEF a
<1>2. Contents(a)
  <2>1. Counters(a)  BY <1>1 DEF Typed, Contents, Counters, All
  <2>2. Stores(a)  BY <1>1, Bounds DEF Typed, Contents, Stores, All
  <2>3. Modes(a)  BY <1>1 DEF Typed, Contents, Modes, All
  <2> QED  BY <2>1, <2>2, <2>3 DEF Contents
<1>3. Later(s, a)
  <2>1. /\ a.tx_last = s.tx_last /\ a.txqueue = s.txqueue
        /\ a.next_tx_frame = s.next_tx_frame /\ a.next_expected_frame = s.next_expected_frame
        /\ a.last_frame_peer_acknowledged = s.last_frame_peer_acknowledged
    BY <1>1 DEF All
  <2> QED  BY <1>1, <2>1 DEF Later, Fits, Numbered, Hushed, Zeroed
<1>4. Later(a, Reset(a))  BY <1>1, <1>2, LaterReset DEF Hushed
<1>5. Typed(Reset(a)) /\ Reset(a).retransmissions = 0  BY <1>1, <1>2, TypedReset
<1>6. Later(Reset(a), SendSabme(Reset(a)))
  BY <1>4, <1>5, LaterSendSabme, Bounds DEF Later
<1>7. Later(s, SendSabme(Reset(a)))  BY <1>3, <1>4, <1>6, LaterTwice
<1> QED  BY <1>7 DEF Restart, a

\* v42_restart.
LEMMA LaterV42Restart ==
  ASSUME NEW s, Typed(s), Fits(s)
  PROVE  Later(s, V42Restart(s))
<1> DEFINE z == [s EXCEPT !.sched = [i \in 1 .. Slots |-> "none"]]
           r == Restart(z)
           i == FreeSlot(r)
           d == [r EXCEPT !.odp_seen = FALSE, !.txadps = 0,
                          !.sched[i] = "t400", !.t400 = i, !.state = "DETECT"]
           e == [r EXCEPT !.state = "ESTABLISH"]
<1>1. Typed(z)  BY DEF Typed, Whole, Contents, Counters, Stores, Modes, Tried, All
<1>2. Later(s, z)
  <2>1. \A x \in Linked : z[x] = s[x]  BY DEF Typed, Whole, All, Linked
  <2> QED  BY <2>1, LaterSame
<1>3. Typed(r) /\ Later(s, r)
  BY <1>1, <1>2, TypedRestart, LaterRestart, LaterTwice DEF Later
<1> HIDE DEF r, i, z
<1>4. Later(s, d) /\ Later(s, e)
  <2>1. \A x \in Linked : d[x] = r[x] /\ e[x] = r[x]
    BY <1>3 DEF Typed, Whole, All, Linked
  <2> HIDE DEF d, e
  <2>2. Later(r, d) /\ Later(r, e)  BY <1>3, <2>1, LaterSame DEF Later
  <2> QED  BY <1>3, <2>2, LaterTwice
<1> QED  BY <1>4 DEF V42Restart, r, i, z

\* The link comes up.
LEMMA LaterLinkUp ==
  ASSUME NEW s, Typed(s), Fits(s), NEW more, NEW n \in Nat
  PROVE  Later(s, LinkUp(s, more, n))
<1> DEFINE a == Reset(s)
           r == [a EXCEPT !.state = "DATA"]
           t == IF more THEN TxIframe(r, n) ELSE r
<1>1. Typed(a) /\ a.retransmissions = 0 /\ Later(s, a)
  BY TypedReset, LaterReset DEF Typed, Fits
<1> HIDE DEF a
<1>2. Typed(r) /\ r.state = "DATA" /\ Later(s, r)
  <2>1. Whole(r) /\ r.state = "DATA" /\ \A x \in All \ {"state"} : r[x] = a[x]
    BY <1>1 DEF Typed, Whole, All
  <2> HIDE DEF r
  <2>2. Typed(r)
    BY <1>1, <2>1, Bounds DEF Typed, Contents, Counters, Stores, Modes, Tried, All, States
  <2>3. \A x \in Linked : r[x] = a[x]  BY <2>1 DEF Linked, All
  <2>4. Later(a, r)  BY <1>1, <2>3, LaterSame DEF Later
  <2> QED  BY <1>1, <2>1, <2>2, <2>4, LaterTwice
<1> HIDE DEF r
<1>3. Typed(t) /\ Later(s, t)
  <2>1. Typed(TxIframe(r, n)) /\ Later(r, TxIframe(r, n))
    BY <1>2, TypedTxIframe, LaterTxIframe DEF Later
  <2> QED  BY <1>2, <2>1, LaterTwice
<1> HIDE DEF t
<1>4. Typed(StopT401(t)) /\ Later(s, StopT401(t))
  <2>1. Later(t, StopT401(t))  BY <1>3, TimersOnly, LaterTimers DEF Typed, Later
  <2> QED  BY <1>3, <2>1, TypedStops, LaterTwice
<1> DEFINE u == StopT401(t)
<1> HIDE DEF u
<1>5. Later(s, StartT403(u))
  <2>1. Later(u, StartT403(u))  BY <1>4, TimersOnly, LaterTimers DEF Typed, Later, u
  <2> QED  BY <1>4, <2>1, LaterTwice DEF u
<1> QED  BY <1>5 DEF LinkUp, u, t, r, a

\* Which frames an acknowledgement takes out of an aligned queue.
LEMMA Taken ==
  ASSUME NEW s, Contents(s), Numbered(s), s.tx_last = "tail", NEW ack \in Numbers,
         NEW i \in 1 .. Len(s.txqueue)
  PROVE  Acked(s, i, ack) <=> i <= (ack - s.last_frame_peer_acknowledged) % Mod
<1> DEFINE va == s.last_frame_peer_acknowledged
           L == Len(s.txqueue)
           k == (ack - va) % Mod
           ns(j) == (va + j - 1) % Mod
<1>1. /\ va \in Numbers /\ L \in Nat /\ Mod \in Nat \ {0} /\ i \in 1 .. L
      /\ \A j \in 1 .. L : s.txqueue[j].ns = ns(j)
  BY Bounds DEF Contents, Counters, Stores, Numbered
<1>2. va \in Int /\ ack \in Int /\ i \in Int /\ i > 0  BY <1>1 DEF Numbers
<1>a. Mod \in Nat \ {0}  BY <1>1
<1>3. k \in 0 .. Mod - 1
  <2>1. ack - va \in Int  BY <1>2
  <2> QED  BY <1>1, <2>1
<1>4. Acked(s, i, ack) <=> (ns(i) - va) % Mod < k /\ \A j \in 1 .. i - 1 : ns(j) # ns(i)
  <2>1. \A j \in 1 .. i - 1 : j \in 1 .. L  BY <1>1
  <2> HIDE DEF ns
  <2> QED  BY <1>1, <2>1 DEF Acked
<1> HIDE DEF va, L, k
<1>5. (ns(i) - va) % Mod = (i - 1) % Mod
  <2>1. va + i - 1 \in Int /\ 0 - va \in Int  BY <1>2
  <2>2. (ns(i) + (0 - va)) % Mod = ((va + i - 1) + (0 - va)) % Mod  BY <1>1, <2>1, ModPlus
  <2>3. (va + i - 1) + (0 - va) = i - 1  BY <1>2
  <2>4. ns(i) \in Int
    <3> DEFINE y == va + i - 1
    <3>1. y \in Int  BY <2>1
    <3> HIDE DEF y
    <3>2. y % Mod \in Int  BY <1>1, <3>1
    <3> QED  BY <3>2 DEF y
  <2>5. ns(i) + (0 - va) = ns(i) - va
    <3> HIDE DEF ns
    <3> QED  BY <1>2, <2>4
  <2> QED  BY <2>2, <2>3, <2>5
<1>6. CASE i <= Mod
  <2>1. (i - 1) % Mod = i - 1
    <3>1. i - 1 \in 0 .. Mod - 1  BY <1>a, <1>2, <1>6
    <3> QED  BY <1>a, <3>1, ModSmall
  <2>2. ASSUME NEW j \in 1 .. i - 1 PROVE ns(j) # ns(i)
    <3> DEFINE x == va + j - 1
               y == va + i - 1
    <3>1. x \in Int /\ y \in Int /\ x - y < Mod /\ y - x < Mod /\ x # y  BY <1>1, <1>2, <1>6
    <3> HIDE DEF x, y
    <3>2. x % Mod = y % Mod => x = y  BY <1>a, <3>1, ModSame
    <3> QED  BY <3>1, <3>2 DEF x, y
  <2>3. i - 1 < k <=> i <= k  BY <1>2, <1>3
  <2> HIDE DEF ns
  <2> QED  BY <1>4, <1>5, <2>1, <2>2, <2>3 DEF k, va
<1>7. CASE ~(i <= Mod)
  <2> DEFINE j == i - Mod
             x == va + j - 1
  <2>1. j \in 1 .. i - 1 /\ x \in Int /\ va + i - 1 = Mod + x  BY <1>1, <1>2, <1>7
  <2> HIDE DEF x
  <2>2. (Mod + x) % Mod = x % Mod  BY <1>a, <2>1, ModStep
  <2>3. ns(j) = ns(i)  BY <2>1, <2>2 DEF x
  <2>4. ~(i <= k)  BY <1>1, <1>2, <1>3, <1>7
  <2> HIDE DEF ns
  <2> QED  BY <1>4, <2>1, <2>3, <2>4 DEF k, va
<1> QED  BY <1>6, <1>7

\* An acknowledgement leaves the frames behind those it takes out.
LEMMA LaterAckRx ==
  ASSUME NEW s, Typed(s), Fits(s), s.state = "DATA", NEW ack \in Numbers,
         s.tx_last = "null" => ack = 0
  PROVE  Later(s, AckRx(s, ack))
<1> DEFINE n == Len(s.txqueue)
           kept == {i \in 1 .. n : ~Acked(s, i, ack)}
           left == Picked(s.txqueue, kept)
           freed == n \notin kept
           none == kept = 1 .. n
           r == [s EXCEPT !.txqueue = left,
                          !.tx_last = IF freed /\ @ = "tail" THEN "freed" ELSE @,
                          !.retransmissions = IF none THEN @ ELSE 0,
                          !.last_frame_peer_acknowledged = ack]
           va == s.last_frame_peer_acknowledged
           k == (ack - va) % Mod
<1>1. SUFFICES ASSUME va # ack PROVE Later(s, AckRx(s, ack))
  BY DEF AckRx, Later
<1>2. s.tx_last \in {"tail", "freed"}
  <2>1. s.tx_last = "null" => va = ack  BY DEF Fits, Numbered
  <2> QED  BY <1>1, <2>1 DEF Typed, Contents, Modes
<1>3. s.txqueue \in Seq(IFrames) /\ n \in Nat /\ va \in Numbers
  BY DEF Typed, Contents, Counters, Stores
<1>4. k \in 0 .. Mod - 1 /\ k \in Nat
  <2>1. ack - va \in Int  BY <1>3 DEF Numbers
  <2> QED  BY <2>1, Bounds
<1>5. /\ Whole(r) /\ r.txqueue = left /\ r.last_frame_peer_acknowledged = ack
      /\ r.tx_last = IF freed /\ s.tx_last = "tail" THEN "freed" ELSE s.tx_last
      /\ r.next_tx_frame = s.next_tx_frame /\ r.next_expected_frame = s.next_expected_frame
      /\ r.buffer = s.buffer
  <2> HIDE DEF left, freed, none
  <2> QED  BY DEF Typed, Whole, All
<1>6. \A i \in 1 .. Len(left) : \E j \in 1 .. n : left[i] = s.txqueue[j]
  <2>1. kept \in SUBSET (1 .. n)  OBVIOUS
  <2> HIDE DEF kept
  <2>2. PICK g \in [1 .. Len(left) -> kept] : \A i \in 1 .. Len(left) : left[i] = s.txqueue[g[i]]
    BY <1>3, <2>1, PickedFacts
  <2> HIDE DEF left
  <2>3. \A i \in 1 .. Len(left) : g[i] \in 1 .. n  BY <2>1, <2>2
  <2> QED  BY <2>2, <2>3
<1>7. s.tx_last = "freed" => left = <<>>
  <2>1. ASSUME s.tx_last = "freed" PROVE kept = {}
    <3>1. s.txqueue = <<>>  BY <2>1 DEF Fits, Numbered
    <3> QED  BY <3>1
  <2>2. kept \in SUBSET (1 .. n)  OBVIOUS
  <2> HIDE DEF kept
  <2> QED  BY <1>3, <2>1, <2>2, PickedFacts
<1>8. s.tx_last = "tail" => Numbered(r)
  <2> SUFFICES ASSUME s.tx_last = "tail" PROVE Numbered(r)  OBVIOUS
  <2>1. \A i \in 1 .. n : Acked(s, i, ack) <=> i <= k
    <3>1. Contents(s) /\ Numbered(s)  BY DEF Typed, Fits
    <3> QED  BY <3>1, Taken
  <2> DEFINE m == IF k <= n THEN k + 1 ELSE n + 1
  <2>2. kept = m .. n
    <3>1. \A i \in 1 .. n : (~ i <= k) <=> m <= i  BY <1>3, <1>4
    <3>2. m \in 1 .. n + 1  BY <1>3, <1>4
    <3> HIDE DEF m, k
    <3>3. \A i : i \in kept <=> i \in m .. n  BY <1>3, <2>1, <3>1, <3>2
    <3> QED  BY <3>3, Zenon
  <2>3. m \in 1 .. n + 1  BY <1>3, <1>4
  <2>4. left = SubSeq(s.txqueue, m, n)  BY <1>3, <2>2, <2>3, PickedSuffix
  <2>5. Len(left) = n - m + 1 /\ \A i \in 1 .. n - m + 1 : left[i] = s.txqueue[m + i - 1]
    <3> HIDE DEF m, left, kept, k
    <3>1. m \in Int /\ n \in Int /\ m <= n + 1  BY <1>3, <2>3
    <3>2. SubSeq(s.txqueue, m, n) = [i \in 1 .. n - m + 1 |-> s.txqueue[m + i - 1]]  BY <3>1
    <3>3. n - m + 1 \in Nat  BY <3>1
    <3> QED  BY <2>4, <3>2, <3>3
  <2>6. freed <=> m = n + 1
    BY <1>3, <2>2, <2>3
  <2> HIDE DEF left, freed, m, kept
  <2>7. CASE m = n + 1
    <3>1. left = <<>>  BY <2>4, <2>7, <1>3
    <3> QED  BY <1>5, <2>6, <2>7, <3>1 DEF Numbered
  <2>8. CASE m # n + 1
    <3>1. k < n /\ m = k + 1  BY <1>3, <1>4, <2>8 DEF m
    <3>2. /\ s.next_tx_frame = (va + n) % Mod
          /\ \A i \in 1 .. n : s.txqueue[i].ns = (va + i - 1) % Mod
      BY DEF Fits, Numbered
    <3>3. \A x \in Int : (ack + x) % Mod = (va + (k + x)) % Mod
      <4> TAKE x \in Int
      <4> DEFINE a == ack - va
                 y == va + x
      <4>1. a \in Int /\ y \in Int /\ va \in Int /\ Mod \in Nat \ {0} /\ ack = va + a
        BY <1>3, Bounds DEF Numbers
      <4>2. ((a % Mod) + y) % Mod = (a + y) % Mod  BY <4>1, ModPlus
      <4>3. a + y = ack + x /\ k + y = va + (k + x)  BY <1>3, <1>4, <4>1
      <4> QED  BY <4>2, <4>3
    <3> HIDE DEF k
    <3>4. s.next_tx_frame = (ack + (n - k)) % Mod
      <4>1. n - k \in Int /\ k + (n - k) = n  BY <1>3, <1>4
      <4>2. (ack + (n - k)) % Mod = (va + (k + (n - k))) % Mod  BY <3>3, <4>1
      <4> QED  BY <3>2, <4>1, <4>2
    <3>5. Len(left) = n - k  BY <1>3, <1>4, <2>5, <3>1
    <3>6. ASSUME NEW i \in 1 .. n - k PROVE left[i].ns = (ack + i - 1) % Mod
      <4>1. /\ i - 1 \in Int /\ k + i \in 1 .. n /\ ack + (i - 1) = ack + i - 1
            /\ va + (k + (i - 1)) = va + (k + i) - 1 /\ m + i - 1 = k + i
        BY <1>3, <1>4, <3>1 DEF Numbers
      <4>2. left[i] = s.txqueue[k + i]  BY <1>3, <1>4, <2>5, <3>1, <4>1
      <4>3. s.txqueue[k + i].ns = (va + (k + i) - 1) % Mod  BY <3>2, <4>1
      <4>4. (ack + (i - 1)) % Mod = (va + (k + (i - 1))) % Mod  BY <3>3, <4>1
      <4> QED  BY <4>1, <4>2, <4>3, <4>4
    <3>7. left # <<>>
      <4>1. Len(left) # 0  BY <1>3, <1>4, <3>1, <3>5
      <4> QED  BY <4>1
    <3>8. r.tx_last = "tail"  BY <1>5, <2>6, <2>8
    <3>9. /\ r.txqueue # <<>> /\ r.next_tx_frame = (ack + Len(r.txqueue)) % Mod
          /\ \A i \in 1 .. Len(r.txqueue) : r.txqueue[i].ns = (ack + i - 1) % Mod
      BY <1>5, <3>4, <3>5, <3>6, <3>7
    <3> QED  BY <1>5, <3>8, <3>9 DEF Numbered
  <2> QED  BY <2>7, <2>8
<1> HIDE DEF left, freed, none, r, kept, n, k
<1>9. Later(s, r)
  <2>1. Numbered(r) /\ r.tx_last # "null"
    <3>1. CASE s.tx_last = "tail"  BY <1>5, <1>8, <3>1
    <3>2. CASE s.tx_last = "freed"  BY <1>5, <1>7, <3>2 DEF Numbered
    <3> QED  BY <1>2, <3>1, <3>2
  <2>2. Fits(r)  BY <2>1 DEF Fits, Hushed
  <2>3. Zeroed(s) => Zeroed(r)  BY <1>5, <1>6 DEF Zeroed, n
  <2> QED  BY <2>1, <2>2, <2>3 DEF Later
<1>10. ASSUME NEW t, Whole(t), Later(s, t)
       PROVE  /\ Whole(StopT401(t)) /\ Later(s, StopT401(t))
              /\ Whole(StopT403(t)) /\ Later(s, StopT403(t))
              /\ Later(s, StartT403(t)) /\ Later(s, StartT401(t, "t401"))
  <2>1. Whole(StopT401(t)) /\ Whole(StopT403(t))
    BY <1>10 DEF StopT401, StopT403, Whole, All
  <2>2. /\ Later(t, StopT401(t)) /\ Later(t, StopT403(t))
        /\ Later(t, StartT403(t)) /\ Later(t, StartT401(t, "t401"))
    <3>1. Fits(t)  BY <1>10 DEF Later
    <3> QED  BY <1>10, <3>1, TimersOnly, LaterTimers
  <2> QED  BY <1>10, <2>1, <2>2, LaterTwice
<1>11. Later(s, StartT403(StopT403(StopT401(r))))
  <2>1. Whole(StopT401(r)) /\ Later(s, StopT401(r))  BY <1>5, <1>9, <1>10
  <2>2. Whole(StopT403(StopT401(r))) /\ Later(s, StopT403(StopT401(r)))  BY <1>10, <2>1
  <2> QED  BY <1>10, <2>2
<1>12. Later(s, StopT403(r)) /\ Later(s, StartT401(StopT403(r), "t401"))
  <2>1. Whole(StopT403(r)) /\ Later(s, StopT403(r))  BY <1>5, <1>9, <1>10
  <2> QED  BY <1>10, <2>1
<1>13. AckRx(s, ack) \in {s, StartT403(StopT403(StopT401(r))),
                          StartT401(StopT403(r), "t401"), StopT403(r)}
  BY DEF AckRx, r, left, freed, none, kept, n
<1>14. Later(s, s)  BY DEF Later
<1> QED  BY <1>11, <1>12, <1>13, <1>14

\* REJ is answered.
LEMMA LaterRetransmit ==
  ASSUME NEW s, Typed(s), Fits(s), s.state = "DATA", NEW nr \in Numbers,
         s.tx_last = "null" => nr = 0
  PROVE  Later(s, Retransmit(s, nr))
<1>1. CASE \E i \in DOMAIN s.txqueue : s.txqueue[i].ns = nr
  <2>1. PICK q \in Seq(IFrames), b \in Seq(Frames) : ResentAs(s, nr, q, b)
    BY <1>1, Resent DEF Typed
  <2> DEFINE t == [s EXCEPT !.txqueue = q, !.buffer = b]
  <2>2. /\ t.txqueue = q /\ t.buffer = b /\ t.tx_last = s.tx_last
        /\ t.next_tx_frame = s.next_tx_frame /\ t.next_expected_frame = s.next_expected_frame
        /\ t.last_frame_peer_acknowledged = s.last_frame_peer_acknowledged
    BY DEF Typed, Whole, All
  <2> HIDE DEF t
  <2>3. Len(q) = Len(s.txqueue) /\ Len(q) \in Nat
        /\ \A i \in 1 .. Len(q) :
             /\ q[i].ns = s.txqueue[i].ns
             /\ q[i].nr \in {s.txqueue[i].nr, s.next_expected_frame}
    BY <2>1 DEF ResentAs
  <2>4. s.txqueue # <<>> /\ q # <<>>
    <3>1. s.txqueue \in Seq(IFrames)  BY DEF Typed, Contents, Stores
    <3>2. s.txqueue # <<>>  BY <1>1
    <3> QED  BY <2>3, <3>1, <3>2
  <2>5. s.tx_last = "tail"  BY <2>4 DEF Fits, Numbered
  <2>6. Fits(t)
    <3>1. Numbered(t)  BY <2>2, <2>3, <2>4, <2>5 DEF Fits, Numbered
    <3> QED  BY <2>2, <2>5, <3>1 DEF Fits, Hushed
  <2>7. Zeroed(s) => Zeroed(t)
    <3> SUFFICES ASSUME Zeroed(s) PROVE Zeroed(t)  OBVIOUS
    <3>1. \A i \in 1 .. Len(q) : q[i].nr = 0  BY <2>3 DEF Zeroed
    <3>2. b # <<>> /\ b[1].type \in Acks => b[1].nr = 0
      <4>1. CASE s.buffer # <<>>  BY <2>1, <4>1 DEF ResentAs, Zeroed
      <4>2. CASE s.buffer = <<>>  BY <2>1, <3>1, <4>2 DEF ResentAs
      <4> QED  BY <4>1, <4>2
    <3> QED  BY <2>2, <3>1, <3>2 DEF Zeroed
  <2> QED  BY <2>1, <2>2, <2>5, <2>6, <2>7 DEF Later, t, ResentAs
<1>2. CASE ~ \E i \in DOMAIN s.txqueue : s.txqueue[i].ns = nr
  <2> DEFINE a == [s EXCEPT !.last_frame_peer_acknowledged = nr, !.next_tx_frame = nr]
  <2>1. /\ Retransmit(s, nr) \in {s, StartT403(StopT403(StopT401(a)))}
        /\ s.txqueue # <<>> => Retransmit(s, nr) = s
    BY <1>2 DEF Retransmit
  <2>2. Later(s, s)  BY DEF Later
  <2>3. ASSUME s.txqueue = <<>> PROVE Later(s, StartT403(StopT403(StopT401(a))))
    <3>1. /\ Whole(a) /\ a.last_frame_peer_acknowledged = nr /\ a.next_tx_frame = nr
          /\ \A x \in All \ {"last_frame_peer_acknowledged", "next_tx_frame"} : a[x] = s[x]
      BY DEF Typed, Whole, All
    <3> HIDE DEF a
    <3>2. /\ a.tx_last = s.tx_last /\ a.txqueue = s.txqueue /\ a.buffer = s.buffer
          /\ a.next_expected_frame = s.next_expected_frame
      BY <3>1 DEF All
    <3>3. s.tx_last # "tail"  BY <2>3 DEF Fits, Numbered
    <3>4. Fits(a)  BY <2>3, <3>1, <3>2, <3>3 DEF Fits, Numbered, Hushed
    <3>5. Later(s, a)  BY <3>2, <3>4 DEF Later, Zeroed
    <3> DEFINE b == StopT401(a)
               c == StopT403(b)
    <3>6. Whole(b) /\ Later(s, b)
      <4>1. Whole(b)  BY <3>1 DEF StopT401, Whole, All
      <4>2. Later(a, b)  BY <3>1, <3>4, TimersOnly, LaterTimers
      <4> QED  BY <3>5, <4>1, <4>2, LaterTwice
    <3> HIDE DEF b
    <3>7. Whole(c) /\ Later(s, c)
      <4>1. Whole(c)  BY <3>6 DEF StopT403, Whole, All
      <4>2. Later(b, c)  BY <3>6, TimersOnly, LaterTimers DEF Later
      <4> QED  BY <3>6, <4>1, <4>2, LaterTwice
    <3> HIDE DEF c
    <3>8. Later(c, StartT403(c))  BY <3>7, TimersOnly, LaterTimers DEF Later
    <3> QED  BY <3>7, <3>8, LaterTwice DEF b, c
  <2> QED  BY <2>1, <2>2, <2>3
<1> QED  BY <1>1, <1>2

\* T401 has expired.
LEMMA LaterT401Expired ==
  ASSUME NEW s, Typed(s), Fits(s), s.retransmissions <= N_400
  PROVE  Later(s, T401Expired(s))
<1> DEFINE f == [Head(s.txqueue) EXCEPT !.nr = s.next_expected_frame, !.pf = TRUE]
           q == [s.txqueue EXCEPT ![1] = f]
           r == [s EXCEPT !.txqueue[1] = f, !.solicit_f_bit = TRUE, !.retransmissions = @ + 1,
                          !.last_frame_we_acknowledged = s.next_expected_frame]
           t == TxFrame(r, f)
<1>1. SUFFICES ASSUME s.txqueue # <<>> PROVE Later(s, T401Expired(s))
  BY DEF T401Expired, Later
<1>2. s.txqueue \in Seq(IFrames) /\ s.retransmissions \in 0 .. N_400
      /\ s.next_expected_frame \in Numbers
  BY Bounds DEF Typed, Contents, Counters, Stores
<1>3. f \in IFrames /\ f.ns = s.txqueue[1].ns /\ f.nr = s.next_expected_frame
  <2> DEFINE h == Head(s.txqueue)
  <2>1. h \in IFrames /\ h = s.txqueue[1] /\ TRUE \in BOOLEAN  BY <1>1, <1>2
  <2> HIDE DEF h
  <2>2. LET e == [h EXCEPT !.nr = s.next_expected_frame, !.pf = TRUE] IN
        e \in IFrames /\ e.ns = h.ns /\ e.nr = s.next_expected_frame
    BY ZenonT(30), <1>2, <2>1, Renumbered
  <2> QED  BY <2>1, <2>2 DEF h
<1> HIDE DEF f
<1>4. /\ q \in Seq(IFrames) /\ q # <<>> /\ Len(q) = Len(s.txqueue)
      /\ \A i \in 1 .. Len(q) : q[i] = IF i = 1 THEN f ELSE s.txqueue[i]
  BY <1>1, <1>2, <1>3
<1> HIDE DEF q
<1>5. /\ Whole(r) /\ r.txqueue = q /\ r.solicit_f_bit = TRUE
      /\ r.retransmissions = s.retransmissions + 1
      /\ r.last_frame_we_acknowledged = s.next_expected_frame
      /\ \A x \in All \ {"txqueue", "solicit_f_bit", "retransmissions", "last_frame_we_acknowledged"} :
           r[x] = s[x]
  BY DEF Typed, Whole, All, q
<1>6. T401Expired(s) = IF r.retransmissions <= N_400 THEN StartT401(t, "t401")
                       ELSE Restart(Reset(r))
  BY <1>1 DEF T401Expired, f
<1> HIDE DEF r
<1>7. Contents(r)
  <2>1. Counters(r)  BY <1>2, <1>5, Bounds DEF Typed, Contents, Counters, All
  <2>2. Stores(r) /\ Modes(r)  BY <1>4, <1>5 DEF Typed, Contents, Stores, Modes, All
  <2> QED  BY <2>1, <2>2 DEF Contents
<1>8. Later(s, r) /\ r.tx_last = "tail" /\ r.next_expected_frame = s.next_expected_frame
  <2>1. /\ r.tx_last = s.tx_last /\ r.buffer = s.buffer
        /\ r.next_tx_frame = s.next_tx_frame /\ r.next_expected_frame = s.next_expected_frame
        /\ r.last_frame_peer_acknowledged = s.last_frame_peer_acknowledged
    BY <1>5 DEF All
  <2>2. s.tx_last = "tail"  BY <1>1 DEF Fits, Numbered
  <2>3. \A i \in 1 .. Len(q) : q[i].ns = s.txqueue[i].ns  BY <1>3, <1>4
  <2>4. Fits(r)
    <3>1. Numbered(r)  BY <1>4, <1>5, <2>1, <2>2, <2>3 DEF Fits, Numbered
    <3> QED  BY <2>1, <2>2, <3>1 DEF Fits, Hushed
  <2>5. Zeroed(s) => Zeroed(r)  BY <1>3, <1>4, <1>5, <2>1 DEF Zeroed
  <2> QED  BY <2>1, <2>2, <2>4, <2>5 DEF Later
<1>9. CASE r.retransmissions <= N_400
  <2>1. Typed(r)
    <3>1. Tried(r)  BY <1>2, <1>5, <1>9, Bounds DEF Tried
    <3> QED  BY <1>5, <1>7, <3>1 DEF Typed
  <2>2. Typed(t) /\ Later(s, t)
    <3>1. Later(r, t)  BY <1>3, <1>8, <2>1, LaterTxFrame DEF Later, Zeroed
    <3> QED  BY <1>3, <1>8, <2>1, <3>1, TypedTxFrame, FrameKinds, LaterTwice
  <2> HIDE DEF t
  <2>3. Later(t, StartT401(t, "t401"))  BY <2>2, TimersOnly, LaterTimers DEF Typed, Later
  <2> QED  BY <1>6, <1>9, <2>2, <2>3, LaterTwice
<1>10. CASE ~(r.retransmissions <= N_400)
  <2>1. Typed(Reset(r)) /\ Later(r, Reset(r))
    BY <1>5, <1>7, <1>8, TypedReset, LaterReset DEF Later, Fits
  <2>2. Later(Reset(r), Restart(Reset(r)))  BY <2>1, LaterRestart DEF Later
  <2> QED  BY <1>6, <1>8, <1>10, <2>1, <2>2, LaterTwice
<1> QED  BY <1>9, <1>10

\* T403 has expired.
LEMMA LaterT403Expired ==
  ASSUME NEW s, Typed(s), Fits(s)
  PROVE  Later(s, T403Expired(s))
<1> DEFINE a == [s EXCEPT !.retransmissions = 0, !.solicit_f_bit = TRUE]
           b == Rr(a, TRUE)
<1>1. /\ Whole(a) /\ a.retransmissions = 0 /\ a.solicit_f_bit = TRUE
      /\ \A x \in All \ {"retransmissions", "solicit_f_bit"} : a[x] = s[x]
  BY DEF Typed, Whole, All
<1> HIDE DEF a
<1>2. Typed(a)
  <2>1. Counters(a) /\ Tried(a)  BY <1>1, Bounds DEF Typed, Contents, Counters, Tried, All
  <2>2. Stores(a) /\ Modes(a)  BY <1>1 DEF Typed, Contents, Stores, Modes, All
  <2> QED  BY <1>1, <2>1, <2>2 DEF Typed, Contents
<1>3. Later(s, a)
  <2>1. \A x \in Linked : a[x] = s[x]  BY <1>1 DEF Linked, All
  <2> QED  BY <2>1, LaterSame
<1>4. Typed(b) /\ Later(s, b)
  <2>1. Later(a, b)  BY <1>2, <1>3, LaterRr DEF Later
  <2> QED  BY <1>2, <1>3, <2>1, TypedRr, LaterTwice
<1> HIDE DEF b
<1>5. Later(b, StartT401(b, "t401"))  BY <1>4, TimersOnly, LaterTimers DEF Typed, Later
<1>6. Later(s, StartT401(b, "t401"))  BY <1>4, <1>5, LaterTwice
<1> QED  BY <1>6 DEF T403Expired, a, b

-----------------------------------------------------------------------------
(* Numbers: the actions.                                                     *)

\* While an end has not sent an I frame, nothing the other end has sent or
\* keeps acknowledges one.
Silent(p) ==
  LET q == Other(p) IN
  end[p].tx_last = "null" =>
    /\ Zeroed(end[q])
    /\ \A k \in 1 .. Len(line[q]) : line[q][k][1].type # "I"
    /\ \A k \in 1 .. Len(line[p]) : line[p][k][1].type \in Acks => line[p][k][1].nr = 0

NumberInv == \A p \in Peer : Fits(end[p]) /\ Silent(p)

\* The first of the frames that arrive were there before, are the first in
\* the transmitter of p, or are no acknowledgements.
LineFrom(p) ==
  \A q \in Peer : \A k \in 1 .. Len(line'[q]) :
    \/ \E j \in 1 .. Len(line[q]) : line'[q][k][1] = line[q][j][1]
    \/ q = Other(p) /\ end[p].buffer # <<>> /\ line'[q][k][1] = end[p].buffer[1]
    \/ line'[q][k][1].type \notin Acks

\* There are two ends.
LEMMA Others ==
  ASSUME NEW p \in Peer
  PROVE  /\ Other(p) \in Peer /\ Other(Other(p)) = p /\ Other(p) # p
         /\ \A q \in Peer : q = p \/ q = Other(p)
BY Bounds DEF Other, Peer

\* One end changes, and perhaps the line.
LEMMA NumberStep ==
  ASSUME NumberInv, EndsTyped, NEW p \in Peer, NEW t, Fits(t), end' = [end EXCEPT ![p] = t],
         t.tx_last = "null" => end[p].tx_last = "null",
         end[Other(p)].tx_last = "null" => (Zeroed(end[p]) => Zeroed(t)),
         LineFrom(p)
  PROVE  NumberInv'
<1> DEFINE o == Other(p)
<1>1. /\ o \in Peer /\ Other(o) = p /\ o # p /\ \A q \in Peer : q = p \/ q = o
  BY Others
<1>2. end'[p] = t /\ end'[o] = end[o]  BY <1>1 DEF EndsTyped
<1>3. Fits(end[p]) /\ Fits(end[o]) /\ Silent(p) /\ Silent(o)  BY <1>1 DEF NumberInv
<1>4. ASSUME t.tx_last = "null"
      PROVE  /\ Zeroed(end[o])
             /\ \A k \in 1 .. Len(line'[o]) : line'[o][k][1].type # "I"
             /\ \A k \in 1 .. Len(line'[p]) : line'[p][k][1].type \in Acks => line'[p][k][1].nr = 0
  <2>1. end[p].tx_last = "null"  BY <1>4
  <2>2. /\ Zeroed(end[o])
        /\ \A k \in 1 .. Len(line[o]) : line[o][k][1].type # "I"
        /\ \A k \in 1 .. Len(line[p]) : line[p][k][1].type \in Acks => line[p][k][1].nr = 0
    BY <1>3, <2>1 DEF Silent
  <2>3. ASSUME NEW k \in 1 .. Len(line'[o]) PROVE line'[o][k][1].type # "I"
    <3>1. end[p].buffer # <<>> => end[p].buffer[1].type # "I"  BY <1>3, <2>1 DEF Fits, Hushed
    <3> QED  BY <1>1, <2>2, <3>1 DEF LineFrom, Acks
  <2>4. ASSUME NEW k \in 1 .. Len(line'[p]), line'[p][k][1].type \in Acks
        PROVE  line'[p][k][1].nr = 0
    BY <1>1, <2>2, <2>4 DEF LineFrom
  <2> QED  BY <2>2, <2>3, <2>4
<1>5. ASSUME end[o].tx_last = "null"
      PROVE  /\ Zeroed(t)
             /\ \A k \in 1 .. Len(line'[p]) : line'[p][k][1].type # "I"
             /\ \A k \in 1 .. Len(line'[o]) : line'[o][k][1].type \in Acks => line'[o][k][1].nr = 0
  <2>2. /\ Zeroed(end[p])
        /\ \A k \in 1 .. Len(line[p]) : line[p][k][1].type # "I"
        /\ \A k \in 1 .. Len(line[o]) : line[o][k][1].type \in Acks => line[o][k][1].nr = 0
    BY <1>1, <1>3, <1>5 DEF Silent
  <2>3. ASSUME NEW k \in 1 .. Len(line'[p]) PROVE line'[p][k][1].type # "I"
    BY <1>1, <2>2 DEF LineFrom, Acks
  <2>4. ASSUME NEW k \in 1 .. Len(line'[o]), line'[o][k][1].type \in Acks
        PROVE  line'[o][k][1].nr = 0
    <3>1. end[p].buffer # <<>> /\ end[p].buffer[1].type \in Acks => end[p].buffer[1].nr = 0
      BY <2>2 DEF Zeroed
    <3> QED  BY <1>1, <2>2, <2>4, <3>1 DEF LineFrom
  <2> QED  BY <1>5, <2>2, <2>3, <2>4
<1>6. Silent(p)'  BY <1>1, <1>2, <1>4 DEF Silent
<1>7. Silent(o)'  BY <1>1, <1>2, <1>5 DEF Silent
<1>8. Fits(end'[p]) /\ Fits(end'[o])  BY <1>2, <1>3
<1> QED  BY <1>1, <1>6, <1>7, <1>8 DEF NumberInv

\* The same for an end that an operator changed.
LEMMA LaterStep ==
  ASSUME NumberInv, EndsTyped, NEW p \in Peer, NEW t, Later(end[p], t),
         end' = [end EXCEPT ![p] = t], LineFrom(p)
  PROVE  NumberInv'
BY NumberStep DEF Later

\* The lines stay.
LEMMA LineSame == ASSUME NEW p, line' = line PROVE LineFrom(p)
BY DEF LineFrom

\* A line loses its front.
LEMMA LineTail ==
  ASSUME LinesTyped, NEW q \in Peer, line[q] # <<>>, line' = [line EXCEPT ![q] = Tail(@)],
         NEW p
  PROVE  LineFrom(p)
<1>1. line[q] \in Seq(Seq(Frames) \ {<<>>})  BY DEF LinesTyped
<1>2. \A k \in 1 .. Len(Tail(line[q])) : k + 1 \in 1 .. Len(line[q]) /\ Tail(line[q])[k] = line[q][k + 1]
  BY <1>1
<1>3. line'[q] = Tail(line[q]) /\ \A x \in Peer \ {q} : line'[x] = line[x]  BY DEF LinesTyped
<1> QED  BY <1>2, <1>3 DEF LineFrom

\* A line gets the transmitter's frame.
LEMMA LineAppend ==
  ASSUME LinesTyped, NEW q \in Peer, NEW b \in Seq(Frames), b # <<>>,
         line' = [line EXCEPT ![q] = Append(@, b)], NEW p,
         \/ q = Other(p) /\ b = end[p].buffer
         \/ b[1].type \notin Acks
  PROVE  LineFrom(p)
<1>1. line[q] \in Seq(Seq(Frames) \ {<<>>})  BY DEF LinesTyped
<1>2. \A k \in 1 .. Len(Append(line[q], b)) :
        \/ k \in 1 .. Len(line[q]) /\ Append(line[q], b)[k] = line[q][k]
        \/ Append(line[q], b)[k] = b
  BY <1>1
<1>3. line'[q] = Append(line[q], b) /\ \A x \in Peer \ {q} : line'[x] = line[x]
  BY DEF LinesTyped
<1> QED  BY <1>2, <1>3 DEF LineFrom

\* Both ends after v42_init.
LEMMA InitNumber == Init => NumberInv
<1> SUFFICES ASSUME Init PROVE NumberInv  OBVIOUS
<1>1. PICK sc \in Scenarios :
        end = [p \in Peer |-> V42Restart([Cleared EXCEPT !.detect = sc.detect])]
  BY DEF Init
<1> DEFINE c == Cleared
           d == [c EXCEPT !.detect = sc.detect]
           t == V42Restart(d)
<1>2. Typed(c)  BY ClearedTyped
<1>3. /\ c.tx_last = "null" /\ c.txqueue = <<>> /\ c.buffer = <<>> /\ c.next_tx_frame = 0
      /\ c.last_frame_peer_acknowledged = 0 /\ c.next_expected_frame = 0
  BY DEF Cleared
<1> HIDE DEF c
<1>4. Typed(d)
  BY <1>2 DEF Typed, Whole, Contents, Counters, Stores, Modes, Tried, All
<1>5. Fits(d) /\ Zeroed(d)
  <2>1. /\ d.tx_last = "null" /\ d.txqueue = <<>> /\ d.buffer = <<>> /\ d.next_tx_frame = 0
        /\ d.last_frame_peer_acknowledged = 0 /\ d.next_expected_frame = 0
    BY <1>2, <1>3 DEF Typed, Whole, All
  <2>2. Len(<<>>) = 0  OBVIOUS
  <2> QED  BY <2>1, <2>2 DEF Fits, Numbered, Hushed, Zeroed
<1> HIDE DEF d
<1>6. Fits(t) /\ Zeroed(t)  BY <1>4, <1>5, LaterV42Restart DEF Later
<1>7. \A p \in Peer : end[p] = t  BY <1>1 DEF t, d, c
<1>8. \A p \in Peer : line[p] = <<>>  BY DEF Init
<1>9. ASSUME NEW p \in Peer PROVE Silent(p)
  <2>1. Other(p) \in Peer  BY Others
  <2>2. Len(<<>>) = 0  OBVIOUS
  <2> QED  BY <1>6, <1>7, <1>8, <2>1, <2>2 DEF Silent
<1> QED  BY <1>6, <1>7, <1>9 DEF NumberInv

\* The applications.
LEMMA ApplicationNumber ==
  ASSUME NumberInv, TypeInv, NEW p \in Peer, Application(p)
  PROVE  NumberInv'
<1>1. Typed(end[p]) /\ EndsTyped /\ Fits(end[p])  BY DEF TypeInv, EndsTyped, NumberInv
<1>2. line' = line  BY DEF Application, Write, Release, StartAgain
<1>3. CASE Write(p)  BY <1>2, <1>3 DEF Write, NumberInv, Silent
<1>4. CASE Release(p)
  <2> DEFINE t == [end[p] EXCEPT !.state = "RELEASE"]
  <2>1. end' = [end EXCEPT ![p] = t]  BY <1>4 DEF Release
  <2>2. \A x \in Linked : t[x] = end[p][x]  BY <1>1 DEF Typed, Whole, All, Linked
  <2>3. Later(end[p], t)
    <3> HIDE DEF t
    <3> QED  BY <1>1, <2>2, LaterSame
  <2> QED  BY <1>1, <1>2, <2>1, <2>3, LineSame, LaterStep
<1>5. CASE StartAgain(p)
  <2>1. end' = [end EXCEPT ![p] = V42Restart(end[p])]  BY <1>5 DEF StartAgain
  <2> QED  BY <1>1, <1>2, <2>1, LaterV42Restart, LineSame, LaterStep
<1> QED  BY <1>3, <1>4, <1>5 DEF Application

\* The detection of V.42.
LEMMA DetectionNumber ==
  ASSUME NumberInv, TypeInv, SeeOdp \/ SendAdp \/ SeeAdp
  PROVE  NumberInv'
<1>1. Answerer \in Peer /\ Caller \in Peer /\ EndsTyped  BY DEF Peer, TypeInv
<1>2. /\ Typed(end[Answerer]) /\ Typed(end[Caller])
      /\ Fits(end[Answerer]) /\ Fits(end[Caller])
  BY <1>1 DEF EndsTyped, NumberInv
<1>3. line' = line  BY DEF SeeOdp, SendAdp, SeeAdp
<1>4. CASE SeeOdp
  <2> DEFINE t == [end[Answerer] EXCEPT !.odp_seen = TRUE]
  <2>1. end' = [end EXCEPT ![Answerer] = t]  BY <1>4 DEF SeeOdp
  <2>2. \A x \in Linked : t[x] = end[Answerer][x]  BY <1>2 DEF Typed, Whole, All, Linked
  <2> HIDE DEF t
  <2>3. Later(end[Answerer], t)  BY <1>2, <2>2, LaterSame
  <2> QED  BY <1>1, <1>3, <2>1, <2>3, LineSame, LaterStep
<1>5. CASE SendAdp
  <2> DEFINE s == end[Answerer]
             r == StopT400(s)
             u == [r EXCEPT !.txadps = Adps, !.state = "ESTABLISH"]
             v == [s EXCEPT !.txadps = @ + 1]
             t == IF s.txadps + 1 = Adps THEN u ELSE v
  <2>1. end' = [end EXCEPT ![Answerer] = t]  BY <1>5 DEF SendAdp
  <2>2. Typed(r) /\ SameBut(Timing, s, r)  BY <1>2, TypedStops, TimersOnly DEF Typed
  <2>3. Later(s, v)
    <3>1. \A x \in Linked : v[x] = s[x]  BY <1>2 DEF Typed, Whole, All, Linked
    <3> HIDE DEF v
    <3> QED  BY <1>2, <3>1, LaterSame
  <2> HIDE DEF r
  <2>4. Later(s, u)
    <3>1. \A x \in Linked : u[x] = s[x]
      <4>1. \A x \in Linked : u[x] = r[x]  BY <2>2 DEF Typed, Whole, All, Linked
      <4>2. \A x \in Linked : r[x] = s[x]  BY <2>2 DEF SameBut, Timing, All, Linked
      <4> QED  BY <4>1, <4>2
    <3> HIDE DEF u, s
    <3>2. Fits(s)  BY <1>2 DEF s
    <3> QED  BY <3>1, <3>2, LaterSame
  <2>5. Later(s, t)  BY <2>3, <2>4
  <2> HIDE DEF t
  <2> QED  BY <1>1, <1>3, <2>1, <2>5, LineSame, LaterStep
<1>6. CASE SeeAdp
  <2> DEFINE s == end[Caller]
             r == StopT400(s)
             t == [r EXCEPT !.state = "ESTABLISH"]
  <2>1. end' = [end EXCEPT ![Caller] = t]  BY <1>6 DEF SeeAdp
  <2>2. Typed(r) /\ SameBut(Timing, s, r)  BY <1>2, TypedStops, TimersOnly DEF Typed
  <2> HIDE DEF r
  <2>3. \A x \in Linked : t[x] = s[x]
    <3>1. \A x \in Linked : t[x] = r[x]  BY <2>2 DEF Typed, Whole, All, Linked
    <3>2. \A x \in Linked : r[x] = s[x]  BY <2>2 DEF SameBut, Timing, All, Linked
    <3> QED  BY <3>1, <3>2
  <2> HIDE DEF t
  <2>4. Later(s, t)  BY <1>2, <2>3, LaterSame
  <2> QED  BY <1>1, <1>3, <2>1, <2>4, LineSame, LaterStep
<1> QED  BY <1>4, <1>5, <1>6

\* The HDLC transmitter.
LEMMA TransmitNumber ==
  ASSUME NumberInv, TypeInv, NEW p \in Peer, Transmit(p)
  PROVE  NumberInv'
<1>1. /\ Typed(end[p]) /\ EndsTyped /\ LinesTyped /\ CountsTyped /\ Fits(end[p])
  BY DEF TypeInv, EndsTyped, NumberInv
<1>2. CASE BeginCrc(p)
  <2> DEFINE t == [end[p] EXCEPT !.crc = TRUE]
  <2>1. end' = [end EXCEPT ![p] = t] /\ line' = line  BY <1>2 DEF BeginCrc
  <2>2. \A x \in Linked : t[x] = end[p][x]  BY <1>1 DEF Typed, Whole, All, Linked
  <2> HIDE DEF t
  <2>3. Later(end[p], t)  BY <1>1, <2>2, LaterSame
  <2> QED  BY <1>1, <2>1, <2>3, LineSame, LaterStep
<1>3. CASE EndFrame(p)
  <2> DEFINE s == [end[p] EXCEPT !.buffer = <<>>, !.crc = FALSE]
             more == s.state = "DATA" /\ Pending(p)
             t == IF more THEN TxIframe(s, read[p] + 1) ELSE s
  <2>1. end' = [end EXCEPT ![p] = t]  BY <1>3 DEF EndFrame
  <2>2. Typed(s)  BY <1>1, EmptiedTyped
  <2>3. Later(end[p], s)
    <3>1. /\ s.buffer = <<>>
          /\ \A x \in Linked \ {"buffer"} : s[x] = end[p][x]
      BY <1>1 DEF Typed, Whole, All, Linked
    <3> HIDE DEF s
    <3>2. /\ s.tx_last = end[p].tx_last /\ s.txqueue = end[p].txqueue
          /\ s.next_tx_frame = end[p].next_tx_frame
          /\ s.next_expected_frame = end[p].next_expected_frame
          /\ s.last_frame_peer_acknowledged = end[p].last_frame_peer_acknowledged
      BY <3>1 DEF Linked
    <3> QED  BY <1>1, <3>1, <3>2 DEF Later, Fits, Numbered, Hushed, Zeroed
  <2> HIDE DEF s
  <2>4. Later(end[p], t)
    <3>1. read[p] + 1 \in Nat  BY <1>1 DEF CountsTyped
    <3>2. s.state = "DATA" => Later(s, TxIframe(s, read[p] + 1))
      BY <2>2, <2>3, <3>1, LaterTxIframe DEF Later
    <3>3. s.state = "DATA" => Later(end[p], TxIframe(s, read[p] + 1))
      BY <2>3, <3>2, LaterTwice
    <3> QED  BY <2>3, <3>3
  <2> HIDE DEF t
  <2>5. LineFrom(p)
    <3>1. end[p].buffer \in Seq(Frames) /\ end[p].buffer # <<>>
      BY <1>1, <1>3 DEF EndFrame, Typed, Contents, Stores
    <3>2. line' = [line EXCEPT ![Other(p)] = Append(@, end[p].buffer)]  BY <1>3 DEF EndFrame
    <3> QED  BY <1>1, <3>1, <3>2, LineAppend, Others
  <2> QED  BY <1>1, <2>1, <2>4, <2>5, LaterStep
<1> QED  BY <1>2, <1>3 DEF Transmit

\* The number that a frame acknowledges at an end that has sent nothing.
LEMMA FrontAck ==
  ASSUME NumberInv, LinesTyped, NEW p \in Peer, line[p] # <<>>, Frame(p).type \in Acks
  PROVE  /\ end[p].tx_last = "null" => Frame(p).nr = 0
         /\ Frame(p).type = "I" => end[Other(p)].tx_last # "null"
<1>1. line[p] \in Seq(Seq(Frames) \ {<<>>})  BY DEF LinesTyped
<1>2. 1 \in 1 .. Len(line[p]) /\ line[p][1][1] = Frame(p)  BY <1>1 DEF Frame
<1>3. /\ Other(p) \in Peer /\ Other(Other(p)) = p  BY Others
<1>4. Silent(p) /\ Silent(Other(p))  BY <1>3 DEF NumberInv
<1> QED  BY <1>2, <1>3, <1>4 DEF Silent

\* A frame arrives.
LEMMA ReceiveNumber ==
  ASSUME NumberInv, TypeInv, NEW p \in Peer, Receive(p)
  PROVE  NumberInv'
<1> DEFINE s == end[p]
           f == Frame(p)
<1>1. Typed(s) /\ EndsTyped /\ LinesTyped /\ CountsTyped /\ Fits(s)
  BY DEF TypeInv, EndsTyped, NumberInv
<1>2. read[p] + 1 \in Nat  BY <1>1 DEF CountsTyped
<1>3. ASSUME NEW k, Arrives(p, k)
      PROVE  LineFrom(p) /\ line[p] # <<>> /\ f.type = k /\ f \in Frames
  <2>1. line[p] # <<>> /\ line' = [line EXCEPT ![p] = Tail(@)]  BY <1>3 DEF Arrives
  <2>2. LineFrom(p)  BY <1>1, <2>1, LineTail
  <2> QED  BY <1>1, <1>3, <2>1, <2>2, ArrivesTyped
<1>4. LET u == TxFrame(s, UFrame("UA")) IN Typed(u) /\ Later(s, u)
  <2> DEFINE g == UFrame("UA")
  <2>1. g \in Frames /\ g.type = "UA"  BY DEF UFrame, Frames
  <2> HIDE DEF g
  <2>2. Typed(TxFrame(s, g))  BY <1>1, <2>1, TypedTxFrame
  <2>3. Later(s, TxFrame(s, g))  BY <1>1, <2>1, LaterTxFrame DEF Acks
  <2> QED  BY <2>2, <2>3 DEF g
<1>5. ASSUME NEW r, Typed(r), Later(s, r), ComesUp(p, r), LineFrom(p) PROVE NumberInv'
  <2> DEFINE t == LinkUp(r, Pending(p), read[p] + 1)
  <2>1. Later(r, t)  BY <1>2, <1>5, LaterLinkUp DEF Later
  <2>2. end' = [end EXCEPT ![p] = t]  BY <1>5 DEF ComesUp
  <2> HIDE DEF t
  <2>3. Later(s, t)  BY <1>5, <2>1, LaterTwice
  <2> QED  BY <1>1, <1>5, <2>2, <2>3, LaterStep
<1> HIDE DEF s
<1>6. CASE ReceiveI(p)
  <2> DEFINE e == [s EXCEPT !.next_expected_frame = (@ + 1) % Mod]
             a == AckRx(e, f.nr)
             b == IF f.pf THEN Rr(a, TRUE) ELSE a
             c == IF b.last_frame_we_acknowledged # b.next_expected_frame
                    THEN Rr(b, FALSE) ELSE b
             t == IF s.state # "DATA" THEN s
                  ELSE IF Expected(s, f) THEN c
                  ELSE IF (s.next_expected_frame - f.ns) % Mod < Window THEN Rr(s, FALSE)
                  ELSE Reject(s)
  <2>1. end' = [end EXCEPT ![p] = t]  BY <1>6 DEF ReceiveI, s
  <2>2. LineFrom(p) /\ line[p] # <<>> /\ f.type = "I" /\ f \in IFrames
    BY <1>3, <1>6, FrameKinds DEF ReceiveI
  <2>3. f.nr \in Numbers /\ f.pf \in BOOLEAN  BY <2>2 DEF IFrames
  <2>4. (s.tx_last = "null" => f.nr = 0) /\ end[Other(p)].tx_last # "null"
    BY <1>1, <2>2, FrontAck DEF Acks, s
  <2>5. Typed(e) /\ e.state = s.state /\ e.tx_last = s.tx_last /\ Fits(e)
    <3> DEFINE k == (s.next_expected_frame + 1) % Mod
    <3>1. k \in Numbers
      BY <1>1, Bounds DEF Typed, Contents, Counters, Numbers
    <3>2. e = [s EXCEPT !.next_expected_frame = k]  BY <1>1 DEF Typed, Whole, All
    <3> HIDE DEF k, e
    <3>3. Typed(e)
      BY <1>1, <3>1, <3>2 DEF Typed, Whole, Contents, Counters, Stores, Modes, Tried, All
    <3>4. /\ e.state = s.state /\ e.tx_last = s.tx_last /\ e.txqueue = s.txqueue
          /\ e.buffer = s.buffer /\ e.next_tx_frame = s.next_tx_frame
          /\ e.last_frame_peer_acknowledged = s.last_frame_peer_acknowledged
      BY <1>1, <3>2 DEF Typed, Whole, All
    <3> QED  BY <1>1, <3>3, <3>4 DEF Fits, Numbered, Hushed
  <2> HIDE DEF f, e
  <2>6. ASSUME s.state = "DATA" PROVE Typed(a) /\ Later(e, a)
    BY <2>3, <2>4, <2>5, <2>6, TypedAckRx, LaterAckRx
  <2> HIDE DEF a
  <2>7. ASSUME s.state = "DATA" PROVE Typed(b) /\ Later(e, b)
    <3>1. Typed(a) /\ Later(e, a)  BY <2>6, <2>7
    <3>2. Typed(Rr(a, TRUE)) /\ Later(a, Rr(a, TRUE))  BY <3>1, TypedRr, LaterRr DEF Later
    <3>3. Later(e, Rr(a, TRUE))  BY <3>1, <3>2, LaterTwice
    <3> QED  BY <3>1, <3>2, <3>3
  <2> HIDE DEF b
  <2>8. ASSUME s.state = "DATA" PROVE Later(e, c)
    <3>1. Typed(b) /\ Later(e, b)  BY <2>7, <2>8
    <3>2. Later(b, Rr(b, FALSE))  BY <3>1, LaterRr DEF Later
    <3>3. Later(e, Rr(b, FALSE))  BY <3>1, <3>2, LaterTwice
    <3> QED  BY <3>1, <3>3
  <2> HIDE DEF c
  <2>9. Later(s, Rr(s, FALSE)) /\ Later(s, Reject(s))  BY <1>1, LaterRr
  <2>10. Fits(t) /\ (t.tx_last = "null" => s.tx_last = "null")
    BY <1>1, <2>5, <2>8, <2>9 DEF Later
  <2> HIDE DEF t
  <2> QED  BY <1>1, <2>1, <2>2, <2>4, <2>10, NumberStep DEF s
<1>7. CASE ReceiveRr(p)
  <2> DEFINE a == AckRx(s, f.nr)
             b == IF a.solicit_f_bit THEN a ELSE Rr(a, TRUE)
             c == [b EXCEPT !.solicit_f_bit = FALSE]
             t == IF s.state # "DATA" THEN s ELSE IF f.pf THEN c ELSE a
  <2>1. end' = [end EXCEPT ![p] = t]  BY <1>7 DEF ReceiveRr, s
  <2>2. LineFrom(p) /\ line[p] # <<>> /\ f.type = "RR" /\ f.nr \in Numbers
    BY <1>3, <1>7, FrameKinds DEF ReceiveRr
  <2>3. s.tx_last = "null" => f.nr = 0
    BY <1>1, <2>2, FrontAck DEF Acks, s
  <2> HIDE DEF f
  <2>4. ASSUME s.state = "DATA" PROVE Typed(a) /\ Later(s, a)
    BY <1>1, <2>2, <2>3, <2>4, TypedAckRx, LaterAckRx
  <2> HIDE DEF a
  <2>5. ASSUME s.state = "DATA" PROVE Typed(b) /\ Later(s, b)
    <3>1. Typed(a) /\ Later(s, a)  BY <2>4, <2>5
    <3>2. Typed(Rr(a, TRUE)) /\ Later(a, Rr(a, TRUE))  BY <3>1, TypedRr, LaterRr DEF Later
    <3>3. Later(s, Rr(a, TRUE))  BY <3>1, <3>2, LaterTwice
    <3> QED  BY <3>1, <3>2, <3>3
  <2> HIDE DEF b
  <2>6. ASSUME s.state = "DATA" PROVE Later(s, c)
    <3>1. Typed(b) /\ Later(s, b)  BY <2>5, <2>6
    <3>2. \A x \in Linked : c[x] = b[x]  BY <3>1 DEF Typed, Whole, All, Linked
    <3>3. Later(b, c)  BY <3>1, <3>2, LaterSame DEF Later
    <3> QED  BY <3>1, <3>3, LaterTwice
  <2> HIDE DEF c
  <2>7. Later(s, t)
    <3>1. Later(s, s)  BY <1>1 DEF Later
    <3> QED  BY <2>4, <2>6, <3>1
  <2> HIDE DEF t
  <2> QED  BY <1>1, <2>1, <2>2, <2>7, LaterStep DEF s
<1>8. CASE ReceiveRej(p)
  <2> DEFINE r == IF f.pf THEN Rr(s, TRUE) ELSE s
             t == IF s.state # "DATA" THEN s ELSE Retransmit(r, f.nr)
  <2>1. end' = [end EXCEPT ![p] = t]  BY <1>8 DEF ReceiveRej, s
  <2>2. LineFrom(p) /\ line[p] # <<>> /\ f.type = "REJ" /\ f.nr \in Numbers
    BY <1>3, <1>8, FrameKinds DEF ReceiveRej
  <2>3. s.tx_last = "null" => f.nr = 0
    BY <1>1, <2>2, FrontAck DEF Acks, s
  <2> HIDE DEF f
  <2>4. Later(s, s)  BY <1>1 DEF Later
  <2>5. Typed(r) /\ r.state = s.state /\ Later(s, r)
    <3>1. Rr(s, TRUE).state = s.state
      <4>1. Fields \subseteq DOMAIN s  BY <1>1 DEF Typed, Whole, All, Fields
      <4> QED  BY <4>1, RrSame DEF Same
    <3>2. Typed(Rr(s, TRUE)) /\ Later(s, Rr(s, TRUE))  BY <1>1, TypedRr, LaterRr
    <3> QED  BY <1>1, <2>4, <3>1, <3>2
  <2> HIDE DEF r
  <2>6. ASSUME s.state = "DATA" PROVE Later(s, Retransmit(r, f.nr))
    <3>1. Fits(r) /\ (r.tx_last = "null" => f.nr = 0)  BY <2>3, <2>5 DEF Later
    <3>2. Later(r, Retransmit(r, f.nr))  BY <2>2, <2>5, <2>6, <3>1, LaterRetransmit
    <3> QED  BY <2>5, <3>2, LaterTwice
  <2>7. Later(s, t)  BY <2>4, <2>6
  <2> HIDE DEF t
  <2> QED  BY <1>1, <2>1, <2>2, <2>7, LaterStep DEF s
<1>9. CASE ReceiveSabme(p)
  <2>1. LineFrom(p)  BY <1>3, <1>9 DEF ReceiveSabme
  <2>2. ComesUp(p, TxFrame(s, UFrame("UA")))  BY <1>9 DEF ReceiveSabme, s
  <2> QED  BY <1>4, <1>5, <2>1, <2>2 DEF s
<1>10. CASE ReceiveUa(p)
  <2>1. LineFrom(p)  BY <1>3, <1>10 DEF ReceiveUa
  <2>2. Later(s, s)  BY <1>1 DEF Later
  <2>3. CASE ComesUp(p, s)  BY <1>1, <1>5, <2>1, <2>2, <2>3 DEF s
  <2>4. CASE end' = end
    <3>1. end' = [end EXCEPT ![p] = s]  BY <1>1, <2>4 DEF EndsTyped, s
    <3> QED  BY <1>1, <2>1, <2>2, <3>1, LaterStep DEF s
  <2> QED  BY <1>10, <2>3, <2>4 DEF ReceiveUa, s
<1>11. CASE ReceiveDisc(p)
  <2> DEFINE u == TxFrame(s, UFrame("UA"))
             t == Reset(u)
  <2>1. end' = [end EXCEPT ![p] = t]  BY <1>11 DEF ReceiveDisc, s
  <2>2. LineFrom(p)  BY <1>3, <1>11 DEF ReceiveDisc
  <2>3. Typed(u) /\ Later(s, u)  BY <1>4 DEF s
  <2> HIDE DEF u
  <2>4. Later(u, t)  BY <2>3, LaterReset DEF Typed, Later, Fits
  <2> HIDE DEF t
  <2>5. Later(s, t)  BY <2>3, <2>4, LaterTwice
  <2> QED  BY <1>1, <2>1, <2>2, <2>5, LaterStep DEF s
<1>12. CASE ReceiveDm(p)
  <2> DEFINE r == IF f.pf THEN Reset(s) ELSE s
             t == Restart(r)
  <2>1. end' = [end EXCEPT ![p] = t]  BY <1>12 DEF ReceiveDm, s
  <2>2. LineFrom(p)  BY <1>3, <1>12 DEF ReceiveDm
  <2>3. Typed(r) /\ Later(s, r)
    <3>1. Typed(Reset(s)) /\ Later(s, Reset(s))  BY <1>1, TypedReset, LaterReset DEF Typed, Fits
    <3>2. Later(s, s)  BY <1>1 DEF Later
    <3> QED  BY <1>1, <3>1, <3>2
  <2> HIDE DEF r
  <2>4. Later(r, t)  BY <2>3, LaterRestart DEF Later
  <2> HIDE DEF t
  <2>5. Later(s, t)  BY <2>3, <2>4, LaterTwice
  <2> QED  BY <1>1, <2>1, <2>2, <2>5, LaterStep DEF s
<1>13. CASE Ignore(p)
  <2>1. LineFrom(p)  BY <1>1, <1>13, LineTail DEF Ignore
  <2>2. Later(s, s)  BY <1>1 DEF Later
  <2>3. end' = [end EXCEPT ![p] = s]  BY <1>1, <1>13 DEF Ignore, EndsTyped, s
  <2> QED  BY <1>1, <2>1, <2>2, <2>3, LaterStep DEF s
<1> QED
  BY <1>6, <1>7, <1>8, <1>9, <1>10, <1>11, <1>12, <1>13 DEF Receive

\* A timer expires.
LEMMA TimersNumber ==
  ASSUME Inv, NumberInv, TypeInv, NEW p \in Peer, Timers(p)
  PROVE  NumberInv'
<1> DEFINE s == end[p]
           one(i) == [s EXCEPT !.sched[i] = "none"]
           four(i) == [one(i) EXCEPT !.t400 = 0, !.state = "UNSUPPORTED"]
           first(i) == [one(i) EXCEPT !.t401 = 0]
           third(i) == [one(i) EXCEPT !.t403 = 0]
<1>1. Typed(s) /\ EndsTyped /\ EndInv(s) /\ Fits(s)
  BY DEF TypeInv, EndsTyped, Inv, NumberInv
<1>2. LineFrom(p)
  <2>1. line' = line
    BY DEF Timers, FireSabme, FireT400, FireT401, FireT403, Fire
  <2> QED  BY <2>1, LineSame
<1>3. ASSUME NEW i \in 1 .. Slots, s.sched[i] \in {"sabme", "t401"}
      PROVE  s.retransmissions <= N_400
  BY <1>1, <1>3, LiveTried
<1> HIDE DEF s
<1>4. ASSUME NEW i PROVE /\ Typed(one(i)) /\ Later(s, one(i))
                         /\ one(i).retransmissions = s.retransmissions
  <2>1. Typed(one(i)) /\ one(i).retransmissions = s.retransmissions
    BY <1>1 DEF Typed, Whole, Contents, Counters, Stores, Modes, Tried, All
  <2>2. \A x \in Linked : one(i)[x] = s[x]  BY <1>1 DEF Typed, Whole, All, Linked
  <2> HIDE DEF one
  <2>3. Later(s, one(i))  BY <1>1, <2>2, LaterSame
  <2> QED  BY <2>1, <2>3
<1> HIDE DEF one
<1>5. ASSUME NEW i PROVE /\ Typed(first(i)) /\ Typed(third(i))
                         /\ first(i).retransmissions = s.retransmissions
                         /\ Later(s, first(i)) /\ Later(s, third(i)) /\ Later(s, four(i))
  <2>1. /\ Typed(first(i)) /\ Typed(third(i))
        /\ first(i).retransmissions = s.retransmissions
    BY <1>4 DEF Typed, Whole, Contents, Counters, Stores, Modes, Tried, All
  <2>2. \A x \in Linked : /\ first(i)[x] = one(i)[x] /\ third(i)[x] = one(i)[x]
                          /\ four(i)[x] = one(i)[x]
    BY <1>4 DEF Typed, Whole, All, Linked
  <2> HIDE DEF first, third, four
  <2>3. /\ Later(one(i), first(i)) /\ Later(one(i), third(i)) /\ Later(one(i), four(i))
    BY <1>4, <2>2, LaterSame DEF Later
  <2> QED  BY <1>4, <2>1, <2>3, LaterTwice
<1>6. CASE FireSabme(p)
  <2>1. PICK i \in 1 .. Slots :
          /\ s.sched[i] = "sabme"
          /\ end' = [end EXCEPT ![p] = SendSabme(one(i))]
    BY <1>6 DEF FireSabme, Fire, s, one
  <2>2. Later(one(i), SendSabme(one(i)))  BY <1>3, <1>4, <2>1, LaterSendSabme DEF Later
  <2>3. Later(s, SendSabme(one(i)))  BY <1>4, <2>2, LaterTwice
  <2> QED  BY <1>1, <1>2, <2>1, <2>3, LaterStep DEF s
<1>7. CASE FireT400(p)
  <2>1. PICK i \in 1 .. Slots : end' = [end EXCEPT ![p] = four(i)]
    BY <1>7 DEF FireT400, Fire, s, one
  <2> QED  BY <1>1, <1>2, <1>5, <2>1, LaterStep DEF s
<1>8. CASE FireT401(p)
  <2>1. PICK i \in 1 .. Slots :
          /\ s.sched[i] = "t401"
          /\ end' = [end EXCEPT ![p] = T401Expired(first(i))]
    BY <1>8 DEF FireT401, Fire, s, one
  <2> HIDE DEF first
  <2>2. Later(first(i), T401Expired(first(i)))
    BY <1>3, <1>5, <2>1, LaterT401Expired DEF Later
  <2>3. Later(s, T401Expired(first(i)))  BY <1>5, <2>2, LaterTwice
  <2> QED  BY <1>1, <1>2, <2>1, <2>3, LaterStep DEF s
<1>9. CASE FireT403(p)
  <2>1. PICK i \in 1 .. Slots : end' = [end EXCEPT ![p] = T403Expired(third(i))]
    BY <1>9 DEF FireT403, Fire, s, one
  <2> HIDE DEF third
  <2>2. Later(third(i), T403Expired(third(i)))  BY <1>5, LaterT403Expired DEF Later
  <2>3. Later(s, T403Expired(third(i)))  BY <1>5, <2>2, LaterTwice
  <2> QED  BY <1>1, <1>2, <2>1, <2>3, LaterStep DEF s
<1> QED  BY <1>6, <1>7, <1>8, <1>9 DEF Timers

\* Other makes that send no I frame and no acknowledgement.
OwnNumbers == \A f \in Foreign : f.type \notin Acks

\* The line.
LEMMA LineNumber ==
  ASSUME OwnNumbers, NumberInv, TypeInv, NEW p \in Peer, Corrupt(p) \/ Inject(p)
  PROVE  NumberInv'
<1> DEFINE s == end[p]
<1>1. EndsTyped /\ LinesTyped /\ Fits(s)  BY DEF TypeInv, NumberInv
<1>2. end' = [end EXCEPT ![p] = s]  BY <1>1 DEF Corrupt, Inject, EndsTyped
<1>3. Later(s, s)  BY <1>1 DEF Later
<1>4. CASE Corrupt(p)
  <2>1. LineFrom(p)  BY <1>1, <1>4, LineTail DEF Corrupt
  <2> QED  BY <1>1, <1>2, <1>3, <2>1, LaterStep
<1>5. CASE Inject(p)
  <2>1. PICK f \in Foreign : line' = [line EXCEPT ![p] = Append(@, <<f>>)]  BY <1>5 DEF Inject
  <2>2. <<f>> \in Seq(Frames) /\ <<f>> # <<>> /\ <<f>>[1].type \notin Acks
    <3>1. f \in Frames /\ f.type \notin Acks  BY Bounds DEF OwnNumbers
    <3> QED  BY <3>1
  <2>3. LineFrom(p)  BY <1>1, <2>1, <2>2, LineAppend
  <2> QED  BY <1>1, <1>2, <1>3, <2>3, LaterStep
<1> QED  BY <1>4, <1>5

\* Every step.
LEMMA NextNumber ==
  ASSUME OwnNumbers
  PROVE  Inv /\ TypeInv /\ NumberInv /\ [Next]_vars => NumberInv'
<1> SUFFICES ASSUME Inv, TypeInv, NumberInv, [Next]_vars PROVE NumberInv'  OBVIOUS
<1>1. CASE SeeOdp \/ SendAdp \/ SeeAdp  BY <1>1, DetectionNumber
<1>2. ASSUME NEW p \in Peer, Application(p) PROVE NumberInv'  BY <1>2, ApplicationNumber
<1>3. ASSUME NEW p \in Peer, Transmit(p) PROVE NumberInv'  BY <1>3, TransmitNumber
<1>4. ASSUME NEW p \in Peer, Receive(p) PROVE NumberInv'  BY <1>4, ReceiveNumber
<1>5. ASSUME NEW p \in Peer, Timers(p) PROVE NumberInv'  BY <1>5, TimersNumber
<1>6. ASSUME NEW p \in Peer, Corrupt(p) \/ Inject(p) PROVE NumberInv'  BY <1>6, LineNumber
<1>7. CASE UNCHANGED vars
  <2>1. end' = end /\ line' = line  BY <1>7 DEF vars
  <2> QED  BY <2>1 DEF NumberInv, Silent
<1> QED  BY <1>1, <1>2, <1>3, <1>4, <1>5, <1>6, <1>7 DEF Next

\* With a tail to its queue an end keeps exactly the frames from the last one
\* acknowledged up to the next to be sent, one for each number, through any
\* resets, rejects, retransmissions and late acknowledgements; without one it
\* keeps none (v42.c: lapm_tx_iframe, lapm_ack_packet, lapm_retransmit, reset_lapm).
THEOREM QueueIsNumbered ==
  ASSUME OwnNumbers
  PROVE  Spec /\ []DmFinal => []OutstandingNumbered
<1>1. Init => Inv /\ TypeInv /\ NumberInv  BY InitInv, InitTyped, InitNumber
<1>2. Inv /\ TypeInv /\ NumberInv /\ DmFinal /\ [Next]_vars => (Inv /\ TypeInv /\ NumberInv)'
  BY NextInv, NextTyped, NextNumber
<1>3. Inv /\ TypeInv /\ NumberInv => OutstandingNumbered
  <2> SUFFICES ASSUME TypeInv, NumberInv, NEW p \in Peer
               PROVE  LET s == end[p] IN
                      /\ s.tx_last = "tail" =>
                           /\ s.txqueue # <<>>
                           /\ s.next_tx_frame = (s.last_frame_peer_acknowledged + Len(s.txqueue)) % Mod
                           /\ \A i \in DOMAIN s.txqueue :
                                s.txqueue[i].ns = (s.last_frame_peer_acknowledged + i - 1) % Mod
                      /\ s.tx_last # "tail" => s.txqueue = <<>>
    BY DEF OutstandingNumbered
  <2>1. Numbered(end[p]) /\ end[p].txqueue \in Seq(IFrames)
    BY DEF NumberInv, Fits, TypeInv, EndsTyped, Typed, Contents, Stores
  <2>2. DOMAIN end[p].txqueue = 1 .. Len(end[p].txqueue)  BY <2>1
  <2> QED  BY <2>1, <2>2 DEF Numbered
<1> QED  BY <1>1, <1>2, <1>3, PTL DEF Spec

-----------------------------------------------------------------------------
(* The stream. Way says of one direction what the frames on their way must be *)
(* like, so that the next one that is expected brings a new piece, whatever  *)
(* is lost: an old piece never has the number expected next, behind no frame *)
(* and after no frame that sets up the link.                                 *)

Marks == {"SABME", "UA"}
Counts(f) == f.type = "I" \/ f.type \in Marks
Alike(x, y) == x.type = y.type /\ (x.type = "I" => x.ns = y.ns /\ x.piece = y.piece)
Lines == Seq(Seq(Frames) \ {<<>>})

\* The frames on their way from an end, by their place: those on the line L, the
\* first of its transmitter's buffer b, and those it may send again, in no order.
Coming(L, b, Q, k, y) ==
  \/ k \in 1 .. Len(L) /\ y = L[k][1]
  \/ k = Len(L) + 1 /\ b # <<>> /\ y = b[1]
  \/ k = Len(L) + 2 /\ \E j \in 1 .. Len(Q) : y = Q[j]

\* An old piece behind x does not have the number that is expected after x.
Follows(x, y) == y.piece <= x.piece => y.ns # (x.ns + 1) % Mod

Known(L, b, Q, rd) ==
  \A k \in Nat, y \in Frames : Coming(L, b, Q, k, y) /\ y.type = "I" => y.piece <= rd
Unseen(L, b, Q, st, ne, D) ==
  \A k \in Nat, y \in Frames : Coming(L, b, Q, k, y) /\ y.type = "I" =>
    (st = "DATA" /\ y.piece <= D => y.ns # ne)
InOrder(L, b, Q) ==
  \A k, l \in Nat, x, y \in Frames :
    (/\ Coming(L, b, Q, k, x) /\ x.type = "I"
     /\ Coming(L, b, Q, l, y) /\ y.type = "I" /\ k < l) => Follows(x, y)
Fenced(L, b, Q, D) ==
  \A k, l \in Nat, x, y \in Frames :
    (/\ Coming(L, b, Q, k, x) /\ x.type \in Marks
     /\ Coming(L, b, Q, l, y) /\ y.type = "I" /\ k < l) => y.piece > D
Parted(L, b, Q) ==
  \A j, k, l \in Nat, w, x, y \in Frames :
    (/\ Coming(L, b, Q, j, w) /\ w.type = "I"
     /\ Coming(L, b, Q, k, x) /\ x.type \in Marks
     /\ Coming(L, b, Q, l, y) /\ y.type = "I" /\ j < k /\ k < l) => y.piece > w.piece

Way(L, b, Q, rd, st, ne, D) ==
  /\ L \in Lines /\ b \in Seq(Frames) /\ Q \in Seq(IFrames)
  /\ rd \in Nat /\ D \in Nat /\ D <= rd
  /\ Known(L, b, Q, rd) /\ Unseen(L, b, Q, st, ne, D)
  /\ InOrder(L, b, Q) /\ Fenced(L, b, Q, D) /\ Parted(L, b, Q)

\* What an I frame holds.
LEMMA IFields ==
  ASSUME NEW f \in Frames, f.type = "I"
  PROVE  f \in IFrames /\ f.ns \in Numbers /\ f.nr \in Numbers /\ f.piece \in Nat
<1>1. f \in IFrames  BY FrameKinds
<1> QED  BY <1>1 DEF IFrames

\* What is on the way is frames.
LEMMA ComingFrames ==
  ASSUME NEW L \in Lines, NEW b \in Seq(Frames), NEW Q \in Seq(IFrames), NEW k, NEW y,
         Coming(L, b, Q, k, y)
  PROVE  k \in Nat \ {0} /\ y \in Frames
<1>1. Len(L) \in Nat  BY DEF Lines
<1>2. CASE k \in 1 .. Len(L) /\ y = L[k][1]
  <2>1. L[k] \in Seq(Frames) \ {<<>>}  BY <1>2 DEF Lines
  <2> QED  BY <1>1, <1>2, <2>1
<1>3. CASE k = Len(L) + 1 /\ b # <<>> /\ y = b[1]  BY <1>1, <1>3
<1>4. CASE k = Len(L) + 2 /\ \E j \in 1 .. Len(Q) : y = Q[j]
  BY <1>1, <1>4, FrameKinds
<1> QED  BY <1>2, <1>3, <1>4 DEF Coming

\* Nothing that counts is new, and what counts is in the same order but for pieces
\* that may follow each other.
LEMMA Sorted ==
  ASSUME NEW L, NEW b, NEW Q, NEW rd, NEW st, NEW ne, NEW D, Way(L, b, Q, rd, st, ne, D),
         NEW M \in Lines, NEW c \in Seq(Frames), NEW R \in Seq(IFrames), NEW g,
         \A k \in Nat, y \in Frames : Coming(M, c, R, k, y) /\ Counts(y) =>
           g[k] \in Nat /\ \E x \in Frames : Coming(L, b, Q, g[k], x) /\ Alike(x, y),
         \A k, l \in Nat, x, y \in Frames :
           (/\ Coming(M, c, R, k, x) /\ Counts(x)
            /\ Coming(M, c, R, l, y) /\ Counts(y) /\ k < l) =>
             g[k] < g[l] \/ (x.type = "I" /\ y.type = "I" /\ Follows(x, y))
  PROVE  Way(M, c, R, rd, st, ne, D)
<1>1. Known(M, c, R, rd)
  <2> SUFFICES ASSUME NEW k \in Nat, NEW y \in Frames, Coming(M, c, R, k, y), y.type = "I"
               PROVE  y.piece <= rd
    BY DEF Known
  <2>1. PICK x \in Frames : g[k] \in Nat /\ Coming(L, b, Q, g[k], x) /\ Alike(x, y)
    BY DEF Counts
  <2> QED  BY <2>1 DEF Way, Known, Alike
<1>2. Unseen(M, c, R, st, ne, D)
  <2> SUFFICES ASSUME NEW k \in Nat, NEW y \in Frames, Coming(M, c, R, k, y), y.type = "I",
                      st = "DATA", y.piece <= D
               PROVE  y.ns # ne
    BY DEF Unseen
  <2>1. PICK x \in Frames : g[k] \in Nat /\ Coming(L, b, Q, g[k], x) /\ Alike(x, y)
    BY DEF Counts
  <2> QED  BY <2>1 DEF Way, Unseen, Alike
<1>3. InOrder(M, c, R)
  <2> SUFFICES ASSUME NEW k \in Nat, NEW l \in Nat, NEW x \in Frames, NEW y \in Frames,
                      Coming(M, c, R, k, x), x.type = "I",
                      Coming(M, c, R, l, y), y.type = "I", k < l
               PROVE  Follows(x, y)
    BY DEF InOrder
  <2>1. Counts(x) /\ Counts(y)  BY DEF Counts
  <2>2. PICK u \in Frames : g[k] \in Nat /\ Coming(L, b, Q, g[k], u) /\ Alike(u, x)  BY <2>1
  <2>3. PICK v \in Frames : g[l] \in Nat /\ Coming(L, b, Q, g[l], v) /\ Alike(v, y)  BY <2>1
  <2>4. u.type = "I" /\ v.type = "I"  BY <2>2, <2>3 DEF Alike
  <2>5. CASE g[k] < g[l]
    <3>1. Follows(u, v)  BY <2>2, <2>3, <2>4, <2>5 DEF Way, InOrder
    <3> QED  BY <2>2, <2>3, <2>4, <3>1 DEF Alike, Follows
  <2> QED  BY <2>1, <2>5
<1>4. Fenced(M, c, R, D)
  <2> SUFFICES ASSUME NEW k \in Nat, NEW l \in Nat, NEW x \in Frames, NEW y \in Frames,
                      Coming(M, c, R, k, x), x.type \in Marks,
                      Coming(M, c, R, l, y), y.type = "I", k < l
               PROVE  y.piece > D
    BY DEF Fenced
  <2>1. Counts(x) /\ Counts(y)  BY DEF Counts
  <2>2. PICK u \in Frames : g[k] \in Nat /\ Coming(L, b, Q, g[k], u) /\ Alike(u, x)  BY <2>1
  <2>3. PICK v \in Frames : g[l] \in Nat /\ Coming(L, b, Q, g[l], v) /\ Alike(v, y)  BY <2>1
  <2>4. g[k] < g[l]  BY <2>1 DEF Marks
  <2>5. u.type \in Marks /\ v.type = "I"  BY <2>2, <2>3 DEF Alike
  <2>6. v.piece > D  BY <2>2, <2>3, <2>4, <2>5 DEF Way, Fenced
  <2> QED  BY <2>3, <2>5, <2>6 DEF Alike
<1>5. Parted(M, c, R)
  <2> SUFFICES ASSUME NEW j \in Nat, NEW k \in Nat, NEW l \in Nat,
                      NEW w \in Frames, NEW x \in Frames, NEW y \in Frames,
                      Coming(M, c, R, j, w), w.type = "I",
                      Coming(M, c, R, k, x), x.type \in Marks,
                      Coming(M, c, R, l, y), y.type = "I", j < k, k < l
               PROVE  y.piece > w.piece
    BY DEF Parted
  <2>1. Counts(w) /\ Counts(x) /\ Counts(y)  BY DEF Counts
  <2>2. PICK t \in Frames : g[j] \in Nat /\ Coming(L, b, Q, g[j], t) /\ Alike(t, w)  BY <2>1
  <2>3. PICK u \in Frames : g[k] \in Nat /\ Coming(L, b, Q, g[k], u) /\ Alike(u, x)  BY <2>1
  <2>4. PICK v \in Frames : g[l] \in Nat /\ Coming(L, b, Q, g[l], v) /\ Alike(v, y)  BY <2>1
  <2>5. g[j] < g[k] /\ g[k] < g[l]  BY <2>1 DEF Marks
  <2>6. t.type = "I" /\ u.type \in Marks /\ v.type = "I"  BY <2>2, <2>3, <2>4 DEF Alike
  <2>7. v.piece > t.piece  BY <2>2, <2>3, <2>4, <2>5, <2>6 DEF Way, Parted
  <2> QED  BY <2>2, <2>4, <2>6, <2>7 DEF Alike
<1> QED  BY <1>1, <1>2, <1>3, <1>4, <1>5 DEF Way

\* The same for frames that stay in their order.
LEMMA Thinner ==
  ASSUME NEW L, NEW b, NEW Q, NEW rd, NEW st, NEW ne, NEW D, Way(L, b, Q, rd, st, ne, D),
         NEW M \in Lines, NEW c \in Seq(Frames), NEW R \in Seq(IFrames), NEW g,
         \A k \in Nat, y \in Frames : Coming(M, c, R, k, y) /\ Counts(y) =>
           g[k] \in Nat /\ \E x \in Frames : Coming(L, b, Q, g[k], x) /\ Alike(x, y),
         \A k, l \in Nat, x, y \in Frames :
           (/\ Coming(M, c, R, k, x) /\ Counts(x)
            /\ Coming(M, c, R, l, y) /\ Counts(y) /\ k < l) => g[k] < g[l]
  PROVE  Way(M, c, R, rd, st, ne, D)
<1>1. \A k, l \in Nat, x, y \in Frames :
        (/\ Coming(M, c, R, k, x) /\ Counts(x)
         /\ Coming(M, c, R, l, y) /\ Counts(y) /\ k < l) =>
          g[k] < g[l] \/ (x.type = "I" /\ y.type = "I" /\ Follows(x, y))
  OBVIOUS
<1> QED  BY <1>1, Sorted

\* The same line: the buffer begins with what it began with or with a frame that
\* does not count, and the queue keeps some of its frames.
LEMMA ThinnerEnd ==
  ASSUME NEW L, NEW b, NEW Q, NEW rd, NEW st, NEW ne, NEW D, Way(L, b, Q, rd, st, ne, D),
         NEW c \in Seq(Frames), NEW R \in Seq(IFrames),
         \/ c = <<>>
         \/ c # <<>> /\ b # <<>> /\ c[1] = b[1]
         \/ c # <<>> /\ ~Counts(c[1]),
         \A i \in 1 .. Len(R) : \E j \in 1 .. Len(Q) : Alike(Q[j], R[i])
  PROVE  Way(L, c, R, rd, st, ne, D)
<1> DEFINE g == [k \in Nat |-> k]
<1>1. L \in Lines /\ b \in Seq(Frames) /\ Q \in Seq(IFrames)  BY DEF Way
<1>2. ASSUME NEW k \in Nat, NEW y \in Frames, Coming(L, c, R, k, y), Counts(y)
      PROVE  \E x \in Frames : Coming(L, b, Q, k, x) /\ Alike(x, y)
  <2>1. Alike(y, y)  BY DEF Alike
  <2>2. CASE k \in 1 .. Len(L) /\ y = L[k][1]  BY <2>1, <2>2 DEF Coming
  <2>3. CASE k = Len(L) + 1 /\ c # <<>> /\ y = c[1]  BY <1>2, <2>1, <2>3 DEF Coming
  <2>4. CASE k = Len(L) + 2 /\ \E j \in 1 .. Len(R) : y = R[j]
    <3>1. PICK i \in 1 .. Len(R) : y = R[i]  BY <2>4
    <3>2. PICK j \in 1 .. Len(Q) : Alike(Q[j], R[i])  OBVIOUS
    <3>3. Q[j] \in Frames  BY <1>1, FrameKinds
    <3>4. Coming(L, b, Q, k, Q[j])  BY <2>4 DEF Coming
    <3> QED  BY <3>1, <3>2, <3>3, <3>4
  <2> QED  BY <1>2, <2>2, <2>3, <2>4 DEF Coming
<1>3. \A k \in Nat : g[k] = k  OBVIOUS
<1> HIDE DEF g
<1>4. \A k \in Nat, y \in Frames : Coming(L, c, R, k, y) /\ Counts(y) =>
        g[k] \in Nat /\ \E x \in Frames : Coming(L, b, Q, g[k], x) /\ Alike(x, y)
  BY <1>2, <1>3
<1>5. \A k, l \in Nat, x, y \in Frames :
        (/\ Coming(L, c, R, k, x) /\ Counts(x)
         /\ Coming(L, c, R, l, y) /\ Counts(y) /\ k < l) => g[k] < g[l]
  BY <1>3
<1> QED  BY <1>1, <1>4, <1>5, Thinner

\* The front frame of the line is gone.
LEMMA ThinnerTail ==
  ASSUME NEW L, NEW b, NEW Q, NEW rd, NEW st, NEW ne, NEW D, Way(L, b, Q, rd, st, ne, D),
         L # <<>>
  PROVE  /\ Way(Tail(L), b, Q, rd, st, ne, D) /\ L[1][1] \in Frames /\ Coming(L, b, Q, 1, L[1][1])
         /\ \A k \in Nat, y \in Frames : Coming(Tail(L), b, Q, k, y) =>
              k + 1 \in Nat /\ 1 < k + 1 /\ Coming(L, b, Q, k + 1, y)
<1> DEFINE g == [k \in Nat |-> k + 1]
<1>1. L \in Lines /\ b \in Seq(Frames) /\ Q \in Seq(IFrames) /\ Tail(L) \in Lines
  BY DEF Way, Lines
<1>2. Len(L) \in Nat /\ Len(Tail(L)) = Len(L) - 1 /\ Len(L) >= 1
      /\ \A k \in 1 .. Len(L) - 1 : Tail(L)[k] = L[k + 1]
  BY <1>1 DEF Lines
<1>3. ASSUME NEW k \in Nat, NEW y \in Frames, Coming(Tail(L), b, Q, k, y)
      PROVE  k + 1 \in Nat /\ 1 < k + 1 /\ Coming(L, b, Q, k + 1, y)
  <2>1. k # 0  BY <1>1, <1>3, ComingFrames
  <2>2. CASE k \in 1 .. Len(Tail(L)) /\ y = Tail(L)[k][1]  BY <1>2, <2>2 DEF Coming
  <2>3. CASE k = Len(Tail(L)) + 1 /\ b # <<>> /\ y = b[1]  BY <1>2, <2>3 DEF Coming
  <2>4. CASE k = Len(Tail(L)) + 2 /\ \E j \in 1 .. Len(Q) : y = Q[j]
    BY <1>2, <2>4 DEF Coming
  <2> QED  BY <1>3, <2>1, <2>2, <2>3, <2>4 DEF Coming
<1>4. \A k \in Nat : g[k] = k + 1 /\ g[k] \in Nat  OBVIOUS
<1>5. \A k, l \in Nat : k < l => g[k] < g[l]  OBVIOUS
<1> HIDE DEF g
<1>6. Way(Tail(L), b, Q, rd, st, ne, D)
  <2>1. ASSUME NEW k \in Nat, NEW y \in Frames, Coming(Tail(L), b, Q, k, y)
        PROVE  g[k] \in Nat /\ \E x \in Frames : Coming(L, b, Q, g[k], x) /\ Alike(x, y)
    BY <1>3, <1>4, <2>1 DEF Alike
  <2> QED  BY <1>1, <1>5, <2>1, Thinner
<1>7. Coming(L, b, Q, 1, L[1][1])  BY <1>2 DEF Coming
<1>8. L[1][1] \in Frames  BY <1>1, <1>7, ComingFrames
<1> QED  BY <1>3, <1>6, <1>7, <1>8

\* The transmitter's frame goes onto the line.
LEMMA ThinnerSent ==
  ASSUME NEW L, NEW b, NEW Q, NEW rd, NEW st, NEW ne, NEW D, Way(L, b, Q, rd, st, ne, D),
         b # <<>>
  PROVE  Way(Append(L, b), <<>>, Q, rd, st, ne, D)
<1> DEFINE n == Len(L)
           M == Append(L, b)
           g == [k \in Nat |-> IF k = n + 3 THEN n + 2 ELSE k]
<1>1. L \in Lines /\ b \in Seq(Frames) /\ Q \in Seq(IFrames) /\ M \in Lines /\ <<>> \in Seq(Frames)
  BY DEF Way, Lines
<1>2. n \in Nat /\ Len(M) = n + 1 /\ \A k \in 1 .. n + 1 : M[k] = IF k <= n THEN L[k] ELSE b
  BY <1>1 DEF Lines
<1>3. \A k \in Nat : g[k] = IF k = n + 3 THEN n + 2 ELSE k  OBVIOUS
<1> HIDE DEF g, M
<1>4. ASSUME NEW k \in Nat, NEW y \in Frames, Coming(M, <<>>, Q, k, y)
      PROVE  (k \in 1 .. n + 1 \/ k = n + 3) /\ Coming(L, b, Q, g[k], y)
  <2>1. CASE k \in 1 .. Len(M) /\ y = M[k][1]
    <3>1. k \in 1 .. n + 1 /\ g[k] = k  BY <1>2, <1>3, <2>1
    <3>2. k <= n => Coming(L, b, Q, k, y)  BY <1>2, <2>1, <3>1 DEF Coming
    <3>3. ~(k <= n) => Coming(L, b, Q, k, y)  BY <1>2, <2>1, <3>1 DEF Coming
    <3> QED  BY <3>1, <3>2, <3>3
  <2>2. CASE k = Len(M) + 2 /\ \E j \in 1 .. Len(Q) : y = Q[j]
    <3>1. k = n + 3 /\ g[k] = n + 2  BY <1>2, <1>3, <2>2
    <3> QED  BY <2>2, <3>1 DEF Coming
  <2> QED  BY <1>4, <2>1, <2>2 DEF Coming
<1>5. ASSUME NEW k \in Nat, NEW y \in Frames, Coming(M, <<>>, Q, k, y)
      PROVE  g[k] \in Nat /\ \E x \in Frames : Coming(L, b, Q, g[k], x) /\ Alike(x, y)
  <2>1. g[k] \in Nat  BY <1>2, <1>3
  <2> QED  BY <1>4, <1>5, <2>1 DEF Alike
<1>6. ASSUME NEW k \in Nat, NEW l \in Nat, NEW x \in Frames, NEW y \in Frames,
             Coming(M, <<>>, Q, k, x), Coming(M, <<>>, Q, l, y), k < l
      PROVE  g[k] < g[l]
  <2>1. (k \in 1 .. n + 1 \/ k = n + 3) /\ (l \in 1 .. n + 1 \/ l = n + 3)  BY <1>4, <1>6
  <2> QED  BY <1>2, <1>3, <1>6, <2>1
<1>7. Way(M, <<>>, Q, rd, st, ne, D)  BY <1>1, <1>5, <1>6, Thinner
<1> QED  BY <1>7 DEF M

\* A frame that does not count is put on the line.
LEMMA ThinnerStray ==
  ASSUME NEW L, NEW b, NEW Q, NEW rd, NEW st, NEW ne, NEW D, Way(L, b, Q, rd, st, ne, D),
         NEW f \in Frames, ~Counts(f)
  PROVE  Way(Append(L, <<f>>), b, Q, rd, st, ne, D)
<1> DEFINE n == Len(L)
           M == Append(L, <<f>>)
           g == [k \in Nat |-> IF k > n THEN k - 1 ELSE k]
<1>1. L \in Lines /\ b \in Seq(Frames) /\ Q \in Seq(IFrames) /\ M \in Lines
  <2>1. <<f>> \in Seq(Frames) \ {<<>>}  OBVIOUS
  <2> QED  BY <2>1 DEF Way, Lines
<1>2. n \in Nat /\ Len(M) = n + 1 /\ \A k \in 1 .. n + 1 : M[k] = IF k <= n THEN L[k] ELSE <<f>>
  BY <1>1 DEF Lines
<1>3. \A k \in Nat : g[k] = IF k > n THEN k - 1 ELSE k  OBVIOUS
<1> HIDE DEF g, M
<1>4. ASSUME NEW k \in Nat, NEW y \in Frames, Coming(M, b, Q, k, y), Counts(y)
      PROVE  k \in Nat \ {n + 1} /\ Coming(L, b, Q, g[k], y)
  <2>1. CASE k \in 1 .. Len(M) /\ y = M[k][1]
    <3>1. k \in 1 .. n
      <4>1. k = n + 1 => y = f  BY <1>2, <2>1
      <4> QED  BY <1>2, <1>4, <2>1, <4>1
    <3>2. g[k] = k /\ y = L[k][1]  BY <1>2, <1>3, <2>1, <3>1
    <3> QED  BY <1>2, <3>1, <3>2 DEF Coming
  <2>2. CASE k = Len(M) + 1 /\ b # <<>> /\ y = b[1]
    <3>1. k = n + 2 /\ g[k] = n + 1  BY <1>2, <1>3, <2>2
    <3> QED  BY <1>2, <2>2, <3>1 DEF Coming
  <2>3. CASE k = Len(M) + 2 /\ \E j \in 1 .. Len(Q) : y = Q[j]
    <3>1. k = n + 3 /\ g[k] = n + 2  BY <1>2, <1>3, <2>3
    <3> QED  BY <1>2, <2>3, <3>1 DEF Coming
  <2> QED  BY <1>4, <2>1, <2>2, <2>3 DEF Coming
<1>5. ASSUME NEW k \in Nat, NEW y \in Frames, Coming(M, b, Q, k, y), Counts(y)
      PROVE  g[k] \in Nat /\ \E x \in Frames : Coming(L, b, Q, g[k], x) /\ Alike(x, y)
  <2>1. Coming(L, b, Q, g[k], y)  BY <1>4, <1>5
  <2>2. g[k] \in Nat  BY <1>1, <2>1, ComingFrames
  <2> QED  BY <2>1, <2>2 DEF Alike
<1>6. ASSUME NEW k \in Nat, NEW l \in Nat, NEW x \in Frames, NEW y \in Frames,
             Coming(M, b, Q, k, x), Counts(x), Coming(M, b, Q, l, y), Counts(y), k < l
      PROVE  g[k] < g[l]
  <2>1. k # n + 1 /\ l # n + 1  BY <1>4, <1>6
  <2> QED  BY <1>2, <1>3, <1>6, <2>1
<1>7. Way(M, b, Q, rd, st, ne, D)  BY <1>1, <1>5, <1>6, Thinner
<1> QED  BY <1>7 DEF M

\* A frame of the queue is at the front of what the transmitter sends.
LEMMA FrontJoins ==
  ASSUME NEW L, NEW Q, NEW rd, NEW st, NEW ne, NEW D, Way(L, <<>>, Q, rd, st, ne, D),
         NEW c \in Seq(Frames), c # <<>>, NEW i \in 1 .. Len(Q), Alike(Q[i], c[1]),
         \A a, b \in 1 .. Len(Q) : Follows(Q[a], Q[b])
  PROVE  Way(L, c, Q, rd, st, ne, D)
<1> DEFINE n == Len(L)
           g == [k \in Nat |-> IF k = n + 1 THEN n + 2 ELSE k]
<1>1. L \in Lines /\ Q \in Seq(IFrames)  BY DEF Way
<1>2. n \in Nat  BY <1>1 DEF Lines
<1>3. \A k \in Nat : g[k] = (IF k = n + 1 THEN n + 2 ELSE k) /\ g[k] \in Nat  BY <1>2
<1> HIDE DEF g
<1>4. Q[i] \in Frames /\ Q[i].type = "I" /\ \A j \in 1 .. Len(Q) : Q[j] \in Frames /\ Q[j].type = "I"
  <2>1. \A j \in 1 .. Len(Q) : Q[j] \in IFrames  BY <1>1
  <2> QED  BY <2>1, FrameKinds DEF IFrames
<1>5. ASSUME NEW k \in Nat, NEW y \in Frames, Coming(L, c, Q, k, y)
      PROVE  /\ \E x \in Frames : Coming(L, <<>>, Q, g[k], x) /\ Alike(x, y)
             /\ k \in 1 .. n + 2
             /\ k > n => y.type = "I" /\ \E j \in 1 .. Len(Q) : Alike(Q[j], y)
  <2>1. Alike(y, y)  BY DEF Alike
  <2>2. CASE k \in 1 .. n /\ y = L[k][1]
    <3>1. g[k] = k /\ k \in 1 .. n + 2 /\ ~(k > n)  BY <1>2, <1>3, <2>2
    <3> QED  BY <2>1, <2>2, <3>1 DEF Coming
  <2>3. CASE k = n + 1 /\ y = c[1]
    <3>1. g[k] = n + 2 /\ k \in 1 .. n + 2  BY <1>2, <1>3, <2>3
    <3>2. Alike(Q[i], y) /\ y.type = "I"  BY <1>4, <2>3 DEF Alike
    <3>3. Coming(L, <<>>, Q, g[k], Q[i])  BY <3>1 DEF Coming
    <3> QED  BY <1>4, <3>1, <3>2, <3>3
  <2>4. CASE k = n + 2 /\ \E j \in 1 .. Len(Q) : y = Q[j]
    <3>1. g[k] = n + 2 /\ k \in 1 .. n + 2  BY <1>2, <1>3, <2>4
    <3>2. Coming(L, <<>>, Q, g[k], y)  BY <2>4, <3>1 DEF Coming
    <3> QED  BY <1>4, <2>1, <2>4, <3>1, <3>2
  <2> QED  BY <1>5, <2>2, <2>3, <2>4 DEF Coming
<1>6. ASSUME NEW k \in Nat, NEW l \in Nat, NEW x \in Frames, NEW y \in Frames,
             Coming(L, c, Q, k, x), Coming(L, c, Q, l, y), k < l
      PROVE  g[k] < g[l] \/ (x.type = "I" /\ y.type = "I" /\ Follows(x, y))
  <2>1. k \in 1 .. n + 2 /\ l \in 1 .. n + 2  BY <1>5, <1>6
  <2>2. CASE k <= n  BY <1>2, <1>3, <1>6, <2>1, <2>2
  <2>3. CASE ~(k <= n)
    <3>1. k > n /\ l > n  BY <1>2, <1>6, <2>1, <2>3
    <3>2. x.type = "I" /\ y.type = "I"  BY <1>5, <1>6, <3>1
    <3>3. PICK a \in 1 .. Len(Q) : Alike(Q[a], x)  BY <1>5, <1>6, <3>1
    <3>4. PICK b \in 1 .. Len(Q) : Alike(Q[b], y)  BY <1>5, <1>6, <3>1
    <3>5. Follows(Q[a], Q[b])  OBVIOUS
    <3> QED  BY <1>4, <3>2, <3>3, <3>4, <3>5 DEF Alike, Follows
  <2> QED  BY <2>2, <2>3
<1> QED  BY <1>1, <1>3, <1>5, <1>6, Sorted

\* A frame that sets up the link is at the front of what the transmitter sends,
\* and nothing is kept to be sent again.
LEMMA MarkJoins ==
  ASSUME NEW L, NEW rd, NEW st, NEW ne, NEW D, Way(L, <<>>, <<>>, rd, st, ne, D),
         NEW c \in Seq(Frames), c # <<>>, c[1].type # "I"
  PROVE  Way(L, c, <<>>, rd, st, ne, D)
<1>1. L \in Lines /\ <<>> \in Seq(IFrames)  BY DEF Way
<1>2. Len(L) \in Nat  BY <1>1 DEF Lines
<1>3. ASSUME NEW k, NEW y, Coming(L, c, <<>>, k, y)
      PROVE  \/ k \in 1 .. Len(L) /\ Coming(L, <<>>, <<>>, k, y)
             \/ k = Len(L) + 1 /\ y.type # "I"
  BY <1>3 DEF Coming
<1>4. ASSUME NEW k, NEW l, NEW x, NEW y, k \in Nat, l \in Nat, k < l,
             Coming(L, c, <<>>, k, x), Coming(L, c, <<>>, l, y), y.type = "I"
      PROVE  Coming(L, <<>>, <<>>, k, x) /\ Coming(L, <<>>, <<>>, l, y)
  <2>1. l \in 1 .. Len(L) /\ Coming(L, <<>>, <<>>, l, y)  BY <1>3, <1>4
  <2>2. k # Len(L) + 1  BY <1>2, <1>4, <2>1
  <2> QED  BY <1>3, <1>4, <2>1, <2>2
<1>5. Known(L, c, <<>>, rd)  BY <1>3 DEF Way, Known
<1>6. Unseen(L, c, <<>>, st, ne, D)  BY <1>3 DEF Way, Unseen
<1>7. InOrder(L, c, <<>>)  BY <1>4 DEF Way, InOrder
<1>8. Fenced(L, c, <<>>, D)  BY <1>4 DEF Way, Fenced
<1>9. Parted(L, c, <<>>)
  <2> SUFFICES ASSUME NEW j \in Nat, NEW k \in Nat, NEW l \in Nat,
                      NEW w \in Frames, NEW x \in Frames, NEW y \in Frames,
                      Coming(L, c, <<>>, j, w), w.type = "I",
                      Coming(L, c, <<>>, k, x), x.type \in Marks,
                      Coming(L, c, <<>>, l, y), y.type = "I", j < k, k < l
               PROVE  y.piece > w.piece
    BY DEF Parted
  <2>1. Coming(L, <<>>, <<>>, k, x) /\ Coming(L, <<>>, <<>>, l, y)  BY <1>4
  <2>2. Coming(L, <<>>, <<>>, j, w)
    <3>1. j < l  OBVIOUS
    <3> QED  BY <1>4, <3>1
  <2> QED  BY <2>1, <2>2 DEF Way, Parted
<1> QED  BY <1>1, <1>5, <1>6, <1>7, <1>8, <1>9 DEF Way

\* A new piece is kept to be sent.
LEMMA QueueGrows ==
  ASSUME NEW L, NEW b, NEW Q, NEW rd, NEW st, NEW ne, NEW D, Way(L, b, Q, rd, st, ne, D),
         NEW f \in IFrames, f.piece = rd + 1
  PROVE  Way(L, b, Append(Q, f), rd + 1, st, ne, D)
<1> DEFINE R == Append(Q, f)
           n == Len(L)
<1>1. /\ L \in Lines /\ b \in Seq(Frames) /\ Q \in Seq(IFrames) /\ R \in Seq(IFrames)
      /\ rd \in Nat /\ rd + 1 \in Nat /\ D \in Nat /\ D <= rd /\ D <= rd + 1
  BY DEF Way
<1>2. n \in Nat  BY <1>1 DEF Lines
<1>3. \A y : (\E j \in 1 .. Len(R) : y = R[j]) => y = f \/ \E j \in 1 .. Len(Q) : y = Q[j]
  BY <1>1
<1> HIDE DEF R
<1>4. ASSUME NEW k \in Nat, NEW y \in Frames, Coming(L, b, R, k, y)
      PROVE  k \in 1 .. n + 2 /\ (Coming(L, b, Q, k, y) \/ (k = n + 2 /\ y = f))
  BY <1>2, <1>3, <1>4 DEF Coming
<1>5. \A k \in Nat, y \in Frames : Coming(L, b, Q, k, y) /\ y.type = "I" =>
        y.piece \in Nat /\ y.piece <= rd
  BY IFields DEF Way, Known
<1>6. Known(L, b, R, rd + 1)
  <2> SUFFICES ASSUME NEW k \in Nat, NEW y \in Frames, Coming(L, b, R, k, y), y.type = "I"
               PROVE  y.piece <= rd + 1
    BY DEF Known
  <2>1. CASE Coming(L, b, Q, k, y)  BY <1>1, <1>5, <2>1
  <2> QED  BY <1>1, <1>4, <2>1
<1>7. Unseen(L, b, R, st, ne, D)
  <2> SUFFICES ASSUME NEW k \in Nat, NEW y \in Frames, Coming(L, b, R, k, y), y.type = "I",
                      st = "DATA", y.piece <= D
               PROVE  y.ns # ne
    BY DEF Unseen
  <2>1. y # f  BY <1>1
  <2> QED  BY <1>4, <2>1 DEF Way, Unseen
<1>8. InOrder(L, b, R)
  <2> SUFFICES ASSUME NEW k \in Nat, NEW l \in Nat, NEW x \in Frames, NEW y \in Frames,
                      Coming(L, b, R, k, x), x.type = "I",
                      Coming(L, b, R, l, y), y.type = "I", k < l
               PROVE  Follows(x, y)
    BY DEF InOrder
  <2>1. Coming(L, b, Q, k, x)  BY <1>2, <1>4
  <2>2. CASE Coming(L, b, Q, l, y)  BY <2>1, <2>2 DEF Way, InOrder
  <2>3. CASE y = f
    <3>1. x.piece <= rd /\ x.piece \in Nat  BY <1>5, <2>1
    <3> QED  BY <1>1, <2>3, <3>1 DEF Follows
  <2> QED  BY <1>4, <2>2, <2>3
<1>9. Fenced(L, b, R, D)
  <2> SUFFICES ASSUME NEW k \in Nat, NEW l \in Nat, NEW x \in Frames, NEW y \in Frames,
                      Coming(L, b, R, k, x), x.type \in Marks,
                      Coming(L, b, R, l, y), y.type = "I", k < l
               PROVE  y.piece > D
    BY DEF Fenced
  <2>1. Coming(L, b, Q, k, x)  BY <1>2, <1>4
  <2>2. CASE Coming(L, b, Q, l, y)  BY <2>1, <2>2 DEF Way, Fenced
  <2>3. CASE y = f  BY <1>1, <2>3
  <2> QED  BY <1>4, <2>2, <2>3
<1>10. Parted(L, b, R)
  <2> SUFFICES ASSUME NEW j \in Nat, NEW k \in Nat, NEW l \in Nat,
                      NEW w \in Frames, NEW x \in Frames, NEW y \in Frames,
                      Coming(L, b, R, j, w), w.type = "I",
                      Coming(L, b, R, k, x), x.type \in Marks,
                      Coming(L, b, R, l, y), y.type = "I", j < k, k < l
               PROVE  y.piece > w.piece
    BY DEF Parted
  <2>1. Coming(L, b, Q, j, w) /\ Coming(L, b, Q, k, x)  BY <1>2, <1>4
  <2>2. CASE Coming(L, b, Q, l, y)  BY <2>1, <2>2 DEF Way, Parted
  <2>3. CASE y = f
    <3>1. w.piece <= rd /\ w.piece \in Nat  BY <1>5, <2>1
    <3> QED  BY <1>1, <2>3, <3>1
  <2> QED  BY <1>4, <2>2, <2>3
<1>11. Way(L, b, R, rd + 1, st, ne, D)
  BY <1>1, <1>6, <1>7, <1>8, <1>9, <1>10 DEF Way
<1> QED  BY <1>11 DEF R

\* The frames that are kept are numbered as the pieces in them, counted back
\* from the one taken last; and there are too few for two of a number.
Pieces(s, rd) ==
  \A i \in 1 .. Len(s.txqueue) :
    /\ s.txqueue[i].piece <= rd
    /\ s.txqueue[i].ns = (s.next_tx_frame + (s.txqueue[i].piece - rd - 1)) % Mod
FewOf(s, rd) == \A i \in 1 .. Len(s.txqueue) : rd - s.txqueue[i].piece + 1 < Mod

Out(L, s, rd, st, ne, D) ==
  Way(L, s.buffer, s.txqueue, rd, st, ne, D) /\ Pieces(s, rd)

\* What an operator that sends no new piece makes of the frames of an end.
Tame(s, t) ==
  /\ \A i \in 1 .. Len(t.txqueue) :
       /\ t.next_tx_frame = s.next_tx_frame
       /\ \E j \in 1 .. Len(s.txqueue) : Alike(s.txqueue[j], t.txqueue[i])
  /\ t.buffer # <<>> =>
       \/ s.buffer # <<>> /\ t.buffer[1] = s.buffer[1]
       \/ ~Counts(t.buffer[1])
       \/ t.buffer[1].type # "I" /\ \A i \in 1 .. Len(t.txqueue) : FALSE
       \/ \E j \in 1 .. Len(s.txqueue) : Alike(s.txqueue[j], t.buffer[1])

\* There are two numbers at least.
LEMMA Modulus == Mod \in Nat \ {0} /\ Mod > 1
BY LapmAssumption

\* Two pieces, the second no later than the first, that are not a whole round
\* of numbers apart.
LEMMA Gap ==
  ASSUME NEW m \in Nat, NEW nx \in Int, NEW rd \in Int, NEW i \in Nat, NEW j \in Nat,
         i <= rd, j <= i, rd - j + 1 < m
  PROVE  LET y == nx + (j - rd - 1)
             z == nx + (i - rd - 1) + 1
         IN y \in Int /\ z \in Int /\ z - y < m /\ y - z < m /\ y # z
OBVIOUS

\* The number that follows that of x is not that of y.
LEMMA ModApart ==
  ASSUME NEW m \in Nat \ {0}, NEW x \in Int, NEW y \in Int,
         (x + 1) - y < m, y - (x + 1) < m, y # x + 1
  PROVE  y % m # ((x % m) + 1) % m
<1> DEFINE z == x + 1
<1>1. z \in Int /\ z - y < m /\ y - z < m /\ y # z  OBVIOUS
<1>2. ((x % m) + 1) % m = (x + 1) % m
  <2> DEFINE b == 1
  <2>1. b \in Int  OBVIOUS
  <2> HIDE DEF b
  <2>2. ((x % m) + b) % m = (x + b) % m  BY <2>1, ModPlus
  <2> QED  BY <2>2 DEF b
<1> HIDE DEF z
<1>3. y % m = z % m => y = z  BY <1>1, ModSame
<1> QED  BY <1>1, <1>2, <1>3 DEF z

\* Pieces that are kept follow each other.
LEMMA Following ==
  ASSUME NEW nx \in Int, NEW rd \in Int, NEW a \in IFrames, NEW b \in IFrames
  PROVE  (/\ a.ns = (nx + (a.piece - rd - 1)) % Mod /\ b.ns = (nx + (b.piece - rd - 1)) % Mod
          /\ a.piece <= rd /\ rd - b.piece + 1 < Mod) => Follows(a, b)
<1> DEFINE x == nx + (a.piece - rd - 1)
           y == nx + (b.piece - rd - 1)
<1>1. a.piece \in Nat /\ b.piece \in Nat /\ Mod \in Nat \ {0}  BY Modulus DEF IFrames
<1>2. x \in Int /\ y \in Int  BY <1>1
<1>3. ASSUME a.piece <= rd, rd - b.piece + 1 < Mod, b.piece <= a.piece
      PROVE  y % Mod # ((x % Mod) + 1) % Mod
  <2> DEFINE i == a.piece  j == b.piece
  <2>1. i \in Nat /\ j \in Nat /\ j <= i /\ i <= rd /\ rd - j + 1 < Mod  BY <1>1, <1>3
  <2> HIDE DEF i, j
  <2>2. (x + 1) - y < Mod /\ y - (x + 1) < Mod /\ y # x + 1
    BY <1>1, <2>1, Gap DEF i, j
  <2> HIDE DEF x, y
  <2> QED  BY <1>1, <1>2, <2>2, ModApart
<1> HIDE DEF x, y
<1>4. a.ns = x % Mod /\ b.ns = y % Mod /\ a.piece <= rd /\ rd - b.piece + 1 < Mod => Follows(a, b)
  BY <1>3 DEF Follows
<1> QED  BY <1>4 DEF x, y

\* So do all that are kept.
LEMMA QueueFollows ==
  ASSUME NEW s, s.txqueue \in Seq(IFrames), s.next_tx_frame \in Numbers, NEW rd \in Nat,
         Pieces(s, rd), FewOf(s, rd)
  PROVE  \A a, b \in 1 .. Len(s.txqueue) : Follows(s.txqueue[a], s.txqueue[b])
<1> TAKE a, b \in 1 .. Len(s.txqueue)
<1> DEFINE x == s.txqueue[a]
           y == s.txqueue[b]
           nx == s.next_tx_frame
<1>1. x \in IFrames /\ y \in IFrames /\ nx \in Int /\ rd \in Int  BY DEF Numbers
<1>2. /\ x.piece <= rd /\ rd - y.piece + 1 < Mod
      /\ x.ns = (nx + (x.piece - rd - 1)) % Mod /\ y.ns = (nx + (y.piece - rd - 1)) % Mod
  BY DEF Pieces, FewOf
<1> HIDE DEF x, y, nx
<1>3. Follows(x, y)  BY <1>1, <1>2, Following
<1> QED  BY <1>3 DEF x, y

\* The frames on their way stay as they have to be.
LEMMA TameOut ==
  ASSUME NEW s, Typed(s), NEW t, Typed(t), Tame(s, t),
         NEW L, NEW rd, NEW st, NEW ne, NEW D, Out(L, s, rd, st, ne, D), FewOf(s, rd)
  PROVE  Out(L, t, rd, st, ne, D)
<1> DEFINE b == s.buffer  Q == s.txqueue  c == t.buffer  R == t.txqueue
<1>1. /\ b \in Seq(Frames) /\ Q \in Seq(IFrames) /\ c \in Seq(Frames) /\ R \in Seq(IFrames)
      /\ s.next_tx_frame \in Numbers
  BY DEF Typed, Contents, Counters, Stores
<1>2. /\ Way(L, b, Q, rd, st, ne, D) /\ Pieces(s, rd) /\ rd \in Nat  BY DEF Out, Way
<1>3. \A i \in 1 .. Len(R) : \E j \in 1 .. Len(Q) : Alike(Q[j], R[i])  BY DEF Tame
<1>4. Pieces(t, rd)
  <2> SUFFICES ASSUME NEW i \in 1 .. Len(R)
               PROVE  R[i].piece <= rd /\ R[i].ns = (t.next_tx_frame + (R[i].piece - rd - 1)) % Mod
    BY DEF Pieces
  <2>1. PICK j \in 1 .. Len(Q) : Alike(Q[j], R[i])  BY <1>3
  <2>2. Q[j] \in IFrames  BY <1>1
  <2>3. Q[j].ns = R[i].ns /\ Q[j].piece = R[i].piece  BY <2>1, <2>2 DEF Alike, IFrames
  <2>5. t.next_tx_frame = s.next_tx_frame  BY DEF Tame
  <2>6. Q[j].piece <= rd /\ Q[j].ns = (s.next_tx_frame + (Q[j].piece - rd - 1)) % Mod
    BY <1>2 DEF Pieces
  <2> QED  BY <2>3, <2>5, <2>6
<1>5. \A i, j \in 1 .. Len(Q) : Follows(Q[i], Q[j])  BY <1>1, <1>2, QueueFollows
<1>6. <<>> \in Seq(Frames) /\ <<>> \in Seq(IFrames) /\ Len(<<>>) = 0  OBVIOUS
<1>7. Way(L, <<>>, Q, rd, st, ne, D)
  <2>1. \A i \in 1 .. Len(Q) : \E j \in 1 .. Len(Q) : Alike(Q[j], Q[i])  BY DEF Alike
  <2> QED  BY <1>1, <1>2, <1>6, <2>1, ThinnerEnd
<1> HIDE DEF b, Q, c, R
<1>8. Way(L, c, R, rd, st, ne, D)
  <2>1. CASE \/ c = <<>>
             \/ c # <<>> /\ b # <<>> /\ c[1] = b[1]
             \/ c # <<>> /\ ~Counts(c[1])
    BY <1>1, <1>2, <1>3, <2>1, ThinnerEnd
  <2>2. CASE c # <<>> /\ c[1].type # "I" /\ R = <<>>
    <3>1. \A i \in 1 .. Len(<<>>) : \E j \in 1 .. Len(Q) : Alike(Q[j], <<>>[i])  BY <1>6
    <3>2. Way(L, <<>>, <<>>, rd, st, ne, D)  BY <1>6, <1>7, <3>1, ThinnerEnd
    <3> QED  BY <1>1, <2>2, <3>2, MarkJoins
  <2>3. CASE c # <<>> /\ \E j \in 1 .. Len(Q) : Alike(Q[j], c[1])
    <3>1. PICK j \in 1 .. Len(Q) : Alike(Q[j], c[1])  BY <2>3
    <3>2. Way(L, c, Q, rd, st, ne, D)  BY <1>1, <1>5, <1>7, <2>3, <3>1, FrontJoins
    <3>3. c # <<>> /\ c[1] = c[1]  BY <2>3
    <3> QED  BY <1>1, <1>3, <3>2, <3>3, ThinnerEnd
  <2>4. (\A i \in 1 .. Len(R) : FALSE) => R = <<>>
    <3>1. Len(R) \in Nat /\ (Len(R) = 0 => R = <<>>)  BY <1>1
    <3> HIDE DEF R
    <3>2. 1 \in 1 .. Len(R) \/ Len(R) = 0  BY <3>1
    <3> QED  BY <3>1, <3>2
  <2> QED  BY <2>1, <2>2, <2>3, <2>4 DEF Tame, b, Q, c, R
<1> QED  BY <1>4, <1>8 DEF Out, c, R

\* A new piece is taken and sent; the queue may have lost its tail.
LEMMA NewOut ==
  ASSUME NEW s, Typed(s), NEW t, Typed(t), NEW rd \in Nat, FewOf(t, rd + 1),
         NEW f \in IFrames, f.piece = rd + 1, f.ns = s.next_tx_frame,
         t.next_tx_frame = (s.next_tx_frame + 1) % Mod,
         t.txqueue = s.txqueue \/ t.txqueue = Append(s.txqueue, f),
         \/ t.buffer = s.buffer
         \/ t.buffer = Append(s.buffer, f),
         NEW L, NEW st, NEW ne, NEW D, Out(L, s, rd, st, ne, D)
  PROVE  Out(L, t, rd + 1, st, ne, D)
<1> DEFINE b == s.buffer  Q == s.txqueue  c == t.buffer  R == t.txqueue  P == Append(Q, f)
           nx == s.next_tx_frame
<1>1. /\ b \in Seq(Frames) /\ Q \in Seq(IFrames) /\ c \in Seq(Frames) /\ R \in Seq(IFrames)
      /\ nx \in Int /\ f \in Frames
  BY FrameKinds DEF Typed, Contents, Counters, Stores, Numbers
<1>2. /\ Way(L, b, Q, rd, st, ne, D) /\ Pieces(s, rd)  BY DEF Out
<1>3. Way(L, b, P, rd + 1, st, ne, D)  BY <1>2, QueueGrows
<1>4. /\ P \in Seq(IFrames) /\ Len(P) = Len(Q) + 1 /\ P[Len(P)] = f /\ Len(P) \in 1 .. Len(P)
      /\ \A i \in 1 .. Len(Q) : i \in 1 .. Len(P) /\ P[i] = Q[i]
      /\ \A i \in 1 .. Len(P) : P[i] = f \/ (i \in 1 .. Len(Q) /\ P[i] = Q[i])
  BY <1>1
<1>5. \A i \in 1 .. Len(R) : \E j \in 1 .. Len(P) : Alike(P[j], R[i])
  <2>1. R = Q \/ R = P  OBVIOUS
  <2> HIDE DEF P, R
  <2> QED  BY <1>4, <2>1 DEF Alike
<1>6. t.next_tx_frame = (nx + 1) % Mod /\ (R = Q \/ R = P) /\ (c = b \/ c = Append(b, f))
      /\ f.ns = nx /\ nx \in Numbers
  BY DEF Typed, Contents, Counters
<1>7. \A i \in 1 .. Len(Q) :
        Q[i].piece \in Nat /\ Q[i].piece <= rd /\ Q[i].ns = (nx + (Q[i].piece - rd - 1)) % Mod
  <2>1. \A i \in 1 .. Len(Q) : Q[i] \in IFrames  BY <1>1
  <2> QED  BY <1>2, <2>1 DEF Pieces, IFrames
<1> HIDE DEF b, Q, c, R, P, nx
<1>8. \A i \in 1 .. Len(P) :
        P[i].piece <= rd + 1 /\ P[i].ns = (t.next_tx_frame + (P[i].piece - (rd + 1) - 1)) % Mod
  <2> TAKE i \in 1 .. Len(P)
  <2> DEFINE k == P[i].piece
             z == k - (rd + 1) - 1
             y == nx + 1
  <2>1. k \in Nat /\ k <= rd + 1 /\ P[i].ns = (nx + (k - rd - 1)) % Mod
    <3>1. CASE P[i] = f
      <4>1. k = rd + 1 /\ nx + (k - rd - 1) = nx  BY <1>1, <3>1
      <4>2. nx % Mod = nx  BY <1>6, Bounds, ModSmall DEF Numbers
      <4> QED  BY <1>6, <3>1, <4>1, <4>2
    <3>2. CASE i \in 1 .. Len(Q) /\ P[i] = Q[i]
      <4>1. k \in Nat /\ k <= rd /\ P[i].ns = (nx + (k - rd - 1)) % Mod  BY <1>7, <3>2
      <4> QED  BY <4>1
    <3> QED  BY <1>4, <3>1, <3>2
  <2>2. z \in Int /\ y \in Int /\ y + z = nx + (k - rd - 1)
    <3>1. k \in Int /\ nx \in Int /\ rd \in Int  BY <1>1, <2>1
    <3> HIDE DEF k
    <3> QED  BY <3>1
  <2> HIDE DEF z, k
  <2>3. ((y % Mod) + z) % Mod = (y + z) % Mod
    <3> HIDE DEF y
    <3> QED  BY <2>2, Bounds, ModPlus
  <2>4. P[i].ns = (t.next_tx_frame + z) % Mod  BY <1>6, <2>1, <2>2, <2>3
  <2> QED  BY <2>1, <2>4 DEF k, z
<1>9. Pieces(t, rd + 1)
  <2> SUFFICES ASSUME NEW i \in 1 .. Len(R)
               PROVE  /\ R[i].piece <= rd + 1
                      /\ R[i].ns = (t.next_tx_frame + (R[i].piece - (rd + 1) - 1)) % Mod
    BY DEF Pieces, R
  <2>1. \E j \in 1 .. Len(P) : P[j] = R[i]  BY <1>4, <1>6
  <2> QED  BY <1>8, <2>1
<1>10. \A i, j \in 1 .. Len(P) : Follows(P[i], P[j])
  <2> TAKE i, j \in 1 .. Len(P)
  <2> DEFINE x == P[i]  y == P[j]  k == t.next_tx_frame
  <2>1. x \in IFrames /\ y \in IFrames /\ k \in Int
    <3>1. k \in Numbers  BY DEF Typed, Contents, Counters
    <3> QED  BY <1>4, <3>1 DEF Numbers
  <2>2. x.piece <= rd + 1 /\ x.ns = (k + (x.piece - (rd + 1) - 1)) % Mod
        /\ y.ns = (k + (y.piece - (rd + 1) - 1)) % Mod
    BY <1>8
  <2>3. (rd + 1) - y.piece + 1 < Mod
    <3>1. CASE y = f
      BY <3>1, Modulus
    <3>2. CASE j \in 1 .. Len(Q) /\ y = Q[j]
      <4>1. j \in 1 .. Len(R) /\ y = R[j]  BY <1>4, <1>6, <3>2
      <4>2. \A q \in 1 .. Len(R) : (rd + 1) - R[q].piece + 1 < Mod  BY DEF FewOf, R
      <4> QED  BY <4>1, <4>2
    <3> QED  BY <1>4, <3>1, <3>2
  <2> HIDE DEF x, y, k
  <2>4. rd + 1 \in Int  OBVIOUS
  <2>5. Follows(x, y)  BY <2>1, <2>2, <2>3, <2>4, Following
  <2> QED  BY <2>5 DEF x, y
<1>11. Way(L, c, R, rd + 1, st, ne, D)
  <2>1. CASE c = <<>> \/ (c # <<>> /\ b # <<>> /\ c[1] = b[1])
    BY <1>1, <1>3, <1>5, <2>1, ThinnerEnd
  <2>2. CASE c = Append(b, f) /\ b = <<>>
    <3>1. c # <<>> /\ c[1] = f  BY <1>1, <2>2
    <3>2. Len(P) \in 1 .. Len(P) /\ Alike(P[Len(P)], c[1])  BY <1>4, <3>1 DEF Alike
    <3>3. Way(L, c, P, rd + 1, st, ne, D)  BY <1>1, <1>3, <1>10, <2>2, <3>1, <3>2, FrontJoins
    <3>4. c # <<>> /\ c[1] = c[1]  BY <3>1
    <3> QED  BY <1>1, <1>5, <3>3, <3>4, ThinnerEnd
  <2>3. c # <<>> /\ b # <<>> => c[1] = b[1]
    BY <1>1, <1>6
  <2> QED  BY <1>1, <1>6, <2>1, <2>2, <2>3
<1> QED  BY <1>9, <1>11 DEF Out, c, R

\* An end that is in the data state was in it, and expects the same.
Hears(s, t) ==
  t.state = "DATA" => s.state = "DATA" /\ t.next_expected_frame = s.next_expected_frame

\* Nothing new is sent, behind another frame or not.
Sends(s, t) ==
  \A i \in 1 .. Len(t.buffer) : t.buffer[i].type = "I" =>
    \/ \E j \in 1 .. Len(s.buffer) : t.buffer[i] = s.buffer[j]
    \/ \E j \in 1 .. Len(s.txqueue) : Alike(s.txqueue[j], t.buffer[i])

Quiet(s, t) == Tame(s, t) /\ Hears(s, t) /\ Sends(s, t)
Heard == {"txqueue", "buffer", "next_tx_frame", "next_expected_frame", "state"}

\* The buffer stays or is emptied.
LEMMA SendsSame ==
  ASSUME NEW s, NEW t, t.buffer = s.buffer \/ t.buffer = <<>>
  PROVE  Sends(s, t)
<1>1. Len(<<>>) = 0  OBVIOUS
<1> QED  BY <1>1 DEF Sends

\* One operator after another.
LEMMA QuietTwice ==
  ASSUME NEW s, NEW t, NEW u, Quiet(s, t), Quiet(t, u)
  PROVE  Quiet(s, u)
<1>1. \A x, y, z : Alike(x, y) /\ Alike(y, z) => Alike(x, z)  BY DEF Alike
<1>2. ASSUME NEW i \in 1 .. Len(u.txqueue)
      PROVE  /\ u.next_tx_frame = s.next_tx_frame
             /\ \E j \in 1 .. Len(s.txqueue) : Alike(s.txqueue[j], u.txqueue[i])
  <2>1. PICK k \in 1 .. Len(t.txqueue) : Alike(t.txqueue[k], u.txqueue[i])
    BY DEF Quiet, Tame
  <2>2. PICK j \in 1 .. Len(s.txqueue) : Alike(s.txqueue[j], t.txqueue[k])
    BY DEF Quiet, Tame
  <2>3. u.next_tx_frame = t.next_tx_frame /\ t.next_tx_frame = s.next_tx_frame
    BY DEF Quiet, Tame
  <2> QED  BY <1>1, <2>1, <2>2, <2>3
<1>3. ASSUME u.buffer # <<>>
      PROVE  \/ s.buffer # <<>> /\ u.buffer[1] = s.buffer[1]
             \/ ~Counts(u.buffer[1])
             \/ u.buffer[1].type # "I" /\ \A i \in 1 .. Len(u.txqueue) : FALSE
             \/ \E j \in 1 .. Len(s.txqueue) : Alike(s.txqueue[j], u.buffer[1])
  <2>1. CASE t.buffer # <<>> /\ u.buffer[1] = t.buffer[1]
    <3>1. CASE \A i \in 1 .. Len(t.txqueue) : FALSE
      <4>1. \A i \in 1 .. Len(u.txqueue) : FALSE  BY <3>1 DEF Quiet, Tame
      <4> QED  BY <2>1, <4>1 DEF Quiet, Tame
    <3>2. CASE ~ \A i \in 1 .. Len(t.txqueue) : FALSE
      BY <2>1, <3>2 DEF Quiet, Tame
    <3> QED  BY <3>1, <3>2
  <2>2. CASE \E k \in 1 .. Len(t.txqueue) : Alike(t.txqueue[k], u.buffer[1])
    <3>1. PICK k \in 1 .. Len(t.txqueue) : Alike(t.txqueue[k], u.buffer[1])  BY <2>2
    <3>2. PICK j \in 1 .. Len(s.txqueue) : Alike(s.txqueue[j], t.txqueue[k])
      BY DEF Quiet, Tame
    <3> QED  BY <1>1, <3>1, <3>2
  <2> QED  BY <1>3, <2>1, <2>2 DEF Quiet, Tame
<1>4. Tame(s, u)  BY <1>2, <1>3 DEF Tame
<1>5. Hears(s, u)  BY DEF Quiet, Hears
<1>6. ASSUME NEW i \in 1 .. Len(u.buffer), u.buffer[i].type = "I"
      PROVE  \/ \E j \in 1 .. Len(s.buffer) : u.buffer[i] = s.buffer[j]
             \/ \E j \in 1 .. Len(s.txqueue) : Alike(s.txqueue[j], u.buffer[i])
  <2>1. CASE \E k \in 1 .. Len(t.buffer) : u.buffer[i] = t.buffer[k]
    BY <1>6, <2>1 DEF Quiet, Sends
  <2>2. CASE \E k \in 1 .. Len(t.txqueue) : Alike(t.txqueue[k], u.buffer[i])
    <3>1. PICK k \in 1 .. Len(t.txqueue) : Alike(t.txqueue[k], u.buffer[i])  BY <2>2
    <3>2. PICK j \in 1 .. Len(s.txqueue) : Alike(s.txqueue[j], t.txqueue[k])
      BY DEF Quiet, Tame
    <3> QED  BY <1>1, <3>1, <3>2
  <2> QED  BY <1>6, <2>1, <2>2 DEF Quiet, Sends
<1>7. Sends(s, u)  BY <1>6 DEF Sends
<1> QED  BY <1>4, <1>5, <1>7 DEF Quiet

\* The fields in Heard are all that matters.
LEMMA QuietSame ==
  ASSUME NEW s, NEW t, \A x \in Heard : t[x] = s[x]
  PROVE  Quiet(s, t)
<1>1. /\ t.txqueue = s.txqueue /\ t.buffer = s.buffer /\ t.next_tx_frame = s.next_tx_frame
      /\ t.next_expected_frame = s.next_expected_frame /\ t.state = s.state
  BY DEF Heard
<1>2. \A x : Alike(x, x)  BY DEF Alike
<1> QED  BY <1>1, <1>2, SendsSame DEF Quiet, Tame, Hears

\* Timers do not matter for the stream.
LEMMA QuietTimers ==
  ASSUME NEW s, NEW t, SameBut(Timing, s, t)
  PROVE  Quiet(s, t)
<1>1. \A x \in Heard : t[x] = s[x]  BY DEF SameBut, Timing, All, Heard
<1> QED  BY <1>1, QuietSame

\* One timer after another.
LEMMA QuietChain ==
  ASSUME NEW s, NEW t, Whole(t), Quiet(s, t)
  PROVE  /\ Whole(StopT401(t)) /\ Quiet(s, StopT401(t))
         /\ Whole(StopT403(t)) /\ Quiet(s, StopT403(t))
         /\ Quiet(s, StartT403(t)) /\ \A c : Quiet(s, StartT401(t, c))
<1>1. Whole(StopT401(t)) /\ Whole(StopT403(t))
  BY DEF StopT401, StopT403, Whole, All
<1>2. Quiet(t, StopT401(t)) /\ Quiet(t, StopT403(t)) /\ Quiet(t, StartT403(t))
  BY TimersOnly, QuietTimers
<1>3. \A c : Quiet(t, StartT401(t, c))  BY TimersOnly, QuietTimers
<1> QED  BY <1>1, <1>2, <1>3, QuietTwice

\* A frame is sent that brings no new piece.
LEMMA QuietTxFrame ==
  ASSUME NEW s, Whole(s), NEW f,
         s.buffer \in Seq(Frames),
         \/ ~Counts(f)
         \/ f.type # "I" /\ \A i \in 1 .. Len(s.txqueue) : FALSE
         \/ \E j \in 1 .. Len(s.txqueue) : Alike(s.txqueue[j], f)
  PROVE  Quiet(s, TxFrame(s, f))
<1> DEFINE t == TxFrame(s, f)
           b == Append(s.buffer, f)
<1>1. t = s \/ (SameBut({"buffer"}, s, t) /\ t.buffer = b)
  <2>1. t \in {s, [s EXCEPT !.buffer = b]}  BY DEF TxFrame
  <2> HIDE DEF b, t
  <2>2. t = [s EXCEPT !.buffer = b] => SameBut({"buffer"}, s, t) /\ t.buffer = b
    BY DEF SameBut, Whole, All
  <2> QED  BY <2>1, <2>2
<1>2. b[1] = IF s.buffer = <<>> THEN f ELSE s.buffer[1]  OBVIOUS
<1> HIDE DEF b, t
<1>3. CASE t = s  BY <1>3, QuietSame DEF t
<1>4. CASE SameBut({"buffer"}, s, t) /\ t.buffer = b
  <2>1. /\ t.txqueue = s.txqueue /\ t.next_tx_frame = s.next_tx_frame
        /\ t.next_expected_frame = s.next_expected_frame /\ t.state = s.state
    BY <1>4 DEF SameBut, All
  <2>2. \A x : Alike(x, x)  BY DEF Alike
  <2>3. Tame(s, t)  BY <1>2, <1>4, <2>1, <2>2 DEF Tame
  <2>4. Sends(s, t)
    <3>1. ASSUME NEW i \in 1 .. Len(t.buffer), t.buffer[i].type = "I"
          PROVE  \/ \E j \in 1 .. Len(s.buffer) : t.buffer[i] = s.buffer[j]
                 \/ \E j \in 1 .. Len(s.txqueue) : Alike(s.txqueue[j], t.buffer[i])
      <4>1. /\ Len(s.buffer) \in Nat /\ i \in 1 .. Len(s.buffer) + 1
            /\ t.buffer[i] = IF i = Len(s.buffer) + 1 THEN f ELSE s.buffer[i]
        BY <1>4, <3>1 DEF b
      <4>2. CASE i = Len(s.buffer) + 1  BY <3>1, <4>1, <4>2 DEF Counts
      <4>3. CASE i # Len(s.buffer) + 1
        <5>1. i \in 1 .. Len(s.buffer)  BY <4>1, <4>3
        <5> QED  BY <4>1, <4>3, <5>1
      <4> QED  BY <4>2, <4>3
    <3> QED  BY <3>1 DEF Sends
  <2> QED  BY <2>1, <2>3, <2>4 DEF Quiet, Hears, t
<1> QED  BY <1>1, <1>3, <1>4

\* RR and REJ.
LEMMA QuietRr ==
  ASSUME NEW s, Typed(s), NEW pf \in BOOLEAN
  PROVE  Quiet(s, Rr(s, pf)) /\ Quiet(s, Reject(s))
<1> DEFINE t == [s EXCEPT !.last_frame_we_acknowledged = s.next_expected_frame]
           f == SFrame("RR", s, pf)
           e == SFrame("REJ", s, TRUE)
<1>1. ~Counts(f) /\ ~Counts(e)  BY DEF SFrame, Counts, Marks
<1>2. /\ Whole(t) /\ t.buffer = s.buffer /\ \A x \in Heard : t[x] = s[x]
      /\ s.buffer \in Seq(Frames) /\ Whole(s)
  BY DEF Typed, Contents, Stores, Whole, All, Heard
<1>3. Rr(s, pf) = TxFrame(t, f) /\ Reject(s) = TxFrame(s, e)  BY DEF Rr, Reject
<1> HIDE DEF t, f, e
<1>4. Quiet(s, t)  BY <1>2, QuietSame
<1>5. Quiet(t, TxFrame(t, f)) /\ Quiet(s, TxFrame(s, e))  BY <1>1, <1>2, QuietTxFrame
<1> QED  BY <1>3, <1>4, <1>5, QuietTwice

\* s: what has become of an end a since, whose transmitter is as a has left it or
\* begins with a frame that is not an I frame, and sends nothing new.
LEMMA QuietReset ==
  ASSUME NEW a, NEW s, Whole(s), Sends(a, s),
         s.buffer # <<>> => \/ a.buffer # <<>> /\ s.buffer[1] = a.buffer[1]
                            \/ s.buffer[1].type # "I"
  PROVE  Quiet(a, Reset(s))
<1> DEFINE b == StopT403(StopT401(s))
           t == Reset(s)
<1>1. Whole(StopT401(s)) /\ Whole(b)
  <2>1. Whole(StopT401(s))  BY DEF StopT401, Whole, All
  <2> QED  BY <2>1 DEF StopT403, Whole, All
<1>2. SameBut(Timing, s, b)
  <2>1. SameBut(Timing, s, StopT401(s)) /\ SameBut(Timing, StopT401(s), b)
    BY <1>1, TimersOnly
  <2> HIDE DEF b
  <2> QED  BY <2>1 DEF SameBut
<1>3. t = [b EXCEPT
     !.next_tx_frame = 0, !.last_frame_peer_acknowledged = 0,
     !.next_expected_frame = 0, !.last_frame_we_acknowledged = 0,
     !.solicit_f_bit = FALSE, !.state = "RELEASE", !.retransmissions = 0,
     !.txqueue = <<>>, !.tx_last = IF @ = "null" THEN @ ELSE "freed"]  BY DEF Reset
<1> HIDE DEF b, t
<1>4. t.txqueue = <<>> /\ t.buffer = b.buffer /\ t.state = "RELEASE"
  BY <1>1, <1>3 DEF Whole, All
<1>5. b.buffer = s.buffer  BY <1>2 DEF SameBut, Timing, All
<1>6. \A i \in 1 .. Len(t.txqueue) : FALSE
  <2>1. Len(<<>>) = 0  OBVIOUS
  <2> QED  BY <1>4, <2>1
<1>7. Sends(a, t)  BY <1>4, <1>5 DEF Sends
<1> QED  BY <1>4, <1>5, <1>6, <1>7 DEF Quiet, Tame, Hears, t

\* Nothing is kept: SABME may be sent.
Bare(s) == \A i \in 1 .. Len(s.txqueue) : FALSE

\* SABME is sent again, or no more.
LEMMA QuietSendSabme ==
  ASSUME NEW s, Whole(s), s.buffer \in Seq(Frames), Bare(s)
  PROVE  Quiet(s, SendSabme(s)) /\ (s.state # "DATA" => SendSabme(s).state # "DATA")
<1> DEFINE t == StopT401(s)
           r == [t EXCEPT !.retransmissions = @ + 1]
           u == StartT401(r, "sabme")
           w == [r EXCEPT !.state = "RELEASE"]
           f == UFrame("SABME")
<1>1. Whole(t) /\ SameBut(Timing, s, t)
  <2>1. Whole(t)  BY DEF StopT401, Whole, All
  <2> QED  BY <2>1, TimersOnly
<1> HIDE DEF t
<1>2. Whole(r) /\ \A x \in Heard : r[x] = s[x]
  <2>1. Whole(r) /\ \A x \in Heard : r[x] = t[x]  BY <1>1 DEF Whole, All, Heard
  <2>2. \A x \in Heard : t[x] = s[x]  BY <1>1 DEF SameBut, Timing, All, Heard
  <2> QED  BY <2>1, <2>2
<1> HIDE DEF r
<1>3. Whole(u) /\ \A x \in Heard : u[x] = s[x]
  <2>1. Whole(u) /\ SameBut(Timing, r, u)
    <3>1. Whole(u)  BY <1>2 DEF StartT401, Whole, All
    <3> QED  BY <1>2, <3>1, TimersOnly
  <2>2. \A x \in Heard : u[x] = r[x]  BY <2>1 DEF SameBut, Timing, All, Heard
  <2> QED  BY <1>2, <2>1, <2>2
<1>4. Quiet(s, w)
  <2>1. w.state = "RELEASE" /\ \A x \in Heard \ {"state"} : w[x] = r[x]
    BY <1>2 DEF Whole, All, Heard
  <2> HIDE DEF w
  <2>2. w.txqueue = s.txqueue /\ w.buffer = s.buffer  BY <1>2, <2>1 DEF Heard
  <2> QED  BY <2>1, <2>2, SendsSame DEF Quiet, Tame, Hears, Bare
<1>5. f.type = "SABME"  BY DEF UFrame
<1> HIDE DEF u, f
<1>6. Quiet(s, TxFrame(u, f))
  <2>1. u.txqueue = s.txqueue /\ u.buffer = s.buffer  BY <1>3 DEF Heard
  <2>2. Quiet(u, TxFrame(u, f))  BY <1>3, <1>5, <2>1, QuietTxFrame DEF Bare
  <2>3. Quiet(s, u)  BY <1>3, QuietSame
  <2> QED  BY <2>2, <2>3, QuietTwice
<1>7. SendSabme(s) \in {w, TxFrame(u, f)}  BY DEF SendSabme, w, u, r, t, f
<1>8. Quiet(s, SendSabme(s))  BY <1>4, <1>6, <1>7
<1> QED  BY <1>8 DEF Quiet, Hears

\* The link is set up anew.
LEMMA QuietRestart ==
  ASSUME NEW s, Whole(s), Contents(s)
  PROVE  Quiet(s, Restart(s)) /\ Restart(s).state # "DATA"
<1> DEFINE a == [s EXCEPT !.buffer = <<>>, !.crc = FALSE, !.t401 = 0, !.t403 = 0]
           b == Reset(a)
<1>1. /\ Whole(a) /\ a.buffer = <<>> /\ a.crc = FALSE /\ a.t401 = 0
      /\ \A x \in All \ {"buffer", "crc", "t401", "t403"} : a[x] = s[x]
  BY DEF Whole, All
<1> HIDE DEF a
<1>2. Contents(a)
  <2>1. Counters(a)  BY <1>1 DEF Contents, Counters, All
  <2>2. Stores(a)  BY <1>1, Bounds DEF Contents, Stores, All
  <2>3. Modes(a)  BY <1>1 DEF Contents, Modes, All
  <2> QED  BY <2>1, <2>2, <2>3 DEF Contents
<1>3. Typed(b) /\ Quiet(s, b)  BY <1>1, <1>2, SendsSame, TypedReset, QuietReset
<1>4. b.state = "RELEASE" /\ b.txqueue = <<>>
  <2> DEFINE c == StopT403(StopT401(a))
  <2>1. Whole(c)  BY <1>1, <1>2, FormedStops
  <2>2. b = [c EXCEPT
     !.next_tx_frame = 0, !.last_frame_peer_acknowledged = 0,
     !.next_expected_frame = 0, !.last_frame_we_acknowledged = 0,
     !.solicit_f_bit = FALSE, !.state = "RELEASE", !.retransmissions = 0,
     !.txqueue = <<>>, !.tx_last = IF @ = "null" THEN @ ELSE "freed"]  BY DEF Reset
  <2> HIDE DEF b, c
  <2> QED  BY <2>1, <2>2 DEF Whole, All
<1> HIDE DEF b
<1>5. Bare(b)
  <2>1. Len(<<>>) = 0  OBVIOUS
  <2> QED  BY <1>4, <2>1 DEF Bare
<1>6. Quiet(b, SendSabme(b)) /\ SendSabme(b).state # "DATA"
  BY <1>3, <1>4, <1>5, QuietSendSabme DEF Typed, Contents, Stores
<1> QED  BY <1>3, <1>6, QuietTwice DEF Restart, a, b

\* v42_restart.
LEMMA QuietV42Restart ==
  ASSUME NEW s, Typed(s)
  PROVE  Quiet(s, V42Restart(s))
<1> DEFINE z == [s EXCEPT !.sched = [i \in 1 .. Slots |-> "none"]]
           r == Restart(z)
           i == FreeSlot(r)
           d == [r EXCEPT !.odp_seen = FALSE, !.txadps = 0,
                          !.sched[i] = "t400", !.t400 = i, !.state = "DETECT"]
           e == [r EXCEPT !.state = "ESTABLISH"]
<1>1. Typed(z)  BY DEF Typed, Whole, Contents, Counters, Stores, Modes, Tried, All
<1>2. Quiet(s, z)
  <2>1. \A x \in Heard : z[x] = s[x]  BY DEF Typed, Whole, All, Heard
  <2> QED  BY <2>1, QuietSame
<1>3. Typed(r) /\ Quiet(s, r) /\ r.state # "DATA"
  <2> HIDE DEF z
  <2> QED  BY <1>1, <1>2, TypedRestart, QuietRestart, QuietTwice DEF Typed
<1> HIDE DEF r, i, z
<1>4. Quiet(s, d) /\ Quiet(s, e)
  <2>1. /\ \A x \in Heard \ {"state"} : d[x] = r[x] /\ e[x] = r[x]
        /\ d.state = "DETECT" /\ e.state = "ESTABLISH"
    BY <1>3 DEF Typed, Whole, All, Heard
  <2> HIDE DEF d, e
  <2>2. /\ d.txqueue = r.txqueue /\ d.buffer = r.buffer /\ d.next_tx_frame = r.next_tx_frame
        /\ e.txqueue = r.txqueue /\ e.buffer = r.buffer /\ e.next_tx_frame = r.next_tx_frame
    BY <2>1 DEF Heard
  <2>3. \A x : Alike(x, x)  BY DEF Alike
  <2>4. Quiet(r, d) /\ Quiet(r, e)  BY <2>1, <2>2, <2>3, SendsSame DEF Quiet, Tame, Hears
  <2> QED  BY <1>3, <2>4, QuietTwice
<1> QED  BY <1>4 DEF V42Restart, r, i, z

\* Frames are acknowledged.
LEMMA QuietAckRx ==
  ASSUME NEW s, Typed(s), NEW ack
  PROVE  Quiet(s, AckRx(s, ack))
<1> DEFINE n == Len(s.txqueue)
           kept == {i \in 1 .. n : ~Acked(s, i, ack)}
           left == Picked(s.txqueue, kept)
           freed == n \notin kept
           none == kept = 1 .. n
           r == [s EXCEPT !.txqueue = left,
                          !.tx_last = IF freed /\ @ = "tail" THEN "freed" ELSE @,
                          !.retransmissions = IF none THEN @ ELSE 0,
                          !.last_frame_peer_acknowledged = ack]
<1>1. s.txqueue \in Seq(IFrames) /\ n \in Nat  BY DEF Typed, Contents, Stores
<1>2. /\ Whole(r) /\ r.txqueue = left /\ r.next_tx_frame = s.next_tx_frame
      /\ r.next_expected_frame = s.next_expected_frame /\ r.buffer = s.buffer
      /\ r.state = s.state
  <2> HIDE DEF left, freed, none
  <2> QED  BY DEF Typed, Whole, All
<1>3. \A i \in 1 .. Len(left) : \E j \in 1 .. n : left[i] = s.txqueue[j]
  <2>1. kept \in SUBSET (1 .. n)  OBVIOUS
  <2> HIDE DEF kept
  <2>2. PICK g \in [1 .. Len(left) -> kept] : \A i \in 1 .. Len(left) : left[i] = s.txqueue[g[i]]
    BY SMTT(30), <1>1, <2>1, PickedFacts
  <2> HIDE DEF left
  <2>3. \A i \in 1 .. Len(left) : g[i] \in 1 .. n  BY <2>1, <2>2
  <2> QED  BY <2>2, <2>3
<1>4. AckRx(s, ack) \in {s, StartT403(StopT403(StopT401(r))),
                         StartT401(StopT403(r), "t401"), StopT403(r)}
  BY DEF AckRx
<1> HIDE DEF left, freed, none, r, kept
<1>5. \A x : Alike(x, x)  BY DEF Alike
<1>6. Quiet(s, r)  BY <1>2, <1>3, <1>5, SendsSame DEF Quiet, Tame, Hears
<1>7. Quiet(s, StartT403(StopT403(StopT401(r))))
  <2>1. Whole(StopT401(r)) /\ Quiet(s, StopT401(r))  BY <1>2, <1>6, QuietChain
  <2>2. Whole(StopT403(StopT401(r))) /\ Quiet(s, StopT403(StopT401(r)))  BY <2>1, QuietChain
  <2> QED  BY <2>2, QuietChain
<1>8. Quiet(s, StopT403(r)) /\ Quiet(s, StartT401(StopT403(r), "t401"))
  <2>1. Whole(StopT403(r)) /\ Quiet(s, StopT403(r))  BY <1>2, <1>6, QuietChain
  <2> QED  BY <2>1, QuietChain
<1>9. Quiet(s, s)  BY QuietSame
<1> QED  BY <1>4, <1>7, <1>8, <1>9

\* REJ is answered.
LEMMA QuietRetransmit ==
  ASSUME NEW s, Typed(s), NEW nr
  PROVE  Quiet(s, Retransmit(s, nr))
<1>1. CASE \E i \in DOMAIN s.txqueue : s.txqueue[i].ns = nr
  <2>1. PICK q \in Seq(IFrames), b \in Seq(Frames) : ResentAs(s, nr, q, b)
    BY <1>1, Resent DEF Typed
  <2> DEFINE t == [s EXCEPT !.txqueue = q, !.buffer = b]
  <2>2. /\ t.txqueue = q /\ t.buffer = b /\ t.state = s.state
        /\ t.next_tx_frame = s.next_tx_frame /\ t.next_expected_frame = s.next_expected_frame
    BY DEF Typed, Whole, All
  <2> HIDE DEF t
  <2>3. s.txqueue \in Seq(IFrames) /\ Len(q) = Len(s.txqueue)  BY <2>1 DEF Typed, Contents, Stores, ResentAs
  <2>4. ASSUME NEW i \in 1 .. Len(q) PROVE Alike(s.txqueue[i], q[i])
    <3>1. q[i] \in IFrames /\ s.txqueue[i] \in IFrames  BY <2>3
    <3>2. q[i].type = "I" /\ s.txqueue[i].type = "I"  BY <3>1 DEF IFrames
    <3>3. q[i].ns = s.txqueue[i].ns /\ q[i].piece = s.txqueue[i].piece  BY <2>1 DEF ResentAs
    <3> QED  BY <3>2, <3>3 DEF Alike
  <2>5. ASSUME b # <<>>
        PROVE  \/ s.buffer # <<>> /\ b[1] = s.buffer[1]
               \/ \E j \in 1 .. Len(s.txqueue) : Alike(s.txqueue[j], b[1])
    <3>1. CASE s.buffer # <<>>  BY <2>1, <3>1 DEF ResentAs
    <3>2. CASE s.buffer = <<>>
      <4>1. PICK i \in 1 .. Len(q) : b[1] = q[i]  BY <2>1, <2>5, <3>2 DEF ResentAs
      <4> QED  BY <2>3, <2>4, <4>1
    <3> QED  BY <3>1, <3>2
  <2>6. Tame(s, t)  BY <2>2, <2>3, <2>4, <2>5 DEF Tame
  <2>7. Sends(s, t)
    <3>1. ASSUME NEW i \in 1 .. Len(b), b[i].type = "I"
          PROVE  \/ \E j \in 1 .. Len(s.buffer) : b[i] = s.buffer[j]
                 \/ \E j \in 1 .. Len(s.txqueue) : Alike(s.txqueue[j], b[i])
      <4>1. CASE \E j \in 1 .. Len(q) : b[i] = q[j]  BY <2>3, <2>4, <4>1
      <4> QED  BY <2>1, <4>1 DEF ResentAs
    <3> QED  BY <2>2, <3>1 DEF Sends
  <2> QED  BY <2>1, <2>2, <2>6, <2>7 DEF Quiet, Hears, t, ResentAs
<1>2. CASE ~ \E i \in DOMAIN s.txqueue : s.txqueue[i].ns = nr
  <2> DEFINE a == [s EXCEPT !.last_frame_peer_acknowledged = nr, !.next_tx_frame = nr]
  <2>1. /\ Retransmit(s, nr) \in {s, StartT403(StopT403(StopT401(a)))}
        /\ s.txqueue # <<>> => Retransmit(s, nr) = s
    BY <1>2 DEF Retransmit
  <2>2. Quiet(s, s)  BY QuietSame
  <2>3. ASSUME s.txqueue = <<>> PROVE Quiet(s, StartT403(StopT403(StopT401(a))))
    <3>1. /\ Whole(a)
          /\ \A x \in All \ {"last_frame_peer_acknowledged", "next_tx_frame"} : a[x] = s[x]
      BY DEF Typed, Whole, All
    <3> HIDE DEF a
    <3>2. /\ a.txqueue = <<>> /\ a.buffer = s.buffer /\ a.state = s.state
          /\ a.next_expected_frame = s.next_expected_frame
      BY <2>3, <3>1 DEF All
    <3>3. \A i \in 1 .. Len(a.txqueue) : FALSE
      <4>1. Len(<<>>) = 0  OBVIOUS
      <4> QED  BY <3>2, <4>1
    <3>4. Quiet(s, a)  BY <3>2, <3>3, SendsSame DEF Quiet, Tame, Hears
    <3>5. Whole(StopT401(a)) /\ Quiet(s, StopT401(a))  BY <3>1, <3>4, QuietChain
    <3>6. Whole(StopT403(StopT401(a))) /\ Quiet(s, StopT403(StopT401(a)))  BY <3>5, QuietChain
    <3> QED  BY <3>6, QuietChain
  <2> QED  BY <2>1, <2>2, <2>3
<1> QED  BY <1>1, <1>2

\* T401 has expired.
LEMMA QuietT401Expired ==
  ASSUME NEW s, Typed(s), s.retransmissions <= N_400
  PROVE  Quiet(s, T401Expired(s))
<1> DEFINE f == [Head(s.txqueue) EXCEPT !.nr = s.next_expected_frame, !.pf = TRUE]
           q == [s.txqueue EXCEPT ![1] = f]
           r == [s EXCEPT !.txqueue[1] = f, !.solicit_f_bit = TRUE, !.retransmissions = @ + 1,
                          !.last_frame_we_acknowledged = s.next_expected_frame]
           t == TxFrame(r, f)
<1>0. Quiet(s, s)  BY QuietSame
<1>1. SUFFICES ASSUME s.txqueue # <<>> PROVE Quiet(s, T401Expired(s))
  BY <1>0 DEF T401Expired
<1>2. s.txqueue \in Seq(IFrames) /\ s.retransmissions \in 0 .. N_400
      /\ s.next_expected_frame \in Numbers
  BY Bounds DEF Typed, Contents, Counters, Stores
<1>3. f \in IFrames /\ Alike(s.txqueue[1], f)
  <2> DEFINE h == Head(s.txqueue)
  <2>1. h \in IFrames /\ h = s.txqueue[1] /\ TRUE \in BOOLEAN  BY <1>1, <1>2
  <2> HIDE DEF h
  <2>2. LET e == [h EXCEPT !.nr = s.next_expected_frame, !.pf = TRUE] IN
        e \in IFrames /\ e.ns = h.ns /\ e.piece = h.piece
    BY ZenonT(90), <1>2, <2>1, Renumbered
  <2>3. f \in IFrames /\ f.ns = h.ns /\ f.piece = h.piece  BY <2>2 DEF h
  <2> HIDE DEF f
  <2>4. f.type = "I" /\ h.type = "I"  BY <2>1, <2>3 DEF IFrames
  <2> QED  BY <2>1, <2>3, <2>4 DEF Alike
<1> HIDE DEF f
<1>4. /\ q \in Seq(IFrames) /\ q # <<>> /\ Len(q) = Len(s.txqueue) /\ Len(q) \in Nat
      /\ 1 \in 1 .. Len(q)
      /\ \A i \in 1 .. Len(q) : q[i] = IF i = 1 THEN f ELSE s.txqueue[i]
  BY <1>1, <1>2, <1>3
<1> HIDE DEF q
<1>5. /\ Whole(r) /\ r.txqueue = q /\ r.solicit_f_bit = TRUE
      /\ r.retransmissions = s.retransmissions + 1
      /\ r.last_frame_we_acknowledged = s.next_expected_frame
      /\ \A x \in All \ {"txqueue", "solicit_f_bit", "retransmissions", "last_frame_we_acknowledged"} :
           r[x] = s[x]
  BY DEF Typed, Whole, All, q
<1>6. T401Expired(s) = IF r.retransmissions <= N_400 THEN StartT401(t, "t401")
                       ELSE Restart(Reset(r))
  BY <1>1 DEF T401Expired, f
<1> HIDE DEF r
<1>7. Contents(r)
  <2>1. Counters(r)  BY <1>2, <1>5, Bounds DEF Typed, Contents, Counters, All
  <2>2. Stores(r) /\ Modes(r)  BY <1>4, <1>5 DEF Typed, Contents, Stores, Modes, All
  <2> QED  BY <2>1, <2>2 DEF Contents
<1>8. Quiet(s, r)
  <2>1. /\ r.buffer = s.buffer /\ r.next_tx_frame = s.next_tx_frame /\ r.state = s.state
        /\ r.next_expected_frame = s.next_expected_frame
    BY <1>5 DEF All
  <2>2. \A x : Alike(x, x)  BY DEF Alike
  <2>3. \A i \in 1 .. Len(q) : Alike(s.txqueue[i], q[i])  BY <1>3, <1>4, <2>2
  <2> QED  BY <1>4, <1>5, <2>1, <2>2, <2>3, SendsSame DEF Quiet, Tame, Hears
<1>9. Quiet(s, StartT401(t, "t401"))
  <2>1. Alike(r.txqueue[1], f) /\ 1 \in 1 .. Len(r.txqueue)  BY <1>4, <1>5 DEF Alike
  <2>2. Quiet(r, t)  BY <1>5, <1>7, <2>1, QuietTxFrame DEF Contents, Stores
  <2>3. Whole(t)
    <3>1. t \in {r, [r EXCEPT !.buffer = Append(r.buffer, f)]}  BY DEF TxFrame
    <3> HIDE DEF t
    <3> QED  BY <1>5, <3>1 DEF Whole, All
  <2> HIDE DEF t
  <2>4. Quiet(s, t)  BY <1>8, <2>2, QuietTwice
  <2> QED  BY <2>3, <2>4, QuietChain
<1>10. Quiet(s, Restart(Reset(r)))
  <2>1. Typed(Reset(r)) /\ Quiet(r, Reset(r))
    BY <1>5, <1>7, SendsSame, TypedReset, QuietReset
  <2>2. Quiet(Reset(r), Restart(Reset(r)))  BY <2>1, QuietRestart DEF Typed
  <2> QED  BY <1>8, <2>1, <2>2, QuietTwice
<1> QED  BY <1>6, <1>9, <1>10

\* T403 has expired.
LEMMA QuietT403Expired ==
  ASSUME NEW s, Typed(s)
  PROVE  Quiet(s, T403Expired(s))
<1> DEFINE a == [s EXCEPT !.retransmissions = 0, !.solicit_f_bit = TRUE]
           b == Rr(a, TRUE)
<1>1. /\ Whole(a) /\ a.retransmissions = 0 /\ a.solicit_f_bit = TRUE
      /\ \A x \in All \ {"retransmissions", "solicit_f_bit"} : a[x] = s[x]
  BY DEF Typed, Whole, All
<1> HIDE DEF a
<1>2. Typed(a)
  <2>1. Counters(a) /\ Tried(a)  BY <1>1, Bounds DEF Typed, Contents, Counters, Tried, All
  <2>2. Stores(a) /\ Modes(a)  BY <1>1 DEF Typed, Contents, Stores, Modes, All
  <2> QED  BY <1>1, <2>1, <2>2 DEF Typed, Contents
<1>3. Quiet(s, a)
  <2>1. \A x \in Heard : a[x] = s[x]  BY <1>1 DEF Heard, All
  <2> QED  BY <2>1, QuietSame
<1>4. Typed(b) /\ Quiet(s, b)
  <2>1. Quiet(a, b)  BY <1>2, QuietRr
  <2> QED  BY <1>2, <1>3, <2>1, TypedRr, QuietTwice
<1> HIDE DEF b
<1>5. Quiet(s, StartT401(b, "t401"))  BY <1>4, QuietChain DEF Typed
<1> QED  BY <1>5 DEF T403Expired, a, b

\* The fields in Heard are all that matters.
LEMMA OutSame ==
  ASSUME NEW s, NEW t, \A x \in Heard : t[x] = s[x],
         NEW L, NEW rd, NEW st, NEW ne, NEW D, Out(L, s, rd, st, ne, D)
  PROVE  Out(L, t, rd, st, ne, D)
<1>1. t.txqueue = s.txqueue /\ t.buffer = s.buffer /\ t.next_tx_frame = s.next_tx_frame
  BY DEF Heard
<1> QED  BY <1>1 DEF Out, Pieces

\* What lapm_tx_iframe makes of an end, but for the timers.
LEMMA TxIframeFields ==
  ASSUME NEW s, Typed(s), NEW n \in Nat
  PROVE  LET f == IFrame(s, n)
             u == TxIframe(s, n)
         IN /\ f \in IFrames /\ f.ns = s.next_tx_frame /\ f.piece = n
            /\ u.next_tx_frame = (s.next_tx_frame + 1) % Mod
            /\ u.txqueue = s.txqueue \/ u.txqueue = Append(s.txqueue, f)
            /\ u.buffer = s.buffer \/ u.buffer = Append(s.buffer, f)
            /\ u.state = s.state /\ u.next_expected_frame = s.next_expected_frame
<1> DEFINE f == IFrame(s, n)
           Q == IF s.tx_last = "freed" THEN s.txqueue ELSE Append(s.txqueue, f)
           l == IF s.tx_last = "freed" THEN "freed" ELSE "tail"
           k == (s.next_tx_frame + 1) % Mod
           q == [s EXCEPT !.next_tx_frame = k,
                          !.last_frame_we_acknowledged = s.next_expected_frame,
                          !.txqueue = Q, !.tx_last = l]
           b == Append(q.buffer, f)
           x == IF s.retransmissions = 0 THEN TxFrame(q, f) ELSE q
           t == StopT403(x)
           u == TxIframe(s, n)
<1>1. f \in IFrames /\ f.ns = s.next_tx_frame /\ f.piece = n
  BY DEF Typed, Contents, Counters, IFrame, IFrames
<1>2. u = IF t.t401 = 0 THEN StartT401(t, "t401") ELSE t
  <2>1. [s EXCEPT !.next_tx_frame = (@ + 1) % Mod,
                  !.last_frame_we_acknowledged = s.next_expected_frame,
                  !.txqueue = IF s.tx_last = "freed" THEN @ ELSE Append(@, f),
                  !.tx_last = IF @ = "freed" THEN @ ELSE "tail"] = q
    <3> HIDE DEF f
    <3> QED  BY DEF Typed, Whole, All
  <2> HIDE DEF q
  <2> QED  BY <2>1 DEF TxIframe
<1>3. Q \in {s.txqueue, Append(s.txqueue, f)}  OBVIOUS
<1> HIDE DEF f, Q, l, k, u
<1>4. /\ Whole(q) /\ q.next_tx_frame = k /\ q.txqueue = Q /\ q.buffer = s.buffer
      /\ q.state = s.state /\ q.next_expected_frame = s.next_expected_frame
  BY DEF Typed, Whole, All
<1> HIDE DEF q
<1>5. x \in {q, [q EXCEPT !.buffer = b]}  BY DEF TxFrame
<1> HIDE DEF x, b
<1>6. /\ Whole(x) /\ x.next_tx_frame = k /\ x.txqueue = Q /\ x.buffer \in {s.buffer, b}
      /\ x.state = s.state /\ x.next_expected_frame = s.next_expected_frame
  BY <1>4, <1>5 DEF Whole, All
<1>7. Whole(t) /\ SameBut(Timing, x, t)
  <2>1. Whole(t)  BY <1>6 DEF StopT403, Whole, All
  <2> QED  BY <1>6, <2>1, TimersOnly
<1> HIDE DEF t
<1>8. SameBut(Timing, t, StartT401(t, "t401"))  BY <1>7, TimersOnly
<1>9. \A y \in Heard : u[y] = x[y]
  <2>1. \A y \in Heard : y \in All \ Timing  BY DEF Heard, All, Timing
  <2> QED  BY <1>2, <1>7, <1>8, <2>1 DEF SameBut
<1>10. /\ u.txqueue = Q /\ u.next_tx_frame = k /\ u.buffer \in {s.buffer, b}
       /\ u.state = s.state /\ u.next_expected_frame = s.next_expected_frame
  BY <1>6, <1>9 DEF Heard
<1>11. b = Append(s.buffer, f)  BY <1>4 DEF b
<1> QED  BY <1>1, <1>3, <1>10, <1>11 DEF k, f, u

\* A new piece is sent.
LEMMA TxIframeOut ==
  ASSUME NEW s, Typed(s), s.state = "DATA", NEW rd \in Nat,
         FewOf(TxIframe(s, rd + 1), rd + 1),
         NEW L, NEW st, NEW ne, NEW D, Out(L, s, rd, st, ne, D)
  PROVE  Out(L, TxIframe(s, rd + 1), rd + 1, st, ne, D)
<1> DEFINE f == IFrame(s, rd + 1)
           u == TxIframe(s, rd + 1)
<1>1. rd + 1 \in Nat  OBVIOUS
<1>2. /\ f \in IFrames /\ f.ns = s.next_tx_frame /\ f.piece = rd + 1
      /\ u.next_tx_frame = (s.next_tx_frame + 1) % Mod
      /\ u.txqueue = s.txqueue \/ u.txqueue = Append(s.txqueue, f)
      /\ u.buffer = s.buffer \/ u.buffer = Append(s.buffer, f)
  BY <1>1, TxIframeFields
<1>3. Typed(u)  BY <1>1, TypedTxIframe
<1>4. FewOf(u, rd + 1)  OBVIOUS
<1> HIDE DEF f, u
<1>5. Out(L, u, rd + 1, st, ne, D)  BY <1>2, <1>3, <1>4, NewOut
<1> QED  BY <1>5 DEF u

\* No frame on its way, first or merged with another, holds a piece that has not
\* been taken yet: b is the buffer of the transmitter, L the line.
NoNewer(b, rd) == \A i \in 1 .. Len(b) : b[i].type = "I" => b[i].piece <= rd
Recent(L, b, rd) == NoNewer(b, rd) /\ \A k \in 1 .. Len(L) : NoNewer(L[k], rd)

\* Nothing new is sent.
LEMMA RecentQuiet ==
  ASSUME NEW s, s.txqueue \in Seq(IFrames), NEW t, Sends(s, t), NEW rd, Pieces(s, rd),
         NEW L, Recent(L, s.buffer, rd)
  PROVE  Recent(L, t.buffer, rd)
<1>1. ASSUME NEW i \in 1 .. Len(t.buffer), t.buffer[i].type = "I" PROVE t.buffer[i].piece <= rd
  <2>1. CASE \E j \in 1 .. Len(s.buffer) : t.buffer[i] = s.buffer[j]
    BY <1>1, <2>1 DEF Recent, NoNewer
  <2>2. CASE \E j \in 1 .. Len(s.txqueue) : Alike(s.txqueue[j], t.buffer[i])
    <3>1. PICK j \in 1 .. Len(s.txqueue) : Alike(s.txqueue[j], t.buffer[i])  BY <2>2
    <3>2. t.buffer[i].piece = s.txqueue[j].piece  BY <1>1, <3>1 DEF Alike
    <3> QED  BY <3>1, <3>2 DEF Pieces
  <2> QED  BY <1>1, <2>1, <2>2 DEF Sends
<1> QED  BY <1>1 DEF Recent, NoNewer

\* The first frames on the line are taken from it.
LEMMA RecentTail ==
  ASSUME NEW L \in Lines, L # <<>>, NEW b, NEW rd, Recent(L, b, rd)
  PROVE  Recent(Tail(L), b, rd)
<1>1. /\ Len(L) \in Nat /\ Len(Tail(L)) = Len(L) - 1
      /\ \A k \in 1 .. Len(Tail(L)) : Tail(L)[k] = L[k + 1]
  BY DEF Lines
<1>2. \A k \in 1 .. Len(Tail(L)) : k + 1 \in 1 .. Len(L)  BY <1>1
<1> QED  BY <1>1, <1>2 DEF Recent

\* Frames are put on the line, and c is what is left in the buffer.
LEMMA RecentSent ==
  ASSUME NEW L \in Lines, NEW b, NEW rd, Recent(L, b, rd), NEW g, NoNewer(g, rd),
         NEW c, c = b \/ c = <<>>
  PROVE  Recent(Append(L, g), c, rd)
<1>1. /\ Len(L) \in Nat /\ Len(Append(L, g)) = Len(L) + 1
      /\ \A k \in 1 .. Len(L) + 1 : Append(L, g)[k] = IF k = Len(L) + 1 THEN g ELSE L[k]
  BY DEF Lines
<1>2. \A k \in 1 .. Len(L) + 1 : k = Len(L) + 1 \/ k \in 1 .. Len(L)  BY <1>1
<1>3. NoNewer(c, rd)
  <2>1. Len(<<>>) = 0  OBVIOUS
  <2> QED  BY <2>1 DEF Recent, NoNewer
<1> QED  BY <1>1, <1>2, <1>3 DEF Recent

\* The next piece is sent, or is not since the transmitter refuses it.
LEMMA RecentNew ==
  ASSUME NEW rd \in Nat, NEW b \in Seq(Frames), NEW L \in Lines, Recent(L, b, rd),
         NEW f, f.piece = rd + 1, NEW c, c = b \/ c = Append(b, f)
  PROVE  Recent(L, c, rd + 1)
<1>1. \A g \in Seq(Frames) : NoNewer(g, rd) => NoNewer(g, rd + 1)
  <2> SUFFICES ASSUME NEW g \in Seq(Frames), NoNewer(g, rd), NEW i \in 1 .. Len(g),
                      g[i].type = "I"
               PROVE  g[i].piece <= rd + 1
    BY DEF NoNewer
  <2>1. g[i] \in Frames /\ g[i].piece <= rd  BY DEF NoNewer
  <2>2. g[i].piece \in Nat  BY <2>1, IFields
  <2> QED  BY <2>1, <2>2
<1>2. NoNewer(b, rd + 1)  BY <1>1 DEF Recent
<1>3. NoNewer(c, rd + 1)
  <2>1. CASE c = Append(b, f)
    <3>1. /\ Len(b) \in Nat /\ Len(c) = Len(b) + 1
          /\ \A i \in 1 .. Len(b) + 1 : c[i] = IF i = Len(b) + 1 THEN f ELSE b[i]
      BY <2>1
    <3>2. \A i \in 1 .. Len(b) + 1 : i = Len(b) + 1 \/ i \in 1 .. Len(b)  BY <3>1
    <3> QED  BY <1>2, <3>1, <3>2 DEF NoNewer
  <2> QED  BY <1>2, <2>1
<1>4. \A k \in 1 .. Len(L) : NoNewer(L[k], rd + 1)
  <2>1. \A k \in 1 .. Len(L) : L[k] \in Seq(Frames)  BY DEF Lines
  <2> QED  BY <1>1, <2>1 DEF Recent
<1> QED  BY <1>3, <1>4 DEF Recent

\* The link comes up at an end a, from what s was when the frame arrived.
LEMMA LinkUpOut ==
  ASSUME NEW s, Typed(s), NEW a, Typed(a), NEW rd \in Nat, NEW more \in BOOLEAN,
         Sends(s, a),
         a.buffer # <<>> => \/ s.buffer # <<>> /\ a.buffer[1] = s.buffer[1]
                            \/ a.buffer[1].type # "I",
         FewOf(s, rd),
         FewOf(LinkUp(a, more, rd + 1), IF more THEN rd + 1 ELSE rd),
         NEW L, NEW st, NEW ne, NEW D, Out(L, s, rd, st, ne, D), Recent(L, s.buffer, rd)
  PROVE  /\ Out(L, LinkUp(a, more, rd + 1), IF more THEN rd + 1 ELSE rd, st, ne, D)
         /\ Recent(L, LinkUp(a, more, rd + 1).buffer, IF more THEN rd + 1 ELSE rd)
<1> DEFINE b == Reset(a)
           r == [b EXCEPT !.state = "DATA"]
           t == IF more THEN TxIframe(r, rd + 1) ELSE r
           v == StopT401(t)
           u == StartT403(v)
           k == IF more THEN rd + 1 ELSE rd
<1>1. Typed(b) /\ b.retransmissions = 0 /\ Quiet(s, b)
  BY TypedReset, QuietReset DEF Typed
<1> HIDE DEF b
<1>2. Out(L, b, rd, st, ne, D) /\ Recent(L, b.buffer, rd) /\ L \in Lines
  <2>1. Out(L, b, rd, st, ne, D)  BY <1>1, TameOut DEF Quiet
  <2>2. Sends(s, b) /\ Pieces(s, rd)  BY <1>1 DEF Quiet, Out
  <2>3. s.txqueue \in Seq(IFrames)  BY DEF Typed, Contents, Stores
  <2> QED  BY <2>1, <2>2, <2>3, RecentQuiet DEF Out, Way
<1>3. /\ Typed(r) /\ r.state = "DATA" /\ Out(L, r, rd, st, ne, D)
      /\ Recent(L, r.buffer, rd)
  <2>1. Whole(r) /\ r.state = "DATA" /\ \A x \in All \ {"state"} : r[x] = b[x]
    BY <1>1 DEF Typed, Whole, All
  <2> HIDE DEF r
  <2>2. Typed(r)
    <3>1. Tried(r)  BY <1>1, <2>1, Bounds DEF Tried, All
    <3>2. Counters(r)  BY <1>1, <2>1 DEF Typed, Contents, Counters, All
    <3>3. Stores(r)  BY <1>1, <2>1 DEF Typed, Contents, Stores, All
    <3>4. Modes(r)  BY <1>1, <2>1 DEF Typed, Contents, Modes, All, States
    <3> QED  BY <2>1, <3>1, <3>2, <3>3, <3>4 DEF Typed, Contents
  <2>3. r.txqueue = b.txqueue /\ r.buffer = b.buffer /\ r.next_tx_frame = b.next_tx_frame
    BY <2>1 DEF All
  <2> QED  BY <1>2, <2>1, <2>2, <2>3 DEF Out, Pieces
<1> HIDE DEF r
<1>4. Typed(t)  BY <1>3, TypedTxIframe
<1> HIDE DEF t
<1>5. Whole(v) /\ SameBut(Timing, t, v) /\ SameBut(Timing, v, u)
  <2>1. Whole(v)  BY <1>4 DEF Typed, StopT401, Whole, All
  <2> QED  BY <1>4, <2>1, TimersOnly DEF Typed
<1>6. \A y \in Heard : u[y] = t[y]
  <2>1. \A y \in Heard : y \in All \ Timing  BY DEF Heard, All, Timing
  <2> HIDE DEF u, v
  <2> QED  BY <1>5, <2>1 DEF SameBut
<1>7. LinkUp(a, more, rd + 1) = u  BY DEF LinkUp, u, v, t, r, b
<1> HIDE DEF u, v
<1>8. FewOf(t, k)
  <2>1. t.txqueue = u.txqueue  BY <1>6 DEF Heard
  <2>2. FewOf(u, k)  BY <1>7
  <2> QED  BY <2>1, <2>2 DEF FewOf
<1>9. Out(L, t, k, st, ne, D)
  <2>1. CASE more
    <3>1. t = TxIframe(r, rd + 1) /\ k = rd + 1  BY <2>1 DEF t
    <3>2. FewOf(TxIframe(r, rd + 1), rd + 1)  BY <1>8, <3>1
    <3>3. Out(L, TxIframe(r, rd + 1), rd + 1, st, ne, D)  BY <1>3, <3>2, TxIframeOut
    <3> QED  BY <3>1, <3>3
  <2>2. CASE ~more  BY <1>3, <2>2 DEF t
  <2> QED  BY <2>1, <2>2
<1>10. Out(L, u, k, st, ne, D)  BY <1>6, <1>9, OutSame
<1>11. Recent(L, t.buffer, k)
  <2>1. CASE more
    <3> DEFINE f == IFrame(r, rd + 1)
    <3>1. t = TxIframe(r, rd + 1) /\ k = rd + 1 /\ rd + 1 \in Nat  BY <2>1 DEF t
    <3>2. f.piece = rd + 1 /\ (t.buffer = r.buffer \/ t.buffer = Append(r.buffer, f))
      BY <1>3, <3>1, TxIframeFields
    <3>3. r.buffer \in Seq(Frames)  BY <1>3 DEF Typed, Contents, Stores
    <3> HIDE DEF f
    <3> QED  BY <1>2, <1>3, <3>1, <3>2, <3>3, RecentNew
  <2>2. CASE ~more  BY <1>3, <2>2 DEF t
  <2> QED  BY <2>1, <2>2
<1>12. u.buffer = t.buffer  BY <1>6 DEF Heard
<1> QED  BY <1>7, <1>10, <1>11, <1>12

-----------------------------------------------------------------------------
(* The other end.                                                            *)

\* An end that is not in the data state now, or was and expects the same.
LEMMA HeardWay ==
  ASSUME NEW s, NEW t, Hears(s, t), NEW L, NEW b, NEW Q, NEW rd, NEW D,
         Way(L, b, Q, rd, s.state, s.next_expected_frame, D)
  PROVE  Way(L, b, Q, rd, t.state, t.next_expected_frame, D)
<1>1. Unseen(L, b, Q, t.state, t.next_expected_frame, D)  BY DEF Way, Unseen, Hears
<1> QED  BY <1>1 DEF Way

\* The frame that is expected arrives: it brings a new piece, and no later frame
\* brings an old one under the number that is expected next.
LEMMA NextWay ==
  ASSUME NEW L, NEW b, NEW Q, NEW rd, NEW ne, NEW D, Way(L, b, Q, rd, "DATA", ne, D),
         L # <<>>, L[1][1].type = "I", L[1][1].ns = ne
  PROVE  LET n == L[1][1].piece IN
         n \in Nat /\ n > D /\ n <= rd /\ Way(Tail(L), b, Q, rd, "DATA", (ne + 1) % Mod, n)
<1> DEFINE x == L[1][1]
           n == x.piece
           M == Tail(L)
           e == (ne + 1) % Mod
<1>1. /\ Way(M, b, Q, rd, "DATA", ne, D) /\ x \in Frames /\ Coming(L, b, Q, 1, x)
      /\ \A k \in Nat, y \in Frames : Coming(M, b, Q, k, y) =>
           k + 1 \in Nat /\ 1 < k + 1 /\ Coming(L, b, Q, k + 1, y)
  BY ThinnerTail
<1>2. x.type = "I" /\ x.ns = ne  OBVIOUS
<1> HIDE DEF x, M
<1>3. n \in Nat /\ x.ns \in Numbers  BY <1>1, <1>2, IFields
<1>4. D \in Nat /\ rd \in Nat  BY DEF Way
<1>5. n <= rd /\ n > D
  <2>1. n <= rd  BY <1>1, <1>2 DEF Way, Known
  <2>2. n <= D => x.ns # ne  BY <1>1, <1>2 DEF Way, Unseen
  <2> QED  BY <1>2, <1>3, <1>4, <2>1, <2>2
<1>6. Unseen(M, b, Q, "DATA", e, n)
  <2> SUFFICES ASSUME NEW k \in Nat, NEW y \in Frames, Coming(M, b, Q, k, y), y.type = "I",
                      y.piece <= n
               PROVE  y.ns # e
    BY DEF Unseen
  <2>1. k + 1 \in Nat /\ 1 < k + 1 /\ Coming(L, b, Q, k + 1, y)  BY <1>1
  <2>2. Follows(x, y)  BY <1>1, <1>2, <2>1 DEF Way, InOrder
  <2> QED  BY <1>2, <2>2 DEF Follows
<1>7. Fenced(M, b, Q, n)
  <2> SUFFICES ASSUME NEW k \in Nat, NEW l \in Nat, NEW u \in Frames, NEW y \in Frames,
                      Coming(M, b, Q, k, u), u.type \in Marks,
                      Coming(M, b, Q, l, y), y.type = "I", k < l
               PROVE  y.piece > n
    BY DEF Fenced
  <2>1. /\ k + 1 \in Nat /\ 1 < k + 1 /\ Coming(L, b, Q, k + 1, u)
        /\ l + 1 \in Nat /\ Coming(L, b, Q, l + 1, y)
    BY <1>1
  <2>2. k + 1 < l + 1  OBVIOUS
  <2> QED  BY <1>1, <1>2, <2>1, <2>2 DEF Way, Parted
<1>8. Way(M, b, Q, rd, "DATA", e, n)
  BY <1>1, <1>3, <1>4, <1>5, <1>6, <1>7 DEF Way
<1> QED  BY <1>3, <1>5, <1>8 DEF x, M

\* A frame that sets up the link arrives: whatever the end expects now, it has
\* seen nothing of what follows.
LEMMA MarkWay ==
  ASSUME NEW L, NEW b, NEW Q, NEW rd, NEW st, NEW ne, NEW D, Way(L, b, Q, rd, st, ne, D),
         L # <<>>, L[1][1].type \in Marks, NEW st2, NEW ne2
  PROVE  Way(Tail(L), b, Q, rd, st2, ne2, D)
<1> DEFINE x == L[1][1]
           M == Tail(L)
<1>1. /\ Way(M, b, Q, rd, st, ne, D) /\ x \in Frames /\ Coming(L, b, Q, 1, x)
      /\ \A k \in Nat, y \in Frames : Coming(M, b, Q, k, y) =>
           k + 1 \in Nat /\ 1 < k + 1 /\ Coming(L, b, Q, k + 1, y)
  BY ThinnerTail
<1>2. x.type \in Marks  OBVIOUS
<1> HIDE DEF x, M
<1>3. Unseen(M, b, Q, st2, ne2, D)
  <2> SUFFICES ASSUME NEW k \in Nat, NEW y \in Frames, Coming(M, b, Q, k, y), y.type = "I",
                      y.piece <= D
               PROVE  FALSE
    BY DEF Unseen
  <2>1. k + 1 \in Nat /\ 1 < k + 1 /\ Coming(L, b, Q, k + 1, y)  BY <1>1
  <2>2. y.piece > D  BY <1>1, <1>2, <2>1 DEF Way, Fenced
  <2>3. y.piece \in Nat /\ D \in Nat  BY IFields DEF Way
  <2> QED  BY <2>2, <2>3
<1>4. Way(M, b, Q, rd, st2, ne2, D)  BY <1>1, <1>3 DEF Way
<1> QED  BY <1>4 DEF M

\* What p has sent and keeps is as the other end needs it.
Feeds(p) ==
  LET q == Other(p) IN
  /\ Out(line[q], end[p], read[p], end[q].state, end[q].next_expected_frame, delivered[q])
  /\ Recent(line[q], end[p].buffer, read[p])
StreamInv == \A p \in Peer : Feeds(p)

\* No piece is kept for so long that its number is used again (window_size_k is
\* not enforced, v42.c:424).
Few == \A p \in Peer : FewOf(end[p], read[p])

\* Other makes send no I frame and set up no link.
OwnData == \A f \in Foreign : ~Counts(f)

\* One end acts.
LEMMA StreamStep ==
  ASSUME StreamInv, EndsTyped, NEW p \in Peer, NEW t, end' = [end EXCEPT ![p] = t],
         Out(line'[Other(p)], t, read'[p], end[Other(p)].state,
             end[Other(p)].next_expected_frame, delivered'[Other(p)]),
         Way(line'[p], end[Other(p)].buffer, end[Other(p)].txqueue, read[Other(p)],
             t.state, t.next_expected_frame, delivered'[p]),
         Recent(line'[Other(p)], t.buffer, read'[p]),
         Recent(line'[p], end[Other(p)].buffer, read[Other(p)]),
         read'[Other(p)] = read[Other(p)]
  PROVE  StreamInv'
<1> DEFINE o == Other(p)
<1>1. /\ o \in Peer /\ Other(o) = p /\ o # p /\ \A q \in Peer : q = p \/ q = o
  BY Others
<1>2. end'[p] = t /\ end'[o] = end[o]  BY <1>1 DEF EndsTyped
<1>3. Pieces(end[o], read[o])  BY <1>1 DEF StreamInv, Feeds, Out
<1>4. Feeds(p)'  BY <1>1, <1>2 DEF Feeds
<1>5. Feeds(o)'  BY <1>1, <1>2, <1>3 DEF Feeds, Out
<1> QED  BY <1>1, <1>4, <1>5 DEF StreamInv

\* What the invariant says of the two directions at p.
LEMMA Directions ==
  ASSUME StreamInv, NEW p \in Peer
  PROVE  /\ Out(line[Other(p)], end[p], read[p], end[Other(p)].state,
                end[Other(p)].next_expected_frame, delivered[Other(p)])
         /\ Way(line[p], end[Other(p)].buffer, end[Other(p)].txqueue, read[Other(p)],
                end[p].state, end[p].next_expected_frame, delivered[p])
         /\ Recent(line[Other(p)], end[p].buffer, read[p])
         /\ Recent(line[p], end[Other(p)].buffer, read[Other(p)])
<1>1. Other(p) \in Peer /\ Other(Other(p)) = p  BY Others
<1> QED  BY <1>1 DEF StreamInv, Feeds, Out

\* The line of an end loses its front frame, the other one stays.
LEMMA LineOf ==
  ASSUME LinesTyped, NEW p \in Peer, line[p] # <<>>, line' = [line EXCEPT ![p] = Tail(@)]
  PROVE  line'[p] = Tail(line[p]) /\ line'[Other(p)] = line[Other(p)]
BY Others DEF LinesTyped

\* An end acts and sends no new piece and sets up no link.
LEMMA QuietStep ==
  ASSUME StreamInv, Few, TypeInv, TypeInv', NEW p \in Peer, NEW t, Quiet(end[p], t),
         end' = [end EXCEPT ![p] = t],
         line' = line \/ (line[p] # <<>> /\ line' = [line EXCEPT ![p] = Tail(@)]),
         read' = read, delivered' = delivered
  PROVE  StreamInv'
<1> DEFINE o == Other(p)
<1>1. o \in Peer /\ EndsTyped /\ LinesTyped /\ Typed(end[p])  BY Others DEF TypeInv, EndsTyped
<1>2. Typed(t)
  <2>1. end'[p] = t  BY <1>1 DEF EndsTyped
  <2> QED  BY <2>1 DEF TypeInv, EndsTyped
<1>3. /\ Out(line[o], end[p], read[p], end[o].state, end[o].next_expected_frame, delivered[o])
      /\ Way(line[p], end[o].buffer, end[o].txqueue, read[o],
             end[p].state, end[p].next_expected_frame, delivered[p])
  BY Directions
<1>4. line'[o] = line[o]  BY <1>1, LineOf
<1>5. Out(line'[o], t, read'[p], end[o].state, end[o].next_expected_frame, delivered'[o])
  BY <1>1, <1>2, <1>3, <1>4, TameOut DEF Quiet, Few
<1>6. Way(line'[p], end[o].buffer, end[o].txqueue, read[o],
          end[p].state, end[p].next_expected_frame, delivered[p])
  <2>1. CASE line' = line  BY <1>3, <2>1
  <2>2. CASE line[p] # <<>> /\ line' = [line EXCEPT ![p] = Tail(@)]
    BY <1>1, <1>3, <2>2, LineOf, ThinnerTail
  <2> QED  BY <2>1, <2>2
<1>7. Way(line'[p], end[o].buffer, end[o].txqueue, read[o],
          t.state, t.next_expected_frame, delivered'[p])
  BY <1>6, HeardWay DEF Quiet
<1>8. Recent(line[o], end[p].buffer, read[p]) /\ Recent(line[p], end[o].buffer, read[o])
  BY Directions
<1>9. Recent(line'[o], t.buffer, read'[p])
  <2>1. Sends(end[p], t) /\ Pieces(end[p], read[p])  BY <1>3 DEF Quiet, Out
  <2>2. end[p].txqueue \in Seq(IFrames)  BY <1>1 DEF Typed, Contents, Stores
  <2> QED  BY <1>4, <1>8, <2>1, <2>2, RecentQuiet
<1>10. Recent(line'[p], end[o].buffer, read[o])
  <2>1. line[p] \in Lines  BY <1>3 DEF Way
  <2>2. CASE line[p] # <<>> /\ line' = [line EXCEPT ![p] = Tail(@)]
    BY <1>1, <1>8, <2>1, <2>2, LineOf, RecentTail
  <2> QED  BY <1>8, <2>2
<1> QED  BY <1>1, <1>5, <1>7, <1>9, <1>10, StreamStep

\* Only the counts of the applications change.
LEMMA RestStep ==
  ASSUME StreamInv, end' = end, line' = line, read' = read, delivered' = delivered
  PROVE  StreamInv'
BY DEF StreamInv, Feeds

\* The applications.
LEMMA ApplicationStream ==
  ASSUME StreamInv, Few, TypeInv, TypeInv', NEW p \in Peer, Application(p)
  PROVE  StreamInv'
<1>1. Typed(end[p])  BY DEF TypeInv, EndsTyped
<1>2. line' = line /\ read' = read /\ delivered' = delivered
  BY DEF Application, Write, Release, StartAgain
<1>3. CASE Write(p)  BY <1>2, <1>3, RestStep DEF Write
<1>4. CASE Release(p)
  <2> DEFINE t == [end[p] EXCEPT !.state = "RELEASE"]
  <2>1. end' = [end EXCEPT ![p] = t]  BY <1>4 DEF Release
  <2>2. t.state = "RELEASE" /\ \A x \in Heard \ {"state"} : t[x] = end[p][x]
    BY <1>1 DEF Typed, Whole, All, Heard
  <2> HIDE DEF t
  <2>3. Quiet(end[p], t)
    <3>1. /\ t.txqueue = end[p].txqueue /\ t.buffer = end[p].buffer
          /\ t.next_tx_frame = end[p].next_tx_frame
      BY <2>2 DEF Heard
    <3>2. \A i \in 1 .. Len(t.txqueue) : Alike(t.txqueue[i], t.txqueue[i])  BY DEF Alike
    <3>3. Tame(end[p], t)  BY <3>1, <3>2 DEF Tame
    <3>4. Hears(end[p], t)  BY <2>2 DEF Hears
    <3> QED  BY <3>1, <3>3, <3>4, SendsSame DEF Quiet
  <2> QED  BY <1>2, <2>1, <2>3, QuietStep
<1>5. CASE StartAgain(p)
  <2>1. end' = [end EXCEPT ![p] = V42Restart(end[p])]  BY <1>5 DEF StartAgain
  <2> QED  BY <1>1, <1>2, <2>1, QuietV42Restart, QuietStep
<1> QED  BY <1>3, <1>4, <1>5 DEF Application

\* The state changes, but not to the data state.
LEMMA QuietState ==
  ASSUME NEW s, NEW t, \A x \in Heard \ {"state"} : t[x] = s[x], t.state # "DATA"
  PROVE  Quiet(s, t)
<1>1. /\ t.txqueue = s.txqueue /\ t.buffer = s.buffer /\ t.next_tx_frame = s.next_tx_frame
  BY DEF Heard
<1>2. \A i \in 1 .. Len(t.txqueue) : Alike(t.txqueue[i], t.txqueue[i])  BY DEF Alike
<1>3. Tame(s, t)  BY <1>1, <1>2 DEF Tame
<1> QED  BY <1>1, <1>3, SendsSame DEF Quiet, Hears

\* The detection of V.42.
LEMMA DetectionStream ==
  ASSUME StreamInv, Few, TypeInv, TypeInv', SeeOdp \/ SendAdp \/ SeeAdp
  PROVE  StreamInv'
<1>1. Answerer \in Peer /\ Caller \in Peer /\ Typed(end[Answerer]) /\ Typed(end[Caller])
  BY DEF Peer, TypeInv, EndsTyped
<1>2. line' = line /\ read' = read /\ delivered' = delivered  BY DEF SeeOdp, SendAdp, SeeAdp
<1>3. CASE SeeOdp
  <2> DEFINE t == [end[Answerer] EXCEPT !.odp_seen = TRUE]
  <2>1. end' = [end EXCEPT ![Answerer] = t]  BY <1>3 DEF SeeOdp
  <2>2. \A x \in Heard : t[x] = end[Answerer][x]  BY <1>1 DEF Typed, Whole, All, Heard
  <2> HIDE DEF t
  <2>3. Quiet(end[Answerer], t)  BY <2>2, QuietSame
  <2> QED  BY <1>1, <1>2, <2>1, <2>3, QuietStep
<1>4. CASE SendAdp
  <2> DEFINE s == end[Answerer]
             r == StopT400(s)
             u == [r EXCEPT !.txadps = Adps, !.state = "ESTABLISH"]
             v == [s EXCEPT !.txadps = @ + 1]
             t == IF s.txadps + 1 = Adps THEN u ELSE v
  <2>1. end' = [end EXCEPT ![Answerer] = t]  BY <1>4 DEF SendAdp
  <2>2. Typed(r) /\ SameBut(Timing, s, r)  BY <1>1, TypedStops, TimersOnly DEF Typed
  <2>3. Quiet(s, v)
    <3>1. \A x \in Heard : v[x] = s[x]  BY <1>1 DEF Typed, Whole, All, Heard
    <3> HIDE DEF v
    <3> QED  BY <3>1, QuietSame
  <2> HIDE DEF r
  <2>4. Quiet(s, u)
    <3>1. u.state = "ESTABLISH" /\ \A x \in Heard \ {"state"} : u[x] = r[x]
      BY <2>2 DEF Typed, Whole, All, Heard
    <3>2. \A x \in Heard : r[x] = s[x]  BY <2>2 DEF SameBut, Timing, All, Heard
    <3> HIDE DEF u, s
    <3> QED  BY <3>1, <3>2, QuietState
  <2>5. Quiet(s, t)  BY <2>3, <2>4
  <2> HIDE DEF t
  <2> QED  BY <1>1, <1>2, <2>1, <2>5, QuietStep
<1>5. CASE SeeAdp
  <2> DEFINE s == end[Caller]
             r == StopT400(s)
             t == [r EXCEPT !.state = "ESTABLISH"]
  <2>1. end' = [end EXCEPT ![Caller] = t]  BY <1>5 DEF SeeAdp
  <2>2. Typed(r) /\ SameBut(Timing, s, r)  BY <1>1, TypedStops, TimersOnly DEF Typed
  <2> HIDE DEF r
  <2>3. t.state = "ESTABLISH" /\ \A x \in Heard \ {"state"} : t[x] = r[x]
    BY <2>2 DEF Typed, Whole, All, Heard
  <2>4. \A x \in Heard : r[x] = s[x]  BY <2>2 DEF SameBut, Timing, All, Heard
  <2> HIDE DEF t
  <2>5. Quiet(s, t)
    <3> HIDE DEF s
    <3> QED  BY <2>3, <2>4, QuietState
  <2> QED  BY <1>1, <1>2, <2>1, <2>5, QuietStep
<1> QED  BY <1>3, <1>4, <1>5

\* The HDLC transmitter.
LEMMA TransmitStream ==
  ASSUME StreamInv, Few, Few', TypeInv, TypeInv', NEW p \in Peer, Transmit(p)
  PROVE  StreamInv'
<1> DEFINE o == Other(p)
<1>1. /\ o \in Peer /\ o # p /\ Typed(end[p]) /\ EndsTyped /\ LinesTyped /\ CountsTyped
  BY Others DEF TypeInv, EndsTyped
<1>2. CASE BeginCrc(p)
  <2> DEFINE t == [end[p] EXCEPT !.crc = TRUE]
  <2>1. end' = [end EXCEPT ![p] = t] /\ line' = line /\ read' = read /\ delivered' = delivered
    BY <1>2 DEF BeginCrc
  <2>2. \A x \in Heard : t[x] = end[p][x]  BY <1>1 DEF Typed, Whole, All, Heard
  <2> HIDE DEF t
  <2>3. Quiet(end[p], t)  BY <2>2, QuietSame
  <2> QED  BY <2>1, <2>3, QuietStep
<1>3. CASE EndFrame(p)
  <2> DEFINE b == end[p].buffer
             s == [end[p] EXCEPT !.buffer = <<>>, !.crc = FALSE]
             more == s.state = "DATA" /\ Pending(p)
             rd == read[p]
             t == IF more THEN TxIframe(s, rd + 1) ELSE s
             st == end[o].state
             ne == end[o].next_expected_frame
             D == delivered[o]
             L == Append(line[o], b)
  <2>1. /\ end' = [end EXCEPT ![p] = t] /\ Take(p, more) /\ delivered' = delivered
        /\ line' = [line EXCEPT ![o] = L] /\ b # <<>>
    BY <1>1, <1>3 DEF EndFrame, LinesTyped, Typed, Contents, Stores
  <2>2. line'[o] = L /\ line'[p] = line[p]  BY <1>1, <2>1 DEF LinesTyped
  <2>3. /\ rd \in Nat /\ read'[p] = IF more THEN rd + 1 ELSE rd
        /\ read'[o] = read[o]
    BY <1>1, <2>1 DEF Take, CountsTyped
  <2>4. Typed(s)  BY <1>1, EmptiedTyped
  <2>5. /\ s.buffer = <<>> /\ s.txqueue = end[p].txqueue /\ s.state = end[p].state
        /\ s.next_tx_frame = end[p].next_tx_frame
        /\ s.next_expected_frame = end[p].next_expected_frame
    BY <1>1 DEF Typed, Whole, All
  <2>6. /\ Out(line[o], end[p], rd, st, ne, D)
        /\ Way(line[p], end[o].buffer, end[o].txqueue, read[o],
               end[p].state, end[p].next_expected_frame, delivered[p])
    BY Directions
  <2> HIDE DEF s
  <2>7. Out(L, s, rd, st, ne, D)
    <3>1. Way(L, <<>>, end[p].txqueue, rd, st, ne, D)
      BY <2>1, <2>6, ThinnerSent DEF Out
    <3> QED  BY <2>5, <2>6, <3>1 DEF Out, Pieces
  <2>8. FewOf(t, read'[p])
    <3>1. end'[p] = t  BY <1>1, <2>1 DEF EndsTyped
    <3> QED  BY <3>1 DEF Few
  <2>9. Out(L, t, read'[p], st, ne, D)
    <3>1. CASE more
      <4>1. FewOf(TxIframe(s, rd + 1), rd + 1)  BY <2>3, <2>8, <3>1
      <4>2. Out(L, TxIframe(s, rd + 1), rd + 1, st, ne, D)
        <5> HIDE DEF L, st, ne, D, rd
        <5> QED  BY <2>3, <2>4, <2>7, <3>1, <4>1, TxIframeOut
      <4> QED  BY <2>3, <3>1, <4>2
    <3>2. CASE ~more  BY <2>3, <2>7, <3>2
    <3> QED  BY <3>1, <3>2
  <2>10. t.state = end[p].state /\ t.next_expected_frame = end[p].next_expected_frame
    <3>1. rd + 1 \in Nat  BY <2>3
    <3> HIDE DEF rd
    <3> QED  BY <2>4, <2>5, <3>1, TxIframeFields
  <2>11. Recent(L, t.buffer, read'[p]) /\ Recent(line[p], end[o].buffer, read[o])
    <3>1. Recent(line[o], b, rd) /\ Recent(line[p], end[o].buffer, read[o])  BY Directions
    <3>2. line[o] \in Lines  BY <2>6 DEF Out, Way
    <3>3. Recent(L, <<>>, rd) /\ L \in Lines
      <4>1. NoNewer(b, rd)  BY <3>1 DEF Recent
      <4>2. L \in Lines  BY <2>7 DEF Out, Way
      <4> HIDE DEF b, rd
      <4> QED  BY <3>1, <3>2, <4>1, <4>2, RecentSent
    <3>4. CASE more
      <4> DEFINE f == IFrame(s, rd + 1)
      <4>1. t = TxIframe(s, rd + 1) /\ read'[p] = rd + 1 /\ rd + 1 \in Nat  BY <2>3, <3>4
      <4>2. f.piece = rd + 1 /\ (t.buffer = s.buffer \/ t.buffer = Append(s.buffer, f))
        <5> HIDE DEF rd
        <5> QED  BY <2>4, <4>1, TxIframeFields
      <4>3. <<>> \in Seq(Frames)  OBVIOUS
      <4> HIDE DEF f, t, L, rd
      <4> QED  BY <2>3, <2>5, <3>1, <3>3, <4>1, <4>2, <4>3, RecentNew
    <3>5. CASE ~more  BY <2>3, <2>5, <3>1, <3>3, <3>5
    <3> QED  BY <3>4, <3>5
  <2> HIDE DEF t, L, more
  <2> QED  BY <1>1, <2>1, <2>2, <2>3, <2>6, <2>9, <2>10, <2>11, StreamStep
<1> QED  BY <1>2, <1>3 DEF Transmit

\* The line.
LEMMA LineStream ==
  ASSUME OwnData, StreamInv, Few, TypeInv, TypeInv', NEW p \in Peer, Corrupt(p) \/ Inject(p)
  PROVE  StreamInv'
<1> DEFINE o == Other(p)
           s == end[p]
<1>1. o \in Peer /\ o # p /\ EndsTyped /\ LinesTyped  BY Others DEF TypeInv
<1>2. /\ end' = [end EXCEPT ![p] = s] /\ read' = read /\ delivered' = delivered
  BY <1>1 DEF Corrupt, Inject, EndsTyped
<1>3. CASE Corrupt(p)
  <2>1. Quiet(s, s)  BY QuietSame
  <2> QED  BY <1>2, <1>3, <2>1, QuietStep DEF Corrupt
<1>4. CASE Inject(p)
  <2>1. PICK f \in Foreign : line' = [line EXCEPT ![p] = Append(@, <<f>>)]  BY <1>4 DEF Inject
  <2>2. line'[p] = Append(line[p], <<f>>) /\ line'[o] = line[o]  BY <1>1, <2>1 DEF LinesTyped
  <2>3. f \in Frames /\ ~Counts(f)  BY Bounds DEF OwnData
  <2>4. /\ Out(line[o], s, read[p], end[o].state, end[o].next_expected_frame, delivered[o])
        /\ Way(line[p], end[o].buffer, end[o].txqueue, read[o],
               s.state, s.next_expected_frame, delivered[p])
    BY Directions
  <2>5. Way(Append(line[p], <<f>>), end[o].buffer, end[o].txqueue, read[o],
            s.state, s.next_expected_frame, delivered[p])
    BY <2>3, <2>4, ThinnerStray
  <2>6. /\ Recent(line[o], s.buffer, read[p])
        /\ Recent(Append(line[p], <<f>>), end[o].buffer, read[o])
    <3>1. Recent(line[o], s.buffer, read[p]) /\ Recent(line[p], end[o].buffer, read[o])
      BY Directions
    <3>2. line[p] \in Lines  BY <2>4 DEF Way
    <3>3. NoNewer(<<f>>, read[o])  BY <2>3 DEF NoNewer, Counts
    <3> QED  BY <3>1, <3>2, <3>3, RecentSent
  <2> QED  BY <1>1, <1>2, <2>2, <2>4, <2>5, <2>6, StreamStep
<1> QED  BY <1>3, <1>4

\* What arrives at p.
LEMMA ArrivesFront ==
  ASSUME LinesTyped, NEW p \in Peer, NEW k, Arrives(p, k)
  PROVE  /\ line[p] # <<>> /\ line' = [line EXCEPT ![p] = Tail(@)]
         /\ Frame(p) = line[p][1][1] /\ Frame(p).type = k /\ Frame(p) \in Frames
<1>1. line[p] # <<>> /\ line' = [line EXCEPT ![p] = Tail(@)]  BY DEF Arrives
<1>2. line[p] \in Seq(Seq(Frames) \ {<<>>})  BY DEF LinesTyped
<1>3. Head(line[p]) = line[p][1]  BY <1>1, <1>2
<1>4. Frame(p) = line[p][1][1]  BY <1>3 DEF Frame
<1>5. Frame(p).type = k /\ Frame(p) \in Frames  BY ArrivesTyped
<1> QED  BY <1>1, <1>4, <1>5

\* UA goes into a transmitter.
LEMMA UaSent ==
  ASSUME NEW s, Typed(s)
  PROVE  LET u == TxFrame(s, UFrame("UA")) IN
         /\ Typed(u) /\ Sends(s, u)
         /\ u.buffer # <<>> => \/ s.buffer # <<>> /\ u.buffer[1] = s.buffer[1]
                               \/ u.buffer[1].type # "I"
<1> DEFINE g == UFrame("UA")
<1>1. g \in Frames /\ g.type = "UA"  BY DEF UFrame, Frames
<1> HIDE DEF g
<1> DEFINE u == TxFrame(s, g)
<1>2. Typed(u)  BY <1>1, TypedTxFrame
<1>3. u.buffer = s.buffer \/ u.buffer = Append(s.buffer, g)
  <2>1. s.buffer = s.buffer  OBVIOUS
  <2>2. [s EXCEPT !.buffer = Append(@, g)].buffer = Append(s.buffer, g)
    BY DEF Typed, Whole, All
  <2> QED  BY <2>2 DEF TxFrame, u
<1> HIDE DEF u
<1>4. s.buffer \in Seq(Frames)  BY DEF Typed, Contents, Stores
<1>5. ASSUME u.buffer # <<>>
      PROVE  (s.buffer # <<>> /\ u.buffer[1] = s.buffer[1]) \/ u.buffer[1].type # "I"
  <2>1. CASE u.buffer = s.buffer  BY <1>5, <2>1
  <2>2. CASE u.buffer = Append(s.buffer, g)
    <3>1. CASE s.buffer = <<>>
      <4>1. u.buffer[1] = g  BY <1>1, <1>4, <2>2, <3>1
      <4> QED  BY <1>1, <4>1
    <3>2. CASE s.buffer # <<>>
      <4>1. u.buffer[1] = s.buffer[1]  BY <1>1, <1>4, <2>2, <3>2
      <4> QED  BY <3>2, <4>1
    <3> QED  BY <3>1, <3>2
  <2> QED  BY <1>3, <2>1, <2>2
<1>6. Sends(s, u)
  <2>1. CASE u.buffer = s.buffer  BY <2>1, SendsSame
  <2>2. CASE u.buffer = Append(s.buffer, g)
    <3>1. /\ Len(s.buffer) \in Nat /\ Len(u.buffer) = Len(s.buffer) + 1
          /\ \A i \in 1 .. Len(s.buffer) + 1 :
               u.buffer[i] = IF i = Len(s.buffer) + 1 THEN g ELSE s.buffer[i]
      BY <1>4, <2>2
    <3>2. \A i \in 1 .. Len(s.buffer) + 1 : i = Len(s.buffer) + 1 \/ i \in 1 .. Len(s.buffer)
      BY <3>1
    <3> QED  BY <1>1, <3>1, <3>2 DEF Sends
  <2> QED  BY <1>3, <2>1, <2>2
<1> QED  BY <1>2, <1>5, <1>6 DEF u, g

\* A frame arrives that sets up the link.
LEMMA UpStep ==
  ASSUME StreamInv, Few, Few', TypeInv, TypeInv', NEW p \in Peer,
         NEW k \in Marks, Arrives(p, k), NEW a, Typed(a), ComesUp(p, a), Sends(end[p], a),
         a.buffer # <<>> => \/ end[p].buffer # <<>> /\ a.buffer[1] = end[p].buffer[1]
                            \/ a.buffer[1].type # "I"
  PROVE  StreamInv'
<1> DEFINE o == Other(p)
           s == end[p]
           more == Pending(p)
           rd == read[p]
           t == LinkUp(a, more, rd + 1)
           st == end[o].state
           ne == end[o].next_expected_frame
           D == delivered[o]
<1>1. /\ o \in Peer /\ o # p /\ Typed(s) /\ EndsTyped /\ LinesTyped /\ CountsTyped
  BY Others DEF TypeInv, EndsTyped
<1>2. /\ end' = [end EXCEPT ![p] = t] /\ Take(p, more) /\ delivered' = delivered
  BY DEF ComesUp
<1>3. more \in BOOLEAN  BY DEF Pending
<1>4. /\ rd \in Nat /\ read'[p] = (IF more THEN rd + 1 ELSE rd) /\ read'[o] = read[o]
  BY <1>1, <1>2 DEF Take, CountsTyped
<1>5. /\ line[p] # <<>> /\ line[p][1][1].type \in Marks
      /\ line'[p] = Tail(line[p]) /\ line'[o] = line[o]
  BY <1>1, ArrivesFront, LineOf
<1>6. /\ Out(line[o], s, rd, st, ne, D)
      /\ Way(line[p], end[o].buffer, end[o].txqueue, read[o],
             s.state, s.next_expected_frame, delivered[p])
      /\ Recent(line[o], s.buffer, rd) /\ Recent(line[p], end[o].buffer, read[o])
  BY Directions
<1>7. FewOf(s, rd) /\ FewOf(t, read'[p])
  <2>1. end'[p] = t  BY <1>1, <1>2 DEF EndsTyped
  <2> QED  BY <2>1 DEF Few
<1>8. Out(line[o], t, read'[p], st, ne, D) /\ Recent(line[o], t.buffer, read'[p])
  <2>1. FewOf(LinkUp(a, more, rd + 1), IF more THEN rd + 1 ELSE rd)  BY <1>4, <1>7
  <2> HIDE DEF s, more, rd, st, ne, D
  <2>2. /\ Out(line[o], LinkUp(a, more, rd + 1), IF more THEN rd + 1 ELSE rd, st, ne, D)
        /\ Recent(line[o], LinkUp(a, more, rd + 1).buffer, IF more THEN rd + 1 ELSE rd)
    BY <1>1, <1>3, <1>4, <1>6, <1>7, <2>1, LinkUpOut DEF s
  <2> QED  BY <1>4, <2>2
<1>9. Way(Tail(line[p]), end[o].buffer, end[o].txqueue, read[o],
          t.state, t.next_expected_frame, delivered[p])
  BY <1>5, <1>6, MarkWay
<1>10. Recent(Tail(line[p]), end[o].buffer, read[o])  BY <1>5, <1>6, RecentTail DEF Way
<1> HIDE DEF t, more
<1> QED  BY <1>1, <1>2, <1>4, <1>5, <1>8, <1>9, <1>10, StreamStep

\* Frames about the link arrive.
LEMMA LinksStream ==
  ASSUME StreamInv, Few, Few', TypeInv, TypeInv', NEW p \in Peer,
         ReceiveSabme(p) \/ ReceiveUa(p) \/ ReceiveDisc(p) \/ ReceiveDm(p) \/ Ignore(p)
  PROVE  StreamInv'
<1> DEFINE s == end[p]
           u == TxFrame(s, UFrame("UA"))
<1>1. Typed(s) /\ EndsTyped /\ LinesTyped  BY DEF TypeInv, EndsTyped
<1>2. /\ Typed(u) /\ Sends(s, u)
      /\ u.buffer # <<>> => \/ s.buffer # <<>> /\ u.buffer[1] = s.buffer[1]
                            \/ u.buffer[1].type # "I"
  BY <1>1, UaSent
<1>3. CASE ReceiveSabme(p)
  <2>1. Arrives(p, "SABME") /\ ComesUp(p, u)  BY <1>3 DEF ReceiveSabme
  <2> HIDE DEF u
  <2> QED  BY <1>2, <2>1, UpStep DEF Marks
<1>4. CASE ReceiveUa(p)
  <2>1. Arrives(p, "UA")  BY <1>4 DEF ReceiveUa
  <2>2. CASE ComesUp(p, s)
    <3>1. s.buffer # <<>> => \/ s.buffer # <<>> /\ s.buffer[1] = s.buffer[1]
                             \/ s.buffer[1].type # "I"
      OBVIOUS
    <3> QED  BY <1>1, <2>1, <2>2, <3>1, SendsSame, UpStep DEF Marks
  <2>3. CASE UNCHANGED <<end, waiting, read, delivered, behind>>
    <3>1. end' = [end EXCEPT ![p] = s]  BY <1>1, <2>3 DEF EndsTyped
    <3>2. Quiet(s, s)  BY QuietSame
    <3> QED  BY <1>1, <2>1, <2>3, <3>1, <3>2, ArrivesFront, QuietStep
  <2> QED  BY <1>4, <2>2, <2>3 DEF ReceiveUa
<1>5. CASE ReceiveDisc(p)
  <2>1. Arrives(p, "DISC") /\ end' = [end EXCEPT ![p] = Reset(u)]
        /\ read' = read /\ delivered' = delivered
    BY <1>5 DEF ReceiveDisc
  <2> HIDE DEF u
  <2>2. Quiet(s, Reset(u))  BY <1>2, QuietReset DEF Typed
  <2> QED  BY <1>1, <2>1, <2>2, ArrivesFront, QuietStep
<1>6. CASE ReceiveDm(p)
  <2> DEFINE r == IF Frame(p).pf THEN Reset(s) ELSE s
  <2>1. Arrives(p, "DM") /\ end' = [end EXCEPT ![p] = Restart(r)]
        /\ read' = read /\ delivered' = delivered
    BY <1>6 DEF ReceiveDm
  <2>2. Whole(r) /\ Contents(r) /\ Quiet(s, r)
    <3>1. Typed(Reset(s)) /\ Quiet(s, Reset(s))
      BY <1>1, SendsSame, TypedReset, QuietReset DEF Typed
    <3>2. Quiet(s, s)  BY QuietSame
    <3> QED  BY <1>1, <3>1, <3>2 DEF Typed
  <2> HIDE DEF r
  <2>3. Quiet(s, Restart(r))  BY <2>2, QuietRestart, QuietTwice
  <2> QED  BY <1>1, <2>1, <2>3, ArrivesFront, QuietStep
<1>7. CASE Ignore(p)
  <2>1. end' = [end EXCEPT ![p] = s]  BY <1>1, <1>7 DEF Ignore, EndsTyped
  <2>2. Quiet(s, s)  BY QuietSame
  <2> QED  BY <1>7, <2>1, <2>2, QuietStep DEF Ignore
<1> QED  BY <1>3, <1>4, <1>5, <1>6, <1>7

\* RR after another operator.
LEMMA QuietRrTwice ==
  ASSUME NEW s, NEW t, Typed(t), Quiet(s, t), NEW pf \in BOOLEAN
  PROVE  Typed(Rr(t, pf)) /\ Quiet(s, Rr(t, pf))
BY TypedRr, QuietRr, QuietTwice

\* The frame that is expected is given to the application.
LEMMA DeliverStep ==
  ASSUME StreamInv, Few, TypeInv, TypeInv', NEW p \in Peer, ReceiveI(p),
         Expected(end[p], Frame(p))
  PROVE  StreamInv'
<1> DEFINE o == Other(p)
           s == end[p]
           f == Frame(p)
           k == (s.next_expected_frame + 1) % Mod
           e == [s EXCEPT !.next_expected_frame = (@ + 1) % Mod]
           a == AckRx(e, f.nr)
           b == IF f.pf THEN Rr(a, TRUE) ELSE a
           c == IF b.last_frame_we_acknowledged # b.next_expected_frame THEN Rr(b, FALSE) ELSE b
<1>1. /\ o \in Peer /\ o # p /\ Typed(s) /\ EndsTyped /\ LinesTyped /\ CountsTyped
  BY Others DEF TypeInv, EndsTyped
<1>2. /\ Arrives(p, "I") /\ end' = [end EXCEPT ![p] = c] /\ read' = read
      /\ delivered' = [delivered EXCEPT ![p] = f.piece]
      /\ s.state = "DATA" /\ f.ns = s.next_expected_frame
  BY DEF ReceiveI, Expected
<1>3. /\ line[p] # <<>> /\ line' = [line EXCEPT ![p] = Tail(@)]
      /\ f = line[p][1][1] /\ f.type = "I" /\ f \in IFrames
  BY <1>1, <1>2, ArrivesFront, FrameKinds
<1>4. f.nr \in Numbers /\ f.pf \in BOOLEAN  BY <1>3 DEF IFrames
<1>5. /\ Typed(e) /\ e.state = "DATA" /\ e.txqueue = s.txqueue /\ e.buffer = s.buffer
      /\ e.next_tx_frame = s.next_tx_frame /\ e.next_expected_frame = k
  <2>1. k \in Numbers
    BY <1>1, Bounds DEF Typed, Contents, Counters, Numbers
  <2>2. e = [s EXCEPT !.next_expected_frame = k]  BY <1>1 DEF Typed, Whole, All
  <2> HIDE DEF k, e
  <2>3. Typed(e)
    BY <1>1, <2>1, <2>2 DEF Typed, Whole, Contents, Counters, Stores, Modes, Tried, All
  <2>4. /\ e.state = s.state /\ e.txqueue = s.txqueue /\ e.buffer = s.buffer
        /\ e.next_tx_frame = s.next_tx_frame /\ e.next_expected_frame = k
    BY <1>1, <2>2 DEF Typed, Whole, All
  <2> QED  BY <1>2, <2>3, <2>4
<1> HIDE DEF e, k
<1>6. Typed(a) /\ Quiet(e, a)  BY <1>4, <1>5, TypedAckRx, QuietAckRx
<1> HIDE DEF a
<1>7. Typed(b) /\ Quiet(e, b)  BY <1>6, QuietRrTwice
<1> HIDE DEF b
<1>8. Typed(c) /\ Quiet(e, c)  BY <1>7, QuietRrTwice
<1> HIDE DEF c
<1>9. Tame(s, c)  BY <1>5, <1>8 DEF Quiet, Tame
<1>10. line'[p] = Tail(line[p]) /\ line'[o] = line[o]  BY <1>1, <1>3, LineOf
<1>11. delivered'[p] = f.piece /\ delivered'[o] = delivered[o]  BY <1>1, <1>2 DEF CountsTyped
<1>12. /\ Out(line[o], s, read[p], end[o].state, end[o].next_expected_frame, delivered[o])
       /\ Way(line[p], end[o].buffer, end[o].txqueue, read[o],
              s.state, s.next_expected_frame, delivered[p])
  BY Directions
<1>13. Out(line'[o], c, read'[p], end[o].state, end[o].next_expected_frame, delivered'[o])
  <2>1. FewOf(s, read[p])  BY DEF Few
  <2> HIDE DEF s
  <2> QED  BY <1>1, <1>2, <1>8, <1>9, <1>10, <1>11, <1>12, <2>1, TameOut
<1>14. Way(Tail(line[p]), end[o].buffer, end[o].txqueue, read[o], "DATA", k, f.piece)
  BY <1>2, <1>3, <1>12, NextWay DEF k
<1>15. Way(line'[p], end[o].buffer, end[o].txqueue, read[o],
           c.state, c.next_expected_frame, delivered'[p])
  BY <1>5, <1>8, <1>10, <1>11, <1>14, HeardWay DEF Quiet
<1>16. Recent(line[o], s.buffer, read[p]) /\ Recent(line[p], end[o].buffer, read[o])
  BY Directions
<1>17. Recent(line'[o], c.buffer, read'[p])
  <2>1. Sends(s, c)  BY <1>5, <1>8 DEF Quiet, Sends
  <2>2. Pieces(s, read[p])  BY <1>12 DEF Out
  <2>3. s.txqueue \in Seq(IFrames)  BY <1>1 DEF Typed, Contents, Stores
  <2> HIDE DEF s
  <2> QED  BY <1>2, <1>10, <1>16, <2>1, <2>2, <2>3, RecentQuiet
<1>18. Recent(line'[p], end[o].buffer, read[o])
  <2>1. line[p] \in Lines  BY <1>12 DEF Way
  <2> QED  BY <1>3, <1>10, <1>16, <2>1, RecentTail
<1> QED  BY <1>1, <1>2, <1>13, <1>15, <1>17, <1>18, StreamStep

\* A frame arrives.
LEMMA ReceiveStream ==
  ASSUME StreamInv, Few, Few', TypeInv, TypeInv', NEW p \in Peer, Receive(p)
  PROVE  StreamInv'
<1> DEFINE s == end[p]
           f == Frame(p)
<1>1. Typed(s) /\ EndsTyped /\ LinesTyped  BY DEF TypeInv, EndsTyped
<1>2. Quiet(s, s)  BY QuietSame
<1>3. ASSUME NEW k, Arrives(p, k)
      PROVE  /\ line[p] # <<>> /\ line' = [line EXCEPT ![p] = Tail(@)]
             /\ f.type = k /\ f \in Frames
  BY <1>1, <1>3, ArrivesFront
<1>4. CASE ReceiveI(p) /\ ~Expected(s, f)
  <2> DEFINE t == IF s.state # "DATA" THEN s
                  ELSE IF (s.next_expected_frame - f.ns) % Mod < Window THEN Rr(s, FALSE)
                  ELSE Reject(s)
  <2>1. Arrives(p, "I") /\ end' = [end EXCEPT ![p] = t] /\ read' = read
    BY <1>4 DEF ReceiveI
  <2>2. delivered' = delivered
    <3>1. delivered' = [delivered EXCEPT ![p] = delivered[p]]  BY <1>4 DEF ReceiveI
    <3>2. delivered \in [Peer -> Nat]  BY DEF TypeInv, CountsTyped
    <3> QED  BY <3>1, <3>2
  <2>3. Quiet(s, t)  BY <1>1, <1>2, QuietRr
  <2> HIDE DEF t
  <2> QED  BY <1>3, <2>1, <2>2, <2>3, QuietStep
<1>5. CASE ReceiveRr(p)
  <2> DEFINE a == AckRx(s, f.nr)
             b == IF a.solicit_f_bit THEN a ELSE Rr(a, TRUE)
             c == [b EXCEPT !.solicit_f_bit = FALSE]
             t == IF s.state # "DATA" THEN s ELSE IF f.pf THEN c ELSE a
  <2>1. /\ Arrives(p, "RR") /\ end' = [end EXCEPT ![p] = t] /\ read' = read
        /\ delivered' = delivered
    BY <1>5 DEF ReceiveRr
  <2>2. f.nr \in Numbers
    <3>1. f.type = "RR" /\ f \in Frames  BY <1>3, <2>1
    <3> QED  BY <3>1, FrameKinds
  <2> HIDE DEF f
  <2>3. ASSUME s.state = "DATA" PROVE Typed(a) /\ Quiet(s, a)
    BY <1>1, <2>2, <2>3, TypedAckRx, QuietAckRx
  <2> HIDE DEF a
  <2>4. ASSUME s.state = "DATA" PROVE Typed(b) /\ Quiet(s, b)
    BY <2>3, <2>4, QuietRrTwice
  <2> HIDE DEF b
  <2>5. ASSUME s.state = "DATA" PROVE Quiet(s, c)
    <3>1. Typed(b) /\ Quiet(s, b)  BY <2>4, <2>5
    <3>2. \A x \in Heard : c[x] = b[x]  BY <3>1 DEF Typed, Whole, All, Heard
    <3> HIDE DEF c
    <3>3. Quiet(b, c)  BY <3>2, QuietSame
    <3> QED  BY <3>1, <3>3, QuietTwice
  <2> HIDE DEF c
  <2>6. Quiet(s, t)  BY <1>2, <2>3, <2>5
  <2> HIDE DEF t
  <2> QED  BY <1>3, <2>1, <2>6, QuietStep
<1>6. CASE ReceiveRej(p)
  <2> DEFINE r == IF f.pf THEN Rr(s, TRUE) ELSE s
             t == IF s.state # "DATA" THEN s ELSE Retransmit(r, f.nr)
  <2>1. /\ Arrives(p, "REJ") /\ end' = [end EXCEPT ![p] = t] /\ read' = read
        /\ delivered' = delivered
    BY <1>6 DEF ReceiveRej
  <2>2. Typed(r) /\ Quiet(s, r)  BY <1>1, <1>2, QuietRrTwice
  <2> HIDE DEF r
  <2>3. Quiet(s, Retransmit(r, f.nr))  BY <2>2, QuietRetransmit, QuietTwice
  <2>4. Quiet(s, t)  BY <1>2, <2>3
  <2> HIDE DEF t
  <2> QED  BY <1>3, <2>1, <2>4, QuietStep
<1>7. CASE ReceiveI(p) /\ Expected(s, f)  BY <1>7, DeliverStep
<1>8. CASE ReceiveSabme(p) \/ ReceiveUa(p) \/ ReceiveDisc(p) \/ ReceiveDm(p) \/ Ignore(p)
  BY <1>8, LinksStream
<1> QED  BY <1>4, <1>5, <1>6, <1>7, <1>8 DEF Receive

\* A timer expires.
LEMMA TimersStream ==
  ASSUME Inv, StreamInv, Few, TypeInv, TypeInv', NEW p \in Peer, Timers(p)
  PROVE  StreamInv'
<1> DEFINE s == end[p]
           one(i) == [s EXCEPT !.sched[i] = "none"]
           four(i) == [one(i) EXCEPT !.t400 = 0, !.state = "UNSUPPORTED"]
           first(i) == [one(i) EXCEPT !.t401 = 0]
           third(i) == [one(i) EXCEPT !.t403 = 0]
<1>1. Typed(s) /\ EndInv(s)  BY DEF TypeInv, EndsTyped, Inv
<1>2. line' = line /\ read' = read /\ delivered' = delivered
  BY DEF Timers, FireSabme, FireT400, FireT401, FireT403, Fire
<1>3. ASSUME NEW i \in 1 .. Slots, s.sched[i] = "t401"
      PROVE  s.retransmissions <= N_400
  BY <1>1, <1>3, LiveTried
<1>4. ASSUME NEW i \in 1 .. Slots, s.sched[i] = "sabme" PROVE Bare(s)
  <2>1. i = s.t401
    BY <1>1, <1>4 DEF EndInv, Owned, Covered
  <2>2. i # 0  OBVIOUS
  <2>3. s.txqueue = <<>>  BY <1>1, <1>4, <2>1, <2>2 DEF EndInv, Calling
  <2>4. Len(<<>>) = 0  OBVIOUS
  <2> QED  BY <2>3, <2>4 DEF Bare
<1> HIDE DEF s
<1>5. ASSUME NEW i PROVE /\ Typed(one(i)) /\ Quiet(s, one(i)) /\ one(i).txqueue = s.txqueue
                         /\ one(i).retransmissions = s.retransmissions
  <2>1. Typed(one(i)) /\ one(i).retransmissions = s.retransmissions
    BY <1>1 DEF Typed, Whole, Contents, Counters, Stores, Modes, Tried, All
  <2>2. \A x \in Heard : one(i)[x] = s[x]  BY <1>1 DEF Typed, Whole, All, Heard
  <2> HIDE DEF one
  <2> QED  BY <2>1, <2>2, QuietSame DEF Heard
<1> HIDE DEF one
<1>6. ASSUME NEW i PROVE /\ Typed(first(i)) /\ Typed(third(i))
                         /\ first(i).retransmissions = s.retransmissions
                         /\ Quiet(s, first(i)) /\ Quiet(s, third(i)) /\ Quiet(s, four(i))
  <2>1. /\ Typed(first(i)) /\ Typed(third(i))
        /\ first(i).retransmissions = s.retransmissions
    BY <1>5 DEF Typed, Whole, Contents, Counters, Stores, Modes, Tried, All
  <2>2. \A x \in Heard : first(i)[x] = one(i)[x] /\ third(i)[x] = one(i)[x]
    BY <1>5 DEF Typed, Whole, All, Heard
  <2>3. four(i).state = "UNSUPPORTED" /\ \A x \in Heard \ {"state"} : four(i)[x] = one(i)[x]
    BY <1>5 DEF Typed, Whole, All, Heard
  <2> HIDE DEF first, third, four
  <2>4. Quiet(one(i), first(i)) /\ Quiet(one(i), third(i))  BY <2>2, QuietSame
  <2>5. Quiet(one(i), four(i))  BY <2>3, QuietState
  <2> QED  BY <1>5, <2>1, <2>4, <2>5, QuietTwice
<1>7. ASSUME NEW t, end' = [end EXCEPT ![p] = t], Quiet(s, t) PROVE StreamInv'
  BY <1>2, <1>7, QuietStep DEF s
<1>8. CASE FireSabme(p)
  <2>1. PICK i \in 1 .. Slots :
          /\ s.sched[i] = "sabme"
          /\ end' = [end EXCEPT ![p] = SendSabme(one(i))]
    BY <1>8 DEF FireSabme, Fire, s, one
  <2>2. Bare(one(i))  BY <1>4, <1>5, <2>1 DEF Bare
  <2>3. Quiet(one(i), SendSabme(one(i)))
    BY <1>5, <2>2, QuietSendSabme DEF Typed, Contents, Stores
  <2> QED  BY <1>5, <1>7, <2>1, <2>3, QuietTwice
<1>9. CASE FireT400(p)
  <2>1. PICK i \in 1 .. Slots : end' = [end EXCEPT ![p] = four(i)]
    BY <1>9 DEF FireT400, Fire, s, one
  <2> QED  BY <1>6, <1>7, <2>1
<1>10. CASE FireT401(p)
  <2>1. PICK i \in 1 .. Slots :
          /\ s.sched[i] = "t401"
          /\ end' = [end EXCEPT ![p] = T401Expired(first(i))]
    BY <1>10 DEF FireT401, Fire, s, one
  <2> HIDE DEF first
  <2>2. Quiet(first(i), T401Expired(first(i)))  BY <1>3, <1>6, <2>1, QuietT401Expired
  <2> QED  BY <1>6, <1>7, <2>1, <2>2, QuietTwice
<1>11. CASE FireT403(p)
  <2>1. PICK i \in 1 .. Slots : end' = [end EXCEPT ![p] = T403Expired(third(i))]
    BY <1>11 DEF FireT403, Fire, s, one
  <2> HIDE DEF third
  <2>2. Quiet(third(i), T403Expired(third(i)))  BY <1>6, QuietT403Expired
  <2> QED  BY <1>6, <1>7, <2>1, <2>2, QuietTwice
<1> QED  BY <1>8, <1>9, <1>10, <1>11 DEF Timers

\* Both ends after v42_init.
LEMMA InitStream == Init => StreamInv
<1> SUFFICES ASSUME Init PROVE StreamInv  OBVIOUS
<1>1. PICK sc \in Scenarios :
        end = [p \in Peer |-> V42Restart([Cleared EXCEPT !.detect = sc.detect])]
  BY DEF Init
<1> DEFINE c == Cleared
           d == [c EXCEPT !.detect = sc.detect]
           t == V42Restart(d)
<1>2. Typed(c)  BY ClearedTyped
<1>3. c.txqueue = <<>> /\ c.buffer = <<>> /\ c.detect \in BOOLEAN  BY DEF Cleared
<1> HIDE DEF c
<1>4. Typed(d)
  BY <1>2 DEF Typed, Whole, Contents, Counters, Stores, Modes, Tried, All
<1>5. d.txqueue = <<>> /\ d.buffer = <<>>  BY <1>2, <1>3 DEF Typed, Whole, All
<1> HIDE DEF d
<1>6. Typed(t) /\ Quiet(d, t)  BY <1>4, TypedV42Restart, QuietV42Restart
<1>7. \A p \in Peer : end[p] = t  BY <1>1 DEF t, d, c
<1>8. \A p \in Peer : line[p] = <<>> /\ read[p] = 0 /\ delivered[p] = 0  BY DEF Init
<1>9. ASSUME NEW st, NEW ne PROVE Out(<<>>, t, 0, st, ne, 0) /\ Recent(<<>>, t.buffer, 0)
  <2>1. \A k, y : ~Coming(<<>>, <<>>, <<>>, k, y)  BY DEF Coming
  <2>2. <<>> \in Lines /\ <<>> \in Seq(Frames) /\ <<>> \in Seq(IFrames) /\ Len(<<>>) = 0
    BY DEF Lines
  <2>3. Way(<<>>, <<>>, <<>>, 0, st, ne, 0)
    BY <2>1, <2>2 DEF Way, Known, Unseen, InOrder, Fenced, Parted
  <2>4. Out(<<>>, d, 0, st, ne, 0) /\ FewOf(d, 0)  BY <1>5, <2>2, <2>3 DEF Out, Pieces, FewOf
  <2>5. Recent(<<>>, d.buffer, 0)  BY <1>5, <2>2 DEF Recent, NoNewer
  <2>6. d.txqueue \in Seq(IFrames) /\ Sends(d, t) /\ Pieces(d, 0)
    BY <1>5, <1>6, <2>2, <2>4 DEF Quiet, Out
  <2>7. Recent(<<>>, t.buffer, 0)  BY <2>5, <2>6, RecentQuiet
  <2> QED  BY <1>4, <1>6, <2>4, <2>7, TameOut DEF Quiet
<1> HIDE DEF t
<1>10. ASSUME NEW p \in Peer PROVE Feeds(p)
  <2>1. Other(p) \in Peer  BY Others
  <2> QED  BY <1>7, <1>8, <1>9, <2>1 DEF Feeds
<1> QED  BY <1>10 DEF StreamInv

\* Every step.
LEMMA NextStream ==
  ASSUME OwnData
  PROVE  /\ Inv /\ TypeInv /\ StreamInv /\ Few /\ [Next]_vars /\ TypeInv' /\ Few'
         => StreamInv'
<1> SUFFICES ASSUME Inv, TypeInv, StreamInv, Few, [Next]_vars, TypeInv', Few'
             PROVE  StreamInv'
  OBVIOUS
<1>1. CASE SeeOdp \/ SendAdp \/ SeeAdp  BY <1>1, DetectionStream
<1>2. ASSUME NEW p \in Peer, Application(p) PROVE StreamInv'  BY <1>2, ApplicationStream
<1>3. ASSUME NEW p \in Peer, Transmit(p) PROVE StreamInv'  BY <1>3, TransmitStream
<1>4. ASSUME NEW p \in Peer, Receive(p) PROVE StreamInv'  BY <1>4, ReceiveStream
<1>5. ASSUME NEW p \in Peer, Timers(p) PROVE StreamInv'  BY <1>5, TimersStream
<1>6. ASSUME NEW p \in Peer, Corrupt(p) \/ Inject(p) PROVE StreamInv'  BY <1>6, LineStream
<1>7. CASE UNCHANGED vars  BY <1>7, RestStep DEF vars
<1> QED  BY <1>1, <1>2, <1>3, <1>4, <1>5, <1>6, <1>7 DEF Next

-----------------------------------------------------------------------------
(* The steps of LossyStream.                                                 *)

Streams == [Stream!Next]_<<read, delivered, behind>>

\* A piece is taken from tx_queue, or none.
LEMMA StreamTakes ==
  ASSUME CountsTyped, NEW p \in Peer, NEW more \in BOOLEAN, Take(p, more), delivered' = delivered,
         behind' = behind
  PROVE  Streams
<1>1. p \in Stream!Peer  BY DEF Peer, Stream!Peer
<1>2. CASE more
  <2>1. Stream!Take(p)  BY <1>2 DEF Take, Stream!Take
  <2> QED  BY <1>1, <2>1 DEF Streams, Stream!Next
<1>3. CASE ~more
  <2>1. read' = read  BY <1>3 DEF Take, CountsTyped
  <2> QED  BY <2>1 DEF Streams
<1> QED  BY <1>2, <1>3

\* What comes behind the piece of the first frame has been taken at the other end.
LEMMA PiecesBehind ==
  ASSUME TypeInv, StreamInv, NEW p \in Peer, line[p] # <<>>
  PROVE  Behind(line[p][1]) \in Seq(0 .. read[Other(p)])
<1> DEFINE g == line[p][1]
           rd == read[Other(p)]
<1>1. Other(p) \in Peer /\ LinesTyped /\ CountsTyped  BY Others DEF TypeInv
<1>2. g \in Seq(Frames) \ {<<>>} /\ rd \in Nat  BY <1>1, FrontBehind DEF CountsTyped
<1>3. NoNewer(g, rd)
  <2>1. Recent(line[p], end[Other(p)].buffer, rd)  BY Directions
  <2>2. 1 \in 1 .. Len(line[p])  BY <1>1 DEF LinesTyped
  <2> QED  BY <2>1, <2>2 DEF Recent
<1> HIDE DEF g, rd
<1>4. /\ Len(g) - 1 \in Nat
      /\ \A i \in 1 .. Len(g) - 1 : i + 1 \in 1 .. Len(g) /\ g[i + 1] \in Frames
  BY <1>2
<1>5. \A i \in 1 .. Len(g) - 1 : g[i + 1].type = "I" => g[i + 1].piece \in 0 .. rd
  <2> SUFFICES ASSUME NEW i \in 1 .. Len(g) - 1, g[i + 1].type = "I"
               PROVE  g[i + 1].piece \in 0 .. rd
    OBVIOUS
  <2>1. g[i + 1].piece \in Nat  BY <1>4, IFields
  <2>2. g[i + 1].piece <= rd  BY <1>3, <1>4 DEF NoNewer
  <2> QED  BY <1>2, <2>1, <2>2
<1>6. 0 \in 0 .. rd  BY <1>2
<1>7. Behind(g) \in [1 .. Len(g) - 1 -> 0 .. rd]  BY <1>5, <1>6 DEF Behind
<1>8. Behind(g) \in Seq(0 .. rd)
  <2>1. ASSUME NEW S, NEW n \in Nat, NEW h \in [1 .. n -> S] PROVE h \in Seq(S)  OBVIOUS
  <2> QED  BY <1>4, <1>7, <2>1
<1> QED  BY <1>8 DEF g, rd

\* What is delivered is new, and has been taken at the other end.
LEMMA StreamDelivers ==
  ASSUME TypeInv, StreamInv, NEW p \in Peer, ReceiveI(p)
  PROVE  Streams
<1> DEFINE s == end[p]
           f == Frame(p)
           o == Other(p)
<1>1. LinesTyped /\ CountsTyped /\ o \in Peer  BY Others DEF TypeInv
<1>2. Arrives(p, "I") /\ read' = read  BY DEF ReceiveI
<1>3. CASE Expected(s, f)
  <2>1. /\ line[p] # <<>> /\ f = line[p][1][1] /\ f.type = "I"
    BY <1>1, <1>2, ArrivesFront
  <2>2. s.state = "DATA" /\ f.ns = s.next_expected_frame  BY <1>3 DEF Expected
  <2>3. Way(line[p], end[o].buffer, end[o].txqueue, read[o],
            s.state, s.next_expected_frame, delivered[p])
    BY Directions
  <2>4. f.piece \in Nat /\ f.piece > delivered[p] /\ f.piece <= read[o]
    BY <2>1, <2>2, <2>3, NextWay
  <2>5. f.piece \in delivered[p] + 1 .. read[o]
    <3>1. delivered[p] \in Nat /\ read[o] \in Nat  BY <1>1 DEF CountsTyped
    <3> QED  BY <2>4, <3>1
  <2>6. delivered' = [delivered EXCEPT ![p] = f.piece]  BY <1>3 DEF ReceiveI
  <2>7. behind' = [behind EXCEPT ![p] = Behind(line[p][1])]
    BY <1>1, <1>3, <2>1, FrontBehind DEF ReceiveI
  <2>8. behind'[p] = Behind(line[p][1])  BY <1>1, <2>7 DEF CountsTyped
  <2>9. Behind(line[p][1]) \in Seq(0 .. read[o])  BY <2>1, PiecesBehind
  <2>10. Stream!Other(p) = o /\ p \in Stream!Peer
    BY DEF Other, Peer, Stream!Other, Stream!Peer
  <2>11. Stream!Deliver(p)
    BY <1>2, <2>5, <2>6, <2>7, <2>8, <2>9, <2>10 DEF Stream!Deliver
  <2> QED  BY <2>10, <2>11 DEF Streams, Stream!Next
<1>4. CASE ~Expected(s, f)
  <2>1. delivered' = [delivered EXCEPT ![p] = delivered[p]]  BY <1>4 DEF ReceiveI
  <2>2. behind' = [behind EXCEPT ![p] = behind[p]]  BY <1>4 DEF ReceiveI
  <2>3. delivered' = delivered /\ behind' = behind  BY <1>1, <2>1, <2>2 DEF CountsTyped
  <2> QED  BY <1>2, <2>3 DEF Streams
<1> QED  BY <1>3, <1>4

\* Every step is one of the stream, or none.
LEMMA NextStreams ==
  TypeInv /\ StreamInv /\ [Next]_vars => Streams
<1> SUFFICES ASSUME TypeInv, StreamInv, [Next]_vars PROVE Streams  OBVIOUS
<1>1. CountsTyped  BY DEF TypeInv
<1>2. ASSUME read' = read, delivered' = delivered, behind' = behind PROVE Streams
  BY <1>2 DEF Streams
<1>3. CASE SeeOdp \/ SendAdp \/ SeeAdp  BY <1>2, <1>3 DEF SeeOdp, SendAdp, SeeAdp
<1>4. ASSUME NEW p \in Peer, Application(p) PROVE Streams
  BY <1>2, <1>4 DEF Application, Write, Release, StartAgain
<1>5. ASSUME NEW p \in Peer, Transmit(p) PROVE Streams
  <2>1. CASE BeginCrc(p)  BY <1>2, <2>1 DEF BeginCrc
  <2>2. CASE EndFrame(p)
    <3> DEFINE more == [end[p] EXCEPT !.buffer = <<>>, !.crc = FALSE].state = "DATA" /\ Pending(p)
    <3>1. Take(p, more) /\ delivered' = delivered /\ behind' = behind  BY <2>2 DEF EndFrame
    <3>2. more \in BOOLEAN  BY DEF Pending
    <3> HIDE DEF more
    <3> QED  BY <1>1, <3>1, <3>2, StreamTakes
  <2> QED  BY <1>5, <2>1, <2>2 DEF Transmit
<1>6. ASSUME NEW p \in Peer, Receive(p) PROVE Streams
  <2>1. ASSUME NEW a, ComesUp(p, a) PROVE Streams
    <3>1. Pending(p) \in BOOLEAN  BY DEF Pending
    <3> QED  BY <1>1, <2>1, <3>1, StreamTakes DEF ComesUp
  <2>2. CASE ReceiveI(p)  BY <2>2, StreamDelivers
  <2>3. CASE ReceiveSabme(p)  BY <2>1, <2>3 DEF ReceiveSabme
  <2>4. CASE ReceiveUa(p)  BY <1>2, <2>1, <2>4 DEF ReceiveUa
  <2>5. CASE ReceiveRr(p) \/ ReceiveRej(p) \/ ReceiveDisc(p) \/ ReceiveDm(p) \/ Ignore(p)
    BY <1>2, <2>5 DEF ReceiveRr, ReceiveRej, ReceiveDisc, ReceiveDm, Ignore
  <2> QED  BY <1>6, <2>2, <2>3, <2>4, <2>5 DEF Receive
<1>7. ASSUME NEW p \in Peer, Timers(p) PROVE Streams
  BY <1>2, <1>7 DEF Timers, FireSabme, FireT400, FireT401, FireT403, Fire
<1>8. ASSUME NEW p \in Peer, Corrupt(p) \/ Inject(p) PROVE Streams
  BY <1>2, <1>8 DEF Corrupt, Inject
<1>9. CASE UNCHANGED vars  BY <1>2, <1>9 DEF vars
<1> QED  BY <1>3, <1>4, <1>5, <1>6, <1>7, <1>8, <1>9 DEF Next

\* Between two ends of this library each call that gives octets to an application
\* begins with a piece handed over at the other end, in order and never twice,
\* whatever is lost, corrupted, rejected, sent again, released or set up anew, in
\* both directions at once; and nothing comes behind it but header octets and pieces
\* taken at the other end by then, which may come there out of order and again.
\* This as long as no end keeps a frame for so long that its number is used again,
\* and nothing but the two ends sends an I frame or sets up a link (v42.c:
\* lapm_receive, lapm_tx_iframe, lapm_link_up, lapm_reset; hdlc.c: hdlc_tx_frame).
THEOREM StreamKept ==
  ASSUME OwnData
  PROVE  Spec /\ []DmFinal /\ []Few => ImplementsStream
<1>1. Init => Inv /\ TypeInv /\ StreamInv  BY InitInv, InitTyped, InitStream
<1>2. Inv /\ TypeInv /\ DmFinal /\ [Next]_vars => (Inv /\ TypeInv)'  BY NextInv, NextTyped
<1>3. Inv /\ TypeInv /\ StreamInv /\ Few /\ [Next]_vars /\ TypeInv' /\ Few' => StreamInv'
  BY NextStream
<1>4. TypeInv /\ StreamInv /\ [Next]_vars => [Stream!Next]_<<read, delivered, behind>>
  BY NextStreams DEF Streams
<1>5. Init => Stream!Init  BY DEF Init, Stream!Init, Peer, Stream!Peer
<1> QED  BY <1>1, <1>2, <1>3, <1>4, <1>5, PTL DEF Spec, ImplementsStream, Stream!Spec
=============================================================================
