------------------------------ MODULE Playout ------------------------------
(***************************************************************************)
(* The play-out (jitter) buffer, src/spandsp-0.0.3/src/playout.c: frames   *)
(* that come over a packet network late, out of order, twice or not at all *)
(* are queued by playout_put() and taken out, one every frame's time, by   *)
(* playout_get(). The queue is the doubly linked list of the code, and the *)
(* frames that are free another one.                                       *)
(*                                                                         *)
(* Abstracted: what a frame holds is its number; statistics that nothing   *)
(* reads. A frame of the sender spans FrameLen, and time is the receiver's *)
(* clock in the same unit.                                                 *)
(***************************************************************************)
EXTENDS Integers, Sequences, SequencesExt, FiniteSetsExt

CONSTANTS
  Node,      \* what malloc() can give
  NULL,
  Speech,    \* how many frames the sender sends, and which of them are speech
  Frames,
  FrameLen,
  Lengths,   \* the minimum and maximum lengths the buffer is made with
  Copies,    \* bound: how often the network delivers a frame
  Deliveries, \* bound: how many it delivers in all
  Horizon    \* bound: the time after which it delivers nothing

ASSUME PlayoutAssumption ==
  /\ NULL \notin Node
  /\ {FrameLen, Frames} \subseteq Nat \ {0} /\ {Copies, Deliveries, Horizon} \subseteq Nat
  /\ Lengths \subseteq [min : Nat, max : Nat]

VARIABLES
  s,            \* the counters and filters of playout_state_t
  first_frame, last_frame, free_frames,
  later, earlier,
  frame,        \* what each node holds, and (not in the code) if it came too late
  heap,         \* the nodes that are allocated
  queue, free,  \* not in the code: the two lists as they are meant to be
  pc, fresh, p, \* playout_put(): its frame, and how far its search has come
  now,
  put,          \* how often each frame was delivered
  last_played,  \* the stamp of the speech frame that was played last, and how
                \* long the buffer was meant to be before it was
  aside         \* frames that found no memory, or were cleared out

lists == <<first_frame, last_frame, free_frames, later, earlier, heap, queue, free>>
search == <<pc, fresh, p>>
world == <<now, put, last_played, aside>>
vars == <<s, lists, frame, search, world>>

Type(no) == IF no \in Speech THEN "SPEECH" ELSE "CONTROL"
Stamp(no) == no * FrameLen

-----------------------------------------------------------------------------
(* The list *)

\* Mutant: the frame does not go to the free ones.
DequeueUnfreed ==
  LET f == first_frame IN
  /\ first_frame' = later[f]
  /\ last_frame' = IF later[f] = NULL THEN NULL ELSE last_frame
  /\ earlier' = IF later[f] = NULL THEN earlier ELSE [earlier EXCEPT ![later[f]] = NULL]
  /\ queue' = Tail(queue)
  /\ UNCHANGED <<later, free_frames, free, heap>>

\* queue_get() of the first frame, which then becomes the first of the free
\* ones: every caller has done with it before the next call.
Dequeue ==
  LET f == first_frame IN
  /\ first_frame' = later[f]
  /\ last_frame' = IF later[f] = NULL THEN NULL ELSE last_frame
  /\ earlier' = IF later[f] = NULL THEN earlier ELSE [earlier EXCEPT ![later[f]] = NULL]
  /\ later' = [later EXCEPT ![f] = free_frames]
  /\ free_frames' = f
  /\ queue' = Tail(queue) /\ free' = <<f>> \o free
  /\ UNCHANGED heap

\* A free frame, or a new one, for what has arrived.
Acquired == IF free_frames # NULL THEN free_frames ELSE CHOOSE n \in Node : n \notin heap

Acquire ==
  /\ free_frames' = IF free_frames # NULL THEN later[free_frames] ELSE NULL
  /\ free' = IF free_frames # NULL THEN Tail(free) ELSE free
  /\ heap' = heap \cup {Acquired}

AppendFrame(f) ==
  /\ last_frame' = f
  /\ first_frame' = IF last_frame = NULL THEN f ELSE first_frame
  /\ earlier' = [earlier EXCEPT ![f] = last_frame]
  /\ later' = IF last_frame = NULL THEN [later EXCEPT ![f] = NULL]
              ELSE [later EXCEPT ![f] = NULL, ![last_frame] = f]
  /\ queue' = Append(queue, f)

\* Mutant: the frame behind is not told.
InsertAfterHalf(f, q) ==
  /\ later' = [later EXCEPT ![f] = later[q], ![q] = f]
  /\ earlier' = [earlier EXCEPT ![f] = q]
  /\ queue' = InsertAt(queue, 1 + CHOOSE k \in DOMAIN queue : queue[k] = q, f)
  /\ UNCHANGED first_frame

InsertAfter(f, q) ==
  /\ later' = [later EXCEPT ![f] = later[q], ![q] = f]
  /\ earlier' = [earlier EXCEPT ![f] = q, ![later[q]] = f]
  /\ queue' = InsertAt(queue, 1 + CHOOSE k \in DOMAIN queue : queue[k] = q, f)
  /\ UNCHANGED first_frame

InsertBefore(f, q) ==
  /\ later' = [later EXCEPT ![f] = q]
  /\ earlier' = [earlier EXCEPT ![f] = NULL, ![q] = f]
  /\ first_frame' = f
  /\ queue' = <<f>> \o queue

-----------------------------------------------------------------------------
(* playout_put *)

\* The first speech frame sets the time from which frames fall due.
Started(r, no) ==
  IF r.start /\ Type(no) = "SPEECH"
  THEN [r EXCEPT !.last_speech_sender_stamp = Stamp(no) - FrameLen - r.min_length,
                 !.last_speech_sender_len = FrameLen, !.start = FALSE]
  ELSE r

LastFrame(no) == last_frame = NULL \/ (last_frame # NULL /\ Stamp(no) >= Stamp(frame[last_frame].no))

\* The search for the place of a frame that is out of sequence begins.
Search(f) ==
  /\ pc' = "search" /\ fresh' = f /\ p' = last_frame
  /\ UNCHANGED <<first_frame, last_frame, later, earlier, queue>>

\* Whether a speech frame comes after the time at which it was to be played.
Late(no) == ~s.start /\ Stamp(no) < s.last_speech_sender_stamp + s.last_speech_sender_len

Arrives(no) ==
  /\ put[no] < Copies /\ FoldFunction(+, 0, put) < Deliveries
  /\ Stamp(no) <= now /\ now <= Horizon
  /\ put' = [put EXCEPT ![no] = @ + 1]

Put(no) ==
  LET f == Acquired
      in == [s EXCEPT !.frames_in = @ + 1]
  IN
  /\ pc = "idle" /\ Arrives(no)
  /\ free_frames # NULL \/ heap # Node
  /\ Acquire
  /\ frame' = [frame EXCEPT ![f] = [no |-> no, receiver_stamp |-> now, late |-> Late(no)]]
  /\ IF LastFrame(no) THEN AppendFrame(f) /\ s' = Started(in, no) /\ UNCHANGED search
     ELSE Search(f) /\ s' = [in EXCEPT !.frames_oos = @ + 1]
  /\ UNCHANGED <<now, last_played, aside>>

\* malloc() can fail at any time.
PutFails(no) ==
  /\ pc = "idle" /\ Arrives(no)
  /\ free_frames = NULL
  /\ s' = [s EXCEPT !.frames_in = @ + 1]
  /\ aside' = aside + 1
  /\ UNCHANGED <<lists, frame, search, now, last_played>>

\* Mutant: the search does not stop at the first frame.
EarlierPast == Stamp(frame[fresh].no) < Stamp(frame[p].no)

Earlier == Stamp(frame[fresh].no) < Stamp(frame[p].no) /\ earlier[p] # NULL

SearchOn ==
  /\ pc = "search" /\ Earlier
  /\ p' = earlier[p]
  /\ UNCHANGED <<s, lists, frame, pc, fresh, world>>

Insert ==
  /\ pc = "search" /\ ~Earlier
  /\ IF earlier[p] # NULL THEN InsertAfter(fresh, p) ELSE InsertBefore(fresh, p)
  /\ s' = Started(s, frame[fresh].no)
  /\ pc' = "idle" /\ fresh' = NULL /\ p' = NULL
  /\ UNCHANGED <<last_frame, free_frames, heap, free, frame, world>>

-----------------------------------------------------------------------------
(* playout_get *)

FullScale == 268435456
dropable_threshold == FullScale \div 100

INT_MAX == 2147483647

\* since_last_step is an int that starts at its largest value.
Wrapped(n) == IF n = INT_MAX THEN (-INT_MAX) - 1 ELSE n + 1

Leaky(state, b) == state + (((IF b THEN FullScale ELSE 0) - state) \div 256)

\* The length of the buffer changes by n frames.
Resize(r, n) ==
  [r EXCEPT !.target_buffer_length = @ + n * FrameLen, !.latest_expected = @ + n * FrameLen,
            !.state_just_in_time = dropable_threshold, !.state_late = 0, !.since_last_step = 0,
            !.last_speech_sender_stamp = @ - n * r.last_speech_sender_len]

\* How late the frame came is taken into account, and the buffer resized.
Assess(r, f) ==
  LET stamp == frame[f].receiver_stamp
      expected == IF r.not_first THEN r.latest_expected ELSE stamp + r.min_length
      a == [r EXCEPT !.not_first = TRUE,
                     !.state_late = Leaky(@, stamp > expected),
                     !.state_just_in_time = Leaky(@, stamp > expected - FrameLen),
                     !.latest_expected = expected + FrameLen]
      late == a.state_late > dropable_threshold
      n == CASE late /\ a.since_last_step < 10 /\ a.target_buffer_length < a.max_length - 2 -> 3
             [] late /\ a.since_last_step >= 10 /\ a.target_buffer_length < a.max_length -> 1
             [] ~late /\ a.since_last_step > 500 /\ a.state_just_in_time < dropable_threshold
                /\ a.target_buffer_length > a.min_length -> -1
             [] OTHER -> 0
      b == IF n = 0 THEN a ELSE Resize(a, n)
  IN [b EXCEPT !.since_last_step = Wrapped(@)]

Tick == now' = IF now <= Horizon THEN now + FrameLen ELSE now

Advanced == [s EXCEPT !.last_speech_sender_stamp = @ + s.last_speech_sender_len]
\* Mutant: the time that the dropped frame did not take is gone.
RewoundNot(r) == r

Rewound(r) == [r EXCEPT !.last_speech_sender_stamp = @ - r.last_speech_sender_len]
Out(r) == [r EXCEPT !.frames_out = @ + 1]

\* What playout_get() looks at: the first frame that is due.
Due(stamp) == first_frame # NULL /\ stamp >= Stamp(frame[first_frame].no)
First == frame[first_frame].no

\* The first frame as it goes out, when the buffer has been resized.
Assessed == IF s.dynamic THEN Assess(Advanced, first_frame) ELSE Advanced

\* The program has not stopped asking.
Asked == pc = "idle" /\ (now <= Horizon \/ queue # <<>>)

\* Mutant: time stands still while nothing is due.
FillInRewound ==
  /\ Asked /\ ~Due(Advanced.last_speech_sender_stamp)
  /\ s' = Rewound(Advanced)
  /\ Tick
  /\ UNCHANGED <<lists, frame, search, put, last_played, aside>>

FillIn ==
  /\ Asked /\ ~Due(Advanced.last_speech_sender_stamp)
  /\ s' = Advanced
  /\ Tick
  /\ UNCHANGED <<lists, frame, search, put, last_played, aside>>

GetControl ==
  /\ Asked /\ Due(Advanced.last_speech_sender_stamp) /\ Type(First) # "SPEECH"
  /\ Dequeue
  /\ s' = Out(Rewound(Advanced))
  /\ Tick
  /\ UNCHANGED <<frame, search, put, last_played, aside>>

\* Mutant: one frame's time too lenient.
TooLateLenient(r) == Stamp(First) + FrameLen < r.last_speech_sender_stamp

TooLate(r) == Stamp(First) < r.last_speech_sender_stamp

GetSpeech ==
  /\ Asked /\ Due(Advanced.last_speech_sender_stamp) /\ Type(First) = "SPEECH"
  /\ ~TooLate(Assessed)
  /\ Dequeue
  /\ s' = Out([Assessed EXCEPT !.last_speech_sender_len = FrameLen])
  /\ last_played' = [stamp |-> Stamp(First), length |-> s.target_buffer_length]
  /\ Tick
  /\ UNCHANGED <<frame, search, put, aside>>

\* Mutant: the frame is not counted out.
DropUncounted ==
  /\ Asked /\ Due(Advanced.last_speech_sender_stamp) /\ Type(First) = "SPEECH"
  /\ TooLate(Assessed)
  /\ Dequeue
  /\ s' = Rewound(Assessed)
  /\ UNCHANGED <<frame, search, world>>

\* The program asks again at once.
Drop ==
  /\ Asked /\ Due(Advanced.last_speech_sender_stamp) /\ Type(First) = "SPEECH"
  /\ TooLate(Assessed)
  /\ Dequeue
  /\ s' = Out(Rewound(Assessed))
  /\ UNCHANGED <<frame, search, world>>

Get == FillIn \/ GetControl \/ GetSpeech \/ Drop

\* The program clears out the queue, and then frees the buffer or starts it again.
GetUnconditional ==
  /\ pc \in {"idle", "clearing"} /\ first_frame # NULL
  /\ Dequeue
  /\ pc' = "clearing" /\ aside' = aside + 1
  /\ UNCHANGED <<s, frame, fresh, p, now, put, last_played>>

-----------------------------------------------------------------------------
(* playout_restart, playout_new, playout_free *)

Fresh(l) ==
  [dynamic |-> l.min < l.max, min_length |-> l.min, max_length |-> IF l.max > l.min THEN l.max ELSE l.min,
   start |-> TRUE, frames_in |-> 0, frames_out |-> 0, frames_oos |-> 0,
   latest_expected |-> 0, last_speech_sender_stamp |-> 0, last_speech_sender_len |-> 0,
   not_first |-> FALSE, since_last_step |-> INT_MAX, state_just_in_time |-> 0, state_late |-> 0,
   target_buffer_length |-> ((IF l.max > l.min THEN l.max ELSE l.min) - l.min) \div 2]

Init ==
  /\ \E l \in Lengths : s = Fresh(l)
  /\ first_frame = NULL /\ last_frame = NULL /\ free_frames = NULL
  /\ later = [n \in Node |-> NULL] /\ earlier = [n \in Node |-> NULL]
  /\ frame = [n \in Node |-> [no |-> 1, receiver_stamp |-> 0, late |-> FALSE]]
  /\ heap = {} /\ queue = <<>> /\ free = <<>>
  /\ pc = "idle" /\ fresh = NULL /\ p = NULL
  /\ now = 0 /\ put = [no \in 1 .. Frames |-> 0] /\ last_played = [stamp |-> 0, length |-> 0] /\ aside = 0

\* "The buffer should be empty before you call this function."
Restart ==
  /\ pc = "clearing" /\ queue = <<>>
  /\ pc' = "idle"
  /\ \E l \in Lengths : s' = Fresh(l)
  /\ heap' = heap \ Range(free)
  /\ first_frame' = NULL /\ last_frame' = NULL /\ free_frames' = NULL
  /\ free' = <<>>
  /\ last_played' = [stamp |-> 0, length |-> 0] /\ aside' = 0
  /\ UNCHANGED <<later, earlier, frame, queue, fresh, p, now, put>>

Free ==
  /\ pc \in {"idle", "clearing"}
  /\ pc' = "gone"
  /\ heap' = heap \ (Range(queue) \cup Range(free))
  /\ queue' = <<>> /\ free' = <<>>
  /\ first_frame' = NULL /\ last_frame' = NULL /\ free_frames' = NULL
  /\ UNCHANGED <<s, later, earlier, frame, fresh, p, world>>

Next ==
  \/ \E no \in 1 .. Frames : Put(no) \/ PutFails(no)
  \/ SearchOn \/ Insert \/ Get \/ GetUnconditional \/ Restart \/ Free

Fairness == WF_vars(Get) /\ WF_vars(SearchOn \/ Insert)

Spec == Init /\ [][Next]_vars /\ Fairness

-----------------------------------------------------------------------------
(* Properties *)

\* Pointers point at frames or nowhere, the filters stay in their range, and the
\* search of playout_put() never walks off the list.
TypeOK ==
  /\ DOMAIN s = DOMAIN Fresh([min |-> 0, max |-> 0])
  /\ {s.state_late, s.state_just_in_time} \subseteq 0 .. FullScale
  /\ {first_frame, last_frame, free_frames} \subseteq Node \cup {NULL}
  /\ {later, earlier} \subseteq [Node -> Node \cup {NULL}]
  /\ frame \in [Node -> [no : 1 .. Frames, receiver_stamp : Nat, late : BOOLEAN]]
  /\ heap \subseteq Node
  /\ pc \in {"idle", "search", "clearing", "gone"}
  /\ IF pc = "search" THEN {fresh, p} \subseteq Node ELSE {fresh, p} = {NULL}

\* The list can be walked from either end, whatever was put in at the front, in
\* the middle or at the end and taken out, and so can the list of free frames.
Linked ==
  /\ first_frame = IF queue = <<>> THEN NULL ELSE queue[1]
  /\ last_frame = IF queue = <<>> THEN NULL ELSE queue[Len(queue)]
  /\ \A i \in DOMAIN queue :
       /\ later[queue[i]] = IF i = Len(queue) THEN NULL ELSE queue[i + 1]
       /\ earlier[queue[i]] = IF i = 1 THEN NULL ELSE queue[i - 1]
  /\ free_frames = IF free = <<>> THEN NULL ELSE free[1]
  /\ \A i \in DOMAIN free : later[free[i]] = IF i = Len(free) THEN NULL ELSE free[i + 1]

\* The frame that playout_put() is finding a place for.
Held == IF pc = "search" THEN {fresh} ELSE {}

Distinct(q) == \A i, j \in DOMAIN q : q[i] = q[j] => i = j

\* A frame that was allocated is queued, free or being put in, and only one of
\* them and once: none is lost to a restart after the queue was cleared out, and
\* none is handed out that is still queued.
NoLeak ==
  /\ Distinct(queue) /\ Distinct(free)
  /\ Range(queue) \cap Range(free) = {} /\ Held \cap (Range(queue) \cup Range(free)) = {}
  /\ heap = Range(queue) \cup Range(free) \cup Held

\* Every frame that was put in is still queued or being put in, or it was given
\* out once by playout_get(), cleared out, or refused for want of memory.
Accounted ==
  pc # "gone" =>
    s.frames_in = s.frames_out + Len(queue) + (IF pc = "search" THEN 1 ELSE 0) + aside

\* Speech is played in the sender's order, no frame twice, whatever the network
\* delivers late or again; a buffer that grows goes back, but by no more than it
\* has grown.
PlaysForward ==
  [][GetSpeech => \/ last_played.stamp = 0
                  \/ Stamp(First) + s'.target_buffer_length > last_played.stamp + last_played.length]_vars

\* A buffer of fixed length drops only a frame that came when its time was over,
\* or that was played before, as long as frames came in sequence (a frame that
\* did not can be put in the wrong place: see Sorted) and the length is a number
\* of whole frames (if it is not, every frame falls due when it is too late).
DroppedForCause ==
  [][Drop => \/ s.dynamic \/ s.frames_oos > 0 \/ s.min_length % FrameLen # 0
             \/ frame[first_frame].late \/ Stamp(First) <= last_played.stamp]_vars

Queued(no) == \E i \in DOMAIN queue : frame[queue[i]].no = no

\* Once speech has begun every frame comes out, though one with a later stamp
\* may be before it and the buffer may go back in time.
ComesOut == \A no \in 1 .. Frames : (Queued(no) /\ ~s.start) ~> (~Queued(no) \/ pc = "clearing")

\* "Frames are kept in a list, sorted by the timestamp assigned by the sender."
Sorted == \A i \in 1 .. Len(queue) - 1 : Stamp(frame[queue[i]].no) <= Stamp(frame[queue[i + 1]].no)
=============================================================================
