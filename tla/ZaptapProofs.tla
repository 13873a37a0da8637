---------------------------- MODULE ZaptapProofs ----------------------------
(* Proofs about the sampler, for every size of the buffers and any set of    *)
(* channels.                                                                  *)
EXTENDS Zaptap, TLAPS

\* A program that is back in read before the next swap: what user/sample.c is
\* with 125 ms to write 6000 bytes to a file.
PromptReader == Prompt

-----------------------------------------------------------------------------
(* The pointer                                                              *)

Recording == {"opened", "ready", "asleep", "awake", "copying"}

\* Sampling is on exactly while the program is between open and release, and
\* open prepares the pointer and the count before it turns sampling on.
Placed ==
  /\ TypeOK
  /\ sample_state # "idle" <=> pc \in Recording
  /\ pc \in {"open1", "open2"} => psample = [buffer |-> "ping", offset |-> 0]
  /\ pc = "open2" => samples = 0
  /\ WritesInPlace

\* The other buffer is a buffer, and another one.
LEMMA Others ==
  \A b \in Buffers : Other(b) \in Buffers /\ Other(b) # b /\ Other(Other(b)) = b /\ b # "idle"
  BY DEF Buffers, Other

\* Blank buffers have their type.
LEMMA BlankTyped == Blank \in [Slots -> Values]
  BY ZaptapAssumption DEF Blank, Values, Value

LEMMA PlacedInit == Init => Placed
<1> SUFFICES ASSUME Init PROVE Placed
  OBVIOUS
<1> USE ZaptapAssumption, BlankTyped DEF Init
<1>1. TypeOK
  BY DEF TypeOK, Buffers
<1> QED BY <1>1 DEF Placed, WritesInPlace, Recording

\* A sample that is stored has its type.
LEMMA StoredTyped ==
  ASSUME TypeOK, stamp < MaxStamp, NEW c \in Channels
  PROVE  Stored(c) \in [Buffers -> [Slots -> Values]]
<1> USE ZaptapAssumption
<1> DEFINE new(s) == IF s - psample.offset \in 0..2
                       THEN Value(s - psample.offset, stamp, c) ELSE mem[psample.buffer][s]
<1>1. ASSUME NEW s \in Slots PROVE new(s) \in Values
  <2>1. mem[psample.buffer][s] \in Values
    BY DEF TypeOK
  <2>2. CASE s - psample.offset \in 0..2
    BY <2>2 DEF Value, Values, TypeOK
  <2> QED BY <2>1, <2>2
<1>2. Stored(c) = [mem EXCEPT ![psample.buffer] = [s \in Slots |-> new(s)]]
  BY DEF Stored, TypeOK
<1> HIDE DEF new
<1>3. [s \in Slots |-> new(s)] \in [Slots -> Values]
  BY <1>1
<1> QED BY <1>2, <1>3 DEF TypeOK

\* An interrupt keeps the pointer in its place.
LEMMA PlacedInterrupt ==
  ASSUME Placed, NEW c \in Channels, Interrupt(c)
  PROVE  Placed'
<1> USE ZaptapAssumption
<1>1. /\ sample_state \in Buffers /\ pc \in Recording
      /\ psample = [buffer |-> sample_state, offset |-> 3 * samples]
      /\ samples \in 0..N - 1
  BY DEF Placed, TypeOK, Interrupt, Sampled, WritesInPlace
<1>2. mem' \in [Buffers -> [Slots -> Values]] /\ stamp' \in 0..MaxStamp
  <2>1. stamp < MaxStamp /\ mem' = Stored(c) /\ stamp' = stamp + 1 /\ TypeOK
    BY DEF Interrupt, Placed
  <2> QED BY <2>1, StoredTyped DEF TypeOK
<1>3. CASE samples + 1 >= N
  <2>1. /\ samples' = 0 /\ sample_state' = Other(sample_state)
        /\ psample' = [buffer |-> Other(sample_state), offset |-> 0]
        /\ pc' = IF pc = "asleep" THEN "awake" ELSE pc
    BY <1>3 DEF Interrupt, Swap, Wake
  <2>2. sample_state' \in Buffers /\ sample_state' # "idle" /\ pc' \in Recording
    BY <1>1, <2>1, Others DEF Recording
  <2>3. TypeOK'
    BY <1>2, <2>1, <2>2 DEF TypeOK, Interrupt, program, Placed, Recording
  <2> QED BY <2>1, <2>2, <2>3 DEF Placed, WritesInPlace, Recording
<1>4. CASE ~(samples + 1 >= N)
  <2>1. /\ samples' = samples + 1 /\ sample_state' = sample_state /\ pc' = pc
        /\ psample' = [psample EXCEPT !.offset = @ + 3]
    BY <1>4 DEF Interrupt, Advance
  <2>2. samples' \in 0..N - 1
    BY <1>1, <1>4, <2>1
  <2>3. psample' = [buffer |-> sample_state', offset |-> 3 * samples']
    BY <1>1, <2>1
  <2>4. TypeOK'
    BY <1>1, <1>2, <2>1, <2>2, <2>3 DEF TypeOK, Interrupt, program, Placed
  <2> QED BY <1>1, <2>1, <2>3, <2>4 DEF Placed, WritesInPlace, Recording
<1> QED BY <1>3, <1>4

\* Every step keeps the pointer in its place.
LEMMA PlacedStep == Placed /\ [Next]_vars => Placed'
<1> SUFFICES ASSUME Placed, [Next]_vars PROVE Placed'
  OBVIOUS
<1> USE ZaptapAssumption DEF Placed, WritesInPlace, TypeOK, Recording
<1>1. ASSUME NEW c \in Channels, Interrupt(c) PROVE Placed'
  BY <1>1, PlacedInterrupt
<1>2. CASE Open1
  BY <1>2 DEF Open1, program, Buffers
<1>3. CASE Open2
  BY <1>3 DEF Open2, program
<1>4. CASE Open3
  BY <1>4 DEF Open3, Buffers
<1>5. ASSUME NEW c \in Channels, SetChannel(c) PROVE Placed'
  BY <1>5 DEF SetChannel, interrupted, program
<1>6. CASE Sleep
  BY <1>6 DEF Sleep, interrupted, program
<1>7. CASE Choose
  BY <1>7 DEF Choose, interrupted, Buffers
<1>8. CASE Copy
  BY <1>8 DEF Copy, interrupted, Slots
<1>9. CASE Return
  BY <1>9 DEF Return, interrupted
<1>10. CASE Release1
  BY <1>10 DEF Release1, program, Buffers
<1>11. CASE Release2
  BY <1>11 DEF Release2, program
<1>12. CASE UNCHANGED vars
  BY <1>12 DEF vars
<1> QED BY <1>1, <1>2, <1>3, <1>4, <1>5, <1>6, <1>7, <1>8, <1>9, <1>10, <1>11, <1>12
        DEF Next, Open, Read, Release

LEMMA PlacedAlways == Spec => []Placed
  BY PlacedInit, PlacedStep, PTL DEF Spec

\* Type correctness, the bounds of the pointer included.
THEOREM TypeCorrect == Spec => []TypeOK
<1>1. Placed => TypeOK
  BY DEF Placed
<1> QED BY <1>1, PlacedAlways, PTL

\* The interrupt of sample_echo_before and sample_echo_after writes in place,
\* however the program is scheduled and whenever it opens and closes the device.
THEOREM PointerInPlace == Spec => []WritesInPlace
<1>1. Placed => WritesInPlace
  BY DEF Placed
<1> QED BY <1>1, PlacedAlways, PTL

-----------------------------------------------------------------------------
(* The recording                                                            *)

\* The first top slots of f hold the block that begins with stamp start.
Holds(f, top, start) ==
  \A s \in Slots : s < top =>
    /\ f[s].signal = s % 3 /\ f[s].n = start + (s \div 3)
    /\ start >= N => f[s].ch = sample_ch

\* The stamp of the first sample of the block that is being filled.
first == stamp - samples

\* The buffer being filled holds what was sampled; when the program waits for
\* that buffer it is the one due, and when it copies the other one is.
Blocks ==
  /\ sample_state # "idle" => Holds(mem[sample_state], 3 * samples, first)
  /\ pc \in {"opened", "ready", "asleep"} => first = due
  /\ pc = "opened" => due = 0
  /\ pc \in {"awake", "copying"} =>
       first = due + N /\ Holds(mem[Other(sample_state)], 3 * N, due)
  /\ pc = "copying" =>
       /\ pread = Other(sample_state)
       /\ \A s \in Slots : s < k => buf[s] = mem[pread][s]

RecordingInv == Placed /\ Blocks

LEMMA BlocksInit == Init => Blocks
  BY DEF Init, Blocks

\* Where a slot belongs to.
LEMMA SlotOf ==
  ASSUME NEW m \in Nat, NEW s \in Int, s - 3 * m \in 0..2
  PROVE  s % 3 = s - 3 * m /\ s \div 3 = m
  OBVIOUS

\* What an interrupt does to the two buffers.
LEMMA InterruptStores ==
  ASSUME Placed, Blocks, NEW c \in Channels, Interrupt(c)
  PROVE  /\ Holds(mem'[sample_state], 3 * (samples + 1), first)
         /\ mem'[Other(sample_state)] = mem[Other(sample_state)]
<1> USE ZaptapAssumption
<1>1. /\ sample_state \in Buffers /\ samples \in 0..N - 1 /\ c = sample_ch
      /\ psample = [buffer |-> sample_state, offset |-> 3 * samples]
      /\ mem \in [Buffers -> [Slots -> Values]] /\ stamp \in Nat
  BY DEF Placed, TypeOK, Interrupt, Sampled, WritesInPlace
<1>2. mem' = Stored(c)
  BY DEF Interrupt
<1>3. mem'[Other(sample_state)] = mem[Other(sample_state)]
  <2>1. Other(sample_state) \in Buffers /\ Other(sample_state) # sample_state
    BY <1>1, Others
  <2> QED BY <2>1, <1>1, <1>2 DEF Stored
<1>4. \A s \in Slots : mem'[sample_state][s] =
        IF s - 3 * samples \in 0..2 THEN Value(s - 3 * samples, stamp, c)
                                    ELSE mem[sample_state][s]
  BY <1>1, <1>2 DEF Stored
<1>5. ASSUME NEW s \in Slots, s < 3 * (samples + 1)
      PROVE  /\ mem'[sample_state][s].signal = s % 3
             /\ mem'[sample_state][s].n = first + (s \div 3)
             /\ first >= N => mem'[sample_state][s].ch = sample_ch
  <2>1. CASE s < 3 * samples
    <3>1. ~(s - 3 * samples \in 0..2)
      BY <2>1, <1>1 DEF Slots
    <3>2. mem'[sample_state][s] = mem[sample_state][s]
      BY <3>1, <1>4
    <3>3. Holds(mem[sample_state], 3 * samples, first)
      BY <1>1, Others DEF Blocks
    <3> QED BY <2>1, <3>2, <3>3 DEF Holds
  <2>2. CASE ~(s < 3 * samples)
    <3>1. s - 3 * samples \in 0..2 /\ samples \in Nat /\ s \in Int
      BY <2>2, <1>1, <1>5 DEF Slots
    <3>2. mem'[sample_state][s] = Value(s - 3 * samples, stamp, c)
      BY <3>1, <1>4
    <3>3. s % 3 = s - 3 * samples /\ s \div 3 = samples
      BY <3>1, SlotOf
    <3>4. stamp = first + samples
      BY <1>1 DEF first
    <3> QED BY <3>2, <3>3, <3>4, <1>1 DEF Value
  <2> QED BY <2>1, <2>2
<1>6. Holds(mem'[sample_state], 3 * (samples + 1), first)
  BY <1>5 DEF Holds
<1> QED BY <1>3, <1>6

\* An interrupt fills the block on, or completes it for a program that waits.
LEMMA BlocksInterrupt ==
  ASSUME PromptReader, Placed, Blocks, NEW c \in Channels, Interrupt(c)
  PROVE  Blocks'
<1> USE ZaptapAssumption
<1>1. /\ sample_state \in Buffers /\ samples \in 0..N - 1 /\ stamp \in Nat /\ due \in Nat
      /\ sample_state # "idle" /\ InTime
      /\ stamp' = stamp + 1 /\ sample_ch' = sample_ch
      /\ pread' = pread /\ k' = k /\ buf' = buf /\ due' = due
  BY DEF Placed, TypeOK, Interrupt, Sampled, PromptReader, program
<1>2. /\ Holds(mem'[sample_state], 3 * (samples + 1), first)
      /\ mem'[Other(sample_state)] = mem[Other(sample_state)]
  BY InterruptStores
<1>3. CASE samples + 1 >= N
  <2>1. pc = "asleep" /\ samples + 1 = N /\ first = due
    BY <1>1, <1>3 DEF InTime, Blocks
  <2>2. /\ samples' = 0 /\ sample_state' = Other(sample_state) /\ pc' = "awake"
    BY <1>3, <2>1 DEF Interrupt, Swap, Wake
  <2>3. Other(sample_state') = sample_state
    BY <2>2, <1>1, Others
  <2>4. first' = due' + N
    BY <1>1, <2>1, <2>2 DEF first
  <2>5. Holds(mem'[sample_state], 3 * N, due)
    BY <1>2, <2>1
  <2>6. Holds(mem[Other(sample_state)], 3 * N, due)' <=>
          Holds(mem'[sample_state], 3 * N, due)
    BY <1>1, <2>3 DEF Holds
  <2>7. Holds(mem[sample_state], 3 * samples, first)'
    BY <2>2 DEF Holds, Slots
  <2> QED BY <2>2, <2>4, <2>5, <2>6, <2>7 DEF Blocks
<1>4. CASE ~(samples + 1 >= N)
  <2>1. samples' = samples + 1 /\ sample_state' = sample_state /\ pc' = pc
    BY <1>4 DEF Interrupt, Advance
  <2>2. first' = first
    BY <1>1, <2>1 DEF first
  <2>3. Holds(mem[sample_state], 3 * samples, first)'
    BY <1>1, <1>2, <2>1, <2>2 DEF Holds
  <2>4. pc \in {"awake", "copying"} => Holds(mem[Other(sample_state)], 3 * N, due)'
    BY <1>1, <1>2, <2>1 DEF Holds, Blocks
  <2> QED BY <1>1, <1>2, <2>1, <2>2, <2>3, <2>4 DEF Blocks
<1> QED BY <1>3, <1>4

\* Every step of a prompt reader keeps the blocks.
LEMMA BlocksStep == PromptReader /\ Placed /\ Blocks /\ [Next]_vars => Blocks'
<1> SUFFICES ASSUME PromptReader, Placed, Blocks, [Next]_vars PROVE Blocks'
  OBVIOUS
<1> USE ZaptapAssumption
<1>1. ASSUME NEW c \in Channels, Interrupt(c) PROVE Blocks'
  BY <1>1, BlocksInterrupt
<1>2. CASE Open1
  BY <1>2 DEF Open1, program, Placed, Blocks, Recording
<1>3. CASE Open2
  BY <1>3 DEF Open2, program, Placed, Blocks, Recording
<1>4. CASE Open3
  <2>1. /\ samples = 0 /\ samples' = 0 /\ stamp' = 0 /\ due' = 0 /\ pc' = "opened"
    BY <1>4 DEF Open3, Placed
  <2>2. Holds(mem[sample_state], 3 * samples, first)'
    BY <2>1 DEF Holds, Slots
  <2> QED BY <2>1, <2>2 DEF Blocks, first
<1>5. ASSUME NEW c \in Channels, SetChannel(c) PROVE Blocks'
  <2>1. first = 0 /\ first' = first /\ due' = due /\ pc = "opened" /\ pc' = "ready"
    BY <1>5 DEF SetChannel, interrupted, program, Blocks, first
  <2>2. sample_state # "idle" => Holds(mem[sample_state], 3 * samples, first)
    BY DEF Blocks
  <2>3. ~(first >= N)
    BY <2>1
  <2>4. (sample_state # "idle" => Holds(mem[sample_state], 3 * samples, first))'
    BY <1>5, <2>1, <2>2, <2>3 DEF SetChannel, interrupted, Holds
  <2> QED BY <2>1, <2>4 DEF Blocks
<1>6. CASE Sleep
  BY <1>6 DEF Sleep, interrupted, program, Blocks, first, Holds
<1>7. CASE Choose
  <2>1. sample_state \in Buffers
    BY <1>7 DEF Choose, Placed, TypeOK, Recording
  <2>2. pread' = Other(sample_state) /\ k' = 0
    BY <1>7, <2>1 DEF Choose, Other, Buffers
  <2> QED BY <1>7, <2>2 DEF Choose, interrupted, Blocks, first, Holds, Slots
<1>8. CASE Copy
  <2>1. \A s \in Slots : s < k' => buf'[s] = mem'[pread'][s]
    BY <1>8 DEF Copy, interrupted, Blocks, Placed, TypeOK, Slots
  <2> QED BY <1>8, <2>1 DEF Copy, interrupted, Blocks, first, Holds
<1>9. CASE Return
  BY <1>9 DEF Return, interrupted, Blocks, first, Holds, Placed, TypeOK
<1>10. CASE Release1
  BY <1>10 DEF Release1, program, Blocks
<1>11. CASE Release2
  BY <1>11 DEF Release2, program, Placed, Blocks, Recording
<1>12. CASE UNCHANGED vars
  BY <1>12 DEF vars, Blocks, first, Holds
<1> QED BY <1>1, <1>2, <1>3, <1>4, <1>5, <1>6, <1>7, <1>8, <1>9, <1>10, <1>11, <1>12
        DEF Next, Open, Read, Release

\* A reader that is back before the next swap gets a faithful recording: every
\* block whole, in sequence and, after the first, of the channel asked for.
THEOREM RecordingFaithful == ASSUME PromptReader PROVE Spec => []Faithful
<1>1. Init => RecordingInv
  BY PlacedInit, BlocksInit DEF RecordingInv
<1>2. RecordingInv /\ [Next]_vars => RecordingInv'
  BY PlacedStep, BlocksStep DEF RecordingInv
<1>3. RecordingInv => Faithful
  <2> SUFFICES ASSUME RecordingInv, pc = "copying", k = 3 * N, NEW s \in Slots
               PROVE  /\ buf[s].signal = s % 3 /\ buf[s].n = due + (s \div 3)
                      /\ due >= N => buf[s].ch = sample_ch
    BY DEF Faithful
  <2>1. s < 3 * N
    BY ZaptapAssumption DEF Slots
  <2>2. buf[s] = mem[Other(sample_state)][s]
    BY <2>1 DEF RecordingInv, Blocks
  <2>3. Holds(mem[Other(sample_state)], 3 * N, due)
    BY DEF RecordingInv, Blocks
  <2> QED BY <2>1, <2>2, <2>3 DEF Holds
<1> QED BY <1>1, <1>2, <1>3, PTL DEF Spec
=============================================================================
