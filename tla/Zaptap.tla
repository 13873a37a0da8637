-------------------------------- MODULE Zaptap --------------------------------
(***************************************************************************)
(* The sampler of zaptel's echo canceller, /dev/sample                     *)
(* (src/kernel/zaptel-1.4.12.1.patch), and the program that uses it        *)
(* (src/user/sample.c). Interrupts multiplex the transmitted, received and *)
(* cancelled signal of one channel into one of two buffers, and swap them  *)
(* and wake the program when one is full.                                  *)
(*                                                                         *)
(* One program on one processor: an interrupt is one action, and can come  *)
(* between any two steps of the program. A stored sample is abstracted to  *)
(* which signal it is of, when it was taken and from which channel.        *)
(***************************************************************************)
EXTENDS Integers

CONSTANTS
  N,            \* SAMPLE_BUF_SZ
  Channels,
  Prompt,       \* whether the program is back in read before the next swap
  MaxStamp      \* bound on the samples of a recording for model checking

ASSUME ZaptapAssumption ==
  /\ N \in Nat \ {0} /\ Channels \subseteq Nat /\ 1 \in Channels
  /\ Prompt \in BOOLEAN /\ MaxStamp \in Nat

Buffers == {"ping", "pong"}
Slots == 0..3 * N - 1
Value(signal, n, ch) == [signal |-> signal, n |-> n, ch |-> ch]
Values == [signal : 0..2, n : 0..MaxStamp, ch : Channels \cup {0}]
Blank == [s \in Slots |-> Value(0, 0, 0)]
Other(b) == IF b = "ping" THEN "pong" ELSE "ping"

VARIABLES
  sample_state,      \* "idle", or the buffer that is being filled
  samples, sample_ch,
  psample,           \* psample: a buffer and an offset into it
  mem,               \* contents of the buffers
  pc,                \* where the program is
  pread, k,          \* of sample_read: the buffer, and the next sample to copy
  buf,               \* buf of the program
  stamp,             \* history: samples taken since the device was opened
  due                \* history: the stamp the next block should begin with

interrupted == <<sample_state, samples, psample, mem, stamp>>
program == <<pread, k, buf, due>>
vars == <<sample_state, samples, sample_ch, psample, mem, pc, pread, k, buf, stamp, due>>

\* psample, which is NULL at first, is set before it is used.
Init ==
  /\ sample_state = "idle" /\ samples = 0 /\ sample_ch = 1
  /\ psample = [buffer |-> "ping", offset |-> 0]
  /\ mem = [b \in Buffers |-> Blank]
  /\ pc = "closed"
  /\ pread = "ping" /\ k = 0 /\ buf = Blank
  /\ stamp = 0 /\ due = 0

-----------------------------------------------------------------------------
(* The interrupt: __zt_ec_chunk, one sample                                 *)

\* Three stores through psample, those past the end of the buffer going astray.
Stored(c) ==
  [mem EXCEPT ![psample.buffer] =
    [s \in Slots |-> IF s - psample.offset \in 0..2
                       THEN Value(s - psample.offset, stamp, c) ELSE @[s]]]

\* Mutant: the wait queue is not woken.
WakeNobody == UNCHANGED pc

Wake == pc' = IF pc = "asleep" THEN "awake" ELSE pc

Swap ==
  /\ samples' = 0
  /\ sample_state' = Other(sample_state)
  /\ psample' = [buffer |-> Other(sample_state), offset |-> 0]

Advance ==
  /\ samples' = samples + 1
  /\ psample' = [psample EXCEPT !.offset = @ + 3]
  /\ UNCHANGED <<sample_state, pc>>

Sampled(c) == sample_state # "idle" /\ c = sample_ch

\* The program is where the next swap should find it.
InTime == samples + 1 >= N => pc = "asleep"

\* An interrupt for another channel, or with sampling off, changes nothing here.
Interrupt(c) ==
  /\ Sampled(c)
  /\ Prompt => InTime
  /\ stamp < MaxStamp
  /\ mem' = Stored(c)
  /\ stamp' = stamp + 1
  /\ IF samples + 1 >= N THEN Swap /\ Wake ELSE Advance
  /\ UNCHANGED <<sample_ch, program>>

-----------------------------------------------------------------------------
(* The program: open, set the channel, read again and again, close          *)

\* Mutant: sampling goes on where the last recording stopped.
Open1KeepsPointer ==
  /\ pc = "closed" /\ pc' = "open1"
  /\ UNCHANGED <<interrupted, sample_ch, program>>

Open1 ==
  /\ pc = "closed" /\ pc' = "open1"
  /\ psample' = [buffer |-> "ping", offset |-> 0]
  /\ UNCHANGED <<sample_state, samples, sample_ch, mem, program, stamp>>

Open2 ==
  /\ pc = "open1" /\ pc' = "open2"
  /\ samples' = 0
  /\ UNCHANGED <<sample_state, sample_ch, psample, mem, program, stamp>>

Open3 ==
  /\ pc = "open2" /\ pc' = "opened"
  /\ sample_state' = "ping"
  /\ stamp' = 0 /\ due' = 0
  /\ UNCHANGED <<samples, sample_ch, psample, mem, pread, k, buf>>

SetChannel(c) ==
  /\ pc = "opened" /\ pc' = "ready"
  /\ sample_ch' = c
  /\ UNCHANGED <<interrupted, program>>

Sleep ==
  /\ pc = "ready" /\ pc' = "asleep"
  /\ UNCHANGED <<interrupted, sample_ch, program>>

\* Mutant: the buffer that is being filled.
ChooseFilling ==
  /\ pc = "awake" /\ pc' = "copying"
  /\ pread' = IF sample_state = "ping" THEN "ping" ELSE "pong"
  /\ k' = 0
  /\ UNCHANGED <<interrupted, sample_ch, buf, due>>

\* "we read alternate buffer just after transition"
Choose ==
  /\ pc = "awake" /\ pc' = "copying"
  /\ pread' = IF sample_state = "ping" THEN "pong" ELSE "ping"
  /\ k' = 0
  /\ UNCHANGED <<interrupted, sample_ch, buf, due>>

\* copy_to_user, which is interrupted like any other code.
Copy ==
  /\ pc = "copying" /\ k < 3 * N
  /\ buf' = [buf EXCEPT ![k] = mem[pread][k]]
  /\ k' = k + 1
  /\ UNCHANGED <<interrupted, sample_ch, pc, pread, due>>

\* The program demultiplexes the block and writes it to its files.
Return ==
  /\ pc = "copying" /\ k = 3 * N /\ pc' = "ready"
  /\ due' = due + N
  /\ UNCHANGED <<interrupted, sample_ch, pread, k, buf>>

\* The program closes the device, or a signal ends it in its sleep.
Release1 ==
  /\ pc \in {"ready", "asleep"} /\ pc' = "release1"
  /\ sample_state' = "idle"
  /\ UNCHANGED <<samples, sample_ch, psample, mem, program, stamp>>

Release2 ==
  /\ pc = "release1" /\ pc' = "closed"
  /\ samples' = 0
  /\ UNCHANGED <<sample_state, sample_ch, psample, mem, program, stamp>>

Open == Open1 \/ Open2 \/ Open3
Read == Sleep \/ Choose \/ Copy \/ Return
Release == Release1 \/ Release2

Next ==
  \/ \E c \in Channels : Interrupt(c)
  \/ Open \/ (\E c \in Channels : SetChannel(c)) \/ Read \/ Release
Spec == Init /\ [][Next]_vars

\* Every channel is served in every interrupt, and a program that can run does.
FairSpec ==
  /\ Spec
  /\ \A c \in Channels : WF_vars(Interrupt(c))
  /\ WF_vars(Choose \/ Copy \/ Return)

-----------------------------------------------------------------------------
\* Every variable has its type.
TypeOK ==
  /\ sample_state \in Buffers \cup {"idle"}
  /\ samples \in 0..N - 1 /\ sample_ch \in Channels
  /\ psample \in [buffer : Buffers, offset : 0..3 * N]
  /\ mem \in [Buffers -> [Slots -> Values]]
  /\ pc \in {"closed", "open1", "open2", "opened", "ready", "asleep", "awake",
             "copying", "release1"}
  /\ pread \in Buffers /\ k \in 0..3 * N /\ buf \in [Slots -> Values]
  /\ stamp \in 0..MaxStamp /\ due \in Nat

\* While it is sampling the interrupt writes where the count of samples says,
\* inside the buffer that is being filled, whenever the device was opened,
\* closed or read (patch 109-152, 234-253).
WritesInPlace ==
  sample_state # "idle" =>
    psample = [buffer |-> sample_state, offset |-> 3 * samples]

\* What a read returns is the block that follows the one before: all three
\* signals in their places, no sample missing, repeated or torn, and after the
\* first block all of the channel that was asked for (README.txt 539-549).
Faithful ==
  pc = "copying" /\ k = 3 * N =>
    \A s \in Slots :
      /\ buf[s].signal = s % 3 /\ buf[s].n = due + (s \div 3)
      /\ due >= N => buf[s].ch = sample_ch

\* A read that waits is woken, as long as the bound of the model leaves room for
\* the rest of a block.
ReadReturns == pc = "asleep" /\ stamp + N <= MaxStamp ~> pc # "asleep"
=============================================================================
