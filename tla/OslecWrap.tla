------------------------------ MODULE OslecWrap ------------------------------
(***************************************************************************)
(* The kernel wrapper of Oslec, src/kernel/oslec_wrap.c: echo cancellers   *)
(* are created and destroyed by one user thread per channel, run by an     *)
(* interrupt handler per channel, and inspected and controlled by the      *)
(* readers and writers of /proc/oslec. The diagnostic globals mon_ec,      *)
(* num_ec and len_ec are protected by oslec_lock; the cycle counters are   *)
(* written by the interrupt handler without any lock.                      *)
(*                                                                         *)
(* A step is one assignment to shared state with the test that guards it,  *)
(* so that handlers on several CPUs interleave inside each other's         *)
(* critical sections wherever the lock does not forbid it. Zaptel is the   *)
(* caller: it installs a canceller in a channel, and removes it, under the *)
(* channel lock that the interrupt handler holds.                          *)
(***************************************************************************)
EXTENDS Integers, FiniteSets

CONSTANTS
  Chan,            \* zaptel channels
  Proc,            \* threads that open files of /proc/oslec
  Ec,              \* addresses malloc can return for an echo_can_state_t
  NULL,
  Lens,            \* tap lengths zaptel asks for
  Modes,           \* values of adaption_mode
  DefaultMode,     \* ADAPTION | NLP | CLIP | TX_HPF | RX_HPF
  Costs,           \* cycles one call of echo_can_update can take
  Uptime,          \* a reading of cycles() that no start was subtracted from
  TC,              \* the averager's time constant, 1 << LTC
  MayFail,         \* whether malloc can fail
  ProcDuringInit   \* whether /proc/oslec is opened while the module loads

ASSUME NamesAssumption ==
  /\ IsFiniteSet(Chan)
  /\ Chan \cap Proc = {}
  /\ NULL \notin Chan \cup Proc \cup Ec
ASSUME ValuesAssumption ==
  /\ Lens \subseteq Nat \ {0}
  /\ DefaultMode \in Modes
  /\ Costs \subseteq Nat
  /\ Uptime \in Nat
  /\ TC \in Nat \ {0}
  /\ MayFail \in BOOLEAN
  /\ ProcDuringInit \in BOOLEAN

VARIABLES
  module,          \* "loading", "published" (the /proc entries exist), "loaded"
  lock,            \* the thread that holds oslec_lock, or NULL
  mon_ec, num_ec, len_ec,
  cycles_last, cycles_average, cycles_worst,
  taps,            \* per canceller: its length, 0 when the memory is free
  mode,            \* per canceller: adaption_mode
  pc,              \* per channel: where its user thread is
  handle,          \* per channel: ec->ec of the wrapper structure it owns
  len,             \* per channel: argument of oslec_echo_can_create
  isr,             \* per channel: where its interrupt handler is
  start,           \* per channel: whether the handler sampled start_cycles
  ppc              \* per thread of Proc: where it is

monitor == <<mon_ec, num_ec, len_ec>>
cycles == <<cycles_last, cycles_average, cycles_worst>>
heap == <<taps, mode>>
app == <<pc, handle, len>>
handler == <<isr, start>>
vars == <<module, lock, monitor, cycles, heap, app, handler, ppc>>

-----------------------------------------------------------------------------
\* The user thread of a channel holds oslec_lock in these places.
AppLocked == {"count", "monitor", "length", "leave", "unmonitor", "release", "unlock", "stuck"}
\* The canceller of the channel is one the wrapper has registered.
Registered == {"length", "leave", "created", "up", "detached", "unmonitor"}
\* num_ec counts the canceller of the channel.
Counted == {"monitor", "release", "stuck"} \cup Registered
AppPlaces == {"idle", "alloc", "oops"} \cup AppLocked \cup Counted
\* The handler is between the two comparisons with mon_ec, or past the second.
Recording == {"last", "average", "worst"}
IsrPlaces == {"idle", "process", "recheck", "hpf", "oops"} \cup Recording
ProcPlaces == {"idle", "check", "use", "leave"}

Live(e) == e \in Ec /\ taps[e] # 0

Init ==
  /\ module = "loading"
  /\ lock = NULL
  /\ mon_ec = NULL /\ num_ec = 0 /\ len_ec = 0
  /\ cycles_last = 0 /\ cycles_average = 0 /\ cycles_worst = 0
  /\ taps = [e \in Ec |-> 0]
  /\ mode = [e \in Ec |-> DefaultMode]
  /\ pc = [c \in Chan |-> "idle"]
  /\ handle = [c \in Chan |-> NULL]
  /\ len = [c \in Chan |-> 0]
  /\ isr = [c \in Chan |-> "idle"]
  /\ start = [c \in Chan |-> FALSE]
  /\ ppc = [p \in Proc |-> "idle"]

-----------------------------------------------------------------------------
(* init_oslec *)

\* The /proc entries become visible; the lock is initialised afterwards.
InitPublish ==
  /\ module = "loading"
  /\ module' = "published"
  /\ UNCHANGED <<lock, monitor, cycles, heap, app, handler, ppc>>

InitLock ==
  /\ module = "published"
  /\ module' = "loaded"
  /\ lock' = NULL
  /\ UNCHANGED <<monitor, cycles, heap, app, handler, ppc>>

-----------------------------------------------------------------------------
(* oslec_echo_can_create *)

\* malloc of the wrapper and echo_can_create(), outside oslec_lock: the
\* address is any free one, so that of a destroyed canceller can come back.
CreateAlloc(c) ==
  /\ module = "loaded" /\ pc[c] = "idle"
  /\ \E n \in Lens :
       /\ len' = [len EXCEPT ![c] = n]
       /\ \E e \in Ec :
            /\ taps[e] = 0
            /\ taps' = [taps EXCEPT ![e] = n]
            /\ mode' = [mode EXCEPT ![e] = DefaultMode]
            /\ handle' = [handle EXCEPT ![c] = e]
  /\ pc' = [pc EXCEPT ![c] = "alloc"]
  /\ UNCHANGED <<module, lock, monitor, cycles, handler, ppc>>

\* echo_can_create() runs out of memory and returns NULL, which nobody tests.
CreateAllocNull(c) ==
  /\ MayFail /\ module = "loaded" /\ pc[c] = "idle"
  /\ \E n \in Lens : len' = [len EXCEPT ![c] = n]
  /\ pc' = [pc EXCEPT ![c] = "alloc"]
  /\ UNCHANGED <<module, lock, monitor, cycles, heap, handle, handler, ppc>>

\* The malloc of the wrapper structure fails and its result is dereferenced.
CreateAllocOops(c) ==
  /\ MayFail /\ module = "loaded" /\ pc[c] = "idle"
  /\ pc' = [pc EXCEPT ![c] = "oops"]
  /\ UNCHANGED <<module, lock, monitor, cycles, heap, handle, len, handler, ppc>>

AppLock(c, from, to) ==
  /\ pc[c] = from /\ lock = NULL
  /\ lock' = c
  /\ pc' = [pc EXCEPT ![c] = to]
  /\ UNCHANGED <<module, monitor, cycles, heap, handle, len, handler, ppc>>

CreateLock(c) == AppLock(c, "alloc", "count")

CreateCount(c) ==
  /\ pc[c] = "count"
  /\ num_ec' = num_ec + 1
  /\ pc' = [pc EXCEPT ![c] = "monitor"]
  /\ UNCHANGED <<module, lock, mon_ec, len_ec, cycles, heap, handle, len, handler, ppc>>

\* Mutant: the braces of the if are missing, len_ec is always assigned.
CreateMonitorNoBraces(c) ==
  /\ pc[c] = "monitor"
  /\ mon_ec' = IF mon_ec = NULL THEN handle[c] ELSE mon_ec
  /\ pc' = [pc EXCEPT ![c] = "length"]
  /\ UNCHANGED <<module, lock, num_ec, len_ec, cycles, heap, handle, len, handler, ppc>>

\* Mutant: the newest canceller is monitored.
CreateMonitorNewest(c) ==
  /\ pc[c] = "monitor"
  /\ mon_ec' = handle[c]
  /\ pc' = [pc EXCEPT ![c] = "length"]
  /\ UNCHANGED <<module, lock, num_ec, len_ec, cycles, heap, handle, len, handler, ppc>>

\* The first canceller created while none is monitored is monitored.
CreateMonitor(c) ==
  /\ pc[c] = "monitor"
  /\ IF mon_ec = NULL
       THEN mon_ec' = handle[c] /\ pc' = [pc EXCEPT ![c] = "length"]
       ELSE mon_ec' = mon_ec /\ pc' = [pc EXCEPT ![c] = "leave"]
  /\ UNCHANGED <<module, lock, num_ec, len_ec, cycles, heap, handle, len, handler, ppc>>

CreateLength(c) ==
  /\ pc[c] = "length"
  /\ len_ec' = len[c]
  /\ pc' = [pc EXCEPT ![c] = "leave"]
  /\ UNCHANGED <<module, lock, mon_ec, num_ec, cycles, heap, handle, len, handler, ppc>>

CreateUnlock(c) ==
  /\ pc[c] = "leave"
  /\ lock' = NULL
  /\ pc' = [pc EXCEPT ![c] = "created"]
  /\ UNCHANGED <<module, monitor, cycles, heap, handle, len, handler, ppc>>

-----------------------------------------------------------------------------
(* Zaptel: chan->ec is set, and cleared before it is freed, under the       *)
(* channel lock, which the interrupt handler of the channel holds.          *)

Attach(c) ==
  /\ pc[c] = "created"
  /\ pc' = [pc EXCEPT ![c] = "up"]
  /\ UNCHANGED <<module, lock, monitor, cycles, heap, handle, len, handler, ppc>>

Detach(c) ==
  /\ pc[c] = "up" /\ isr[c] = "idle"
  /\ pc' = [pc EXCEPT ![c] = "detached"]
  /\ UNCHANGED <<module, lock, monitor, cycles, heap, handle, len, handler, ppc>>

-----------------------------------------------------------------------------
(* oslec_echo_can_free *)

FreeLock(c) == AppLock(c, "detached", "unmonitor")

\* Mutant: mon_ec is left pointing to the canceller.
FreeUnmonitorMissing(c) ==
  /\ pc[c] = "unmonitor"
  /\ pc' = [pc EXCEPT ![c] = "release"]
  /\ UNCHANGED <<module, lock, monitor, cycles, heap, handle, len, handler, ppc>>

\* Mutant: monitoring stops whatever canceller is destroyed.
FreeUnmonitorAny(c) ==
  /\ pc[c] = "unmonitor"
  /\ mon_ec' = NULL
  /\ pc' = [pc EXCEPT ![c] = "release"]
  /\ UNCHANGED <<module, lock, num_ec, len_ec, cycles, heap, handle, len, handler, ppc>>

FreeUnmonitor(c) ==
  /\ pc[c] = "unmonitor"
  /\ mon_ec' = IF mon_ec = handle[c] THEN NULL ELSE mon_ec
  /\ pc' = [pc EXCEPT ![c] = "release"]
  /\ UNCHANGED <<module, lock, num_ec, len_ec, cycles, heap, handle, len, handler, ppc>>

\* echo_can_free() dereferences its argument: without a canceller the thread
\* dies here, holding the lock.
FreeRelease(c) ==
  /\ pc[c] = "release"
  /\ IF handle[c] = NULL
       THEN /\ pc' = [pc EXCEPT ![c] = "stuck"]
            /\ UNCHANGED <<num_ec, taps, handle>>
       ELSE /\ pc' = [pc EXCEPT ![c] = "unlock"]
            /\ num_ec' = num_ec - 1
            /\ taps' = [taps EXCEPT ![handle[c]] = 0]
            /\ handle' = [handle EXCEPT ![c] = NULL]
  /\ UNCHANGED <<module, lock, mon_ec, len_ec, cycles, mode, len, handler, ppc>>

FreeUnlock(c) ==
  /\ pc[c] = "unlock"
  /\ lock' = NULL
  /\ pc' = [pc EXCEPT ![c] = "idle"]
  /\ UNCHANGED <<module, monitor, cycles, heap, handle, len, handler, ppc>>

-----------------------------------------------------------------------------
(* oslec_echo_can_update and oslec_hpf_tx, in the interrupt handler, with   *)
(* the channel lock held and without oslec_lock                             *)

UpdateStart(c) ==
  /\ pc[c] = "up" /\ isr[c] = "idle"
  /\ start' = [start EXCEPT ![c] = (handle[c] = mon_ec)]
  /\ isr' = [isr EXCEPT ![c] = "process"]
  /\ UNCHANGED <<module, lock, monitor, cycles, heap, app, ppc>>

\* echo_can_update() dereferences ec->ec whatever it is.
UpdateProcess(c) ==
  /\ isr[c] = "process"
  /\ isr' = [isr EXCEPT ![c] = IF handle[c] = NULL THEN "oops" ELSE "recheck"]
  /\ UNCHANGED <<module, lock, monitor, cycles, heap, app, start, ppc>>

UpdateRecheck(c) ==
  /\ isr[c] = "recheck"
  /\ isr' = [isr EXCEPT ![c] = IF handle[c] = mon_ec THEN "last" ELSE "idle"]
  /\ UNCHANGED <<module, lock, monitor, cycles, heap, app, start, ppc>>

RecordLast(c) ==
  /\ isr[c] = "last"
  /\ \E n \in Costs : cycles_last' = IF start[c] THEN n ELSE Uptime
  /\ isr' = [isr EXCEPT ![c] = "average"]
  /\ UNCHANGED <<module, lock, monitor, cycles_average, cycles_worst, heap, app, start, ppc>>

\* The right shift of a negative difference rounds towards minus infinity.
RecordAverage(c) ==
  /\ isr[c] = "average"
  /\ cycles_average' = cycles_average + ((cycles_last - cycles_average) \div TC)
  /\ isr' = [isr EXCEPT ![c] = "worst"]
  /\ UNCHANGED <<module, lock, monitor, cycles_last, cycles_worst, heap, app, start, ppc>>

RecordWorst(c) ==
  /\ isr[c] = "worst"
  /\ cycles_worst' = IF cycles_last > cycles_worst THEN cycles_last ELSE cycles_worst
  /\ isr' = [isr EXCEPT ![c] = "idle"]
  /\ UNCHANGED <<module, lock, monitor, cycles_last, cycles_average, heap, app, start, ppc>>

\* Only the wrapper pointer is tested for NULL, never the canceller in it.
HpfTxStart(c) ==
  /\ pc[c] = "up" /\ isr[c] = "idle"
  /\ isr' = [isr EXCEPT ![c] = "hpf"]
  /\ UNCHANGED <<module, lock, monitor, cycles, heap, app, start, ppc>>

HpfTx(c) ==
  /\ isr[c] = "hpf"
  /\ isr' = [isr EXCEPT ![c] = IF handle[c] = NULL THEN "oops" ELSE "idle"]
  /\ UNCHANGED <<module, lock, monitor, cycles, heap, app, start, ppc>>

-----------------------------------------------------------------------------
(* proc_read_info, proc_read_mode, proc_write_mode, proc_write_reset        *)

ProcLock(p) ==
  /\ module = "loaded" \/ (ProcDuringInit /\ module = "published")
  /\ ppc[p] = "idle" /\ lock = NULL
  /\ lock' = p
  /\ ppc' = [ppc EXCEPT ![p] = "check"]
  /\ UNCHANGED <<module, monitor, cycles, heap, app, handler>>

\* Mutant: the early return forgets spin_unlock_irqrestore.
ProcCheckLocked(p) ==
  /\ ppc[p] = "check"
  /\ ppc' = [ppc EXCEPT ![p] = IF mon_ec = NULL THEN "idle" ELSE "use"]
  /\ UNCHANGED <<module, lock, monitor, cycles, heap, app, handler>>

ProcCheck(p) ==
  /\ ppc[p] = "check"
  /\ ppc' = [ppc EXCEPT ![p] = IF mon_ec = NULL THEN "leave" ELSE "use"]
  /\ UNCHANGED <<module, lock, monitor, cycles, heap, app, handler>>

\* The readers, and the reset, whose effect is inside the canceller.
ProcReadOrReset(p) ==
  /\ ppc[p] = "use"
  /\ ppc' = [ppc EXCEPT ![p] = "leave"]
  /\ UNCHANGED <<module, lock, monitor, cycles, heap, app, handler>>

ProcWriteMode(p) ==
  /\ ppc[p] = "use"
  /\ \E m \in Modes : mode' = [mode EXCEPT ![mon_ec] = m]
  /\ ppc' = [ppc EXCEPT ![p] = "leave"]
  /\ UNCHANGED <<module, lock, monitor, cycles, taps, app, handler>>

ProcUnlock(p) ==
  /\ ppc[p] = "leave"
  /\ lock' = NULL
  /\ ppc' = [ppc EXCEPT ![p] = "idle"]
  /\ UNCHANGED <<module, monitor, cycles, heap, app, handler>>

-----------------------------------------------------------------------------
App(c) ==
  \/ CreateAlloc(c) \/ CreateAllocNull(c) \/ CreateAllocOops(c)
  \/ CreateLock(c) \/ CreateCount(c) \/ CreateMonitor(c) \/ CreateLength(c)
  \/ CreateUnlock(c) \/ Attach(c) \/ Detach(c)
  \/ FreeLock(c) \/ FreeUnmonitor(c) \/ FreeRelease(c) \/ FreeUnlock(c)

Isr(c) ==
  \/ UpdateStart(c) \/ UpdateProcess(c) \/ UpdateRecheck(c)
  \/ RecordLast(c) \/ RecordAverage(c) \/ RecordWorst(c)
  \/ HpfTxStart(c) \/ HpfTx(c)

ProcFs(p) ==
  \/ ProcLock(p) \/ ProcCheck(p) \/ ProcReadOrReset(p) \/ ProcWriteMode(p)
  \/ ProcUnlock(p)

Next ==
  \/ InitPublish \/ InitLock
  \/ \E c \in Chan : App(c) \/ Isr(c)
  \/ \E p \in Proc : ProcFs(p)

Spec == Init /\ [][Next]_vars

\* A thread that holds the lock runs with interrupts off and is not
\* preempted, so it goes on; nothing makes a thread take the lock.
LockedStep(c) ==
  \/ CreateCount(c) \/ CreateMonitor(c) \/ CreateLength(c) \/ CreateUnlock(c)
  \/ FreeUnmonitor(c) \/ FreeRelease(c) \/ FreeUnlock(c)

FairSpec ==
  /\ Spec
  /\ \A c \in Chan : WF_vars(LockedStep(c))
  /\ \A p \in Proc : WF_vars(ProcCheck(p) \/ ProcReadOrReset(p) \/ ProcWriteMode(p) \/ ProcUnlock(p))

-----------------------------------------------------------------------------
\* Every variable has its type.
TypeOK ==
  /\ module \in {"loading", "published", "loaded"}
  /\ lock \in Chan \cup Proc \cup {NULL}
  /\ mon_ec \in Ec \cup {NULL} /\ num_ec \in Nat /\ len_ec \in Nat
  /\ cycles_last \in Nat /\ cycles_average \in Nat /\ cycles_worst \in Nat
  /\ taps \in [Ec -> Lens \cup {0}]
  /\ mode \in [Ec -> Modes]
  /\ pc \in [Chan -> AppPlaces]
  /\ handle \in [Chan -> Ec \cup {NULL}]
  /\ len \in [Chan -> Lens \cup {0}]
  /\ isr \in [Chan -> IsrPlaces]
  /\ start \in [Chan -> BOOLEAN]
  /\ ppc \in [Proc -> ProcPlaces]

Inside == {c \in Chan : pc[c] \in AppLocked} \cup {p \in Proc : ppc[p] # "idle"}

\* oslec_lock "locks [...] any access to the global mon_ec pointer and
\* related globals" (oslec_wrap.c 128-134): of create, free and the /proc
\* handlers at most one is inside its critical section.
MutualExclusion == \A s, t \in Inside : s = t

\* Thread safety issues 2 to 4 (oslec_wrap.c 142-166): no /proc handler, no
\* update and no transmit filter works on a canceller that was destroyed.
NoUseAfterFree ==
  /\ \A p \in Proc : ppc[p] = "use" => Live(mon_ec)
  /\ \A c \in Chan : isr[c] \in {"process", "recheck", "hpf"} \cup Recording =>
       handle[c] = NULL \/ Live(handle[c])

\* What mon_ec points to is always the live canceller of a channel that was
\* registered and has not begun to be released.
MonitoredIsRegistered ==
  mon_ec # NULL =>
    \E c \in Chan : pc[c] \in Registered /\ handle[c] = mon_ec /\ Live(mon_ec)

\* The report of proc_read_info is about one canceller: the length it shows
\* is that of the canceller whose state it shows, and that one is counted.
ReportConsistent ==
  \A p \in Proc : ppc[p] = "use" => len_ec = taps[mon_ec] /\ num_ec >= 1

\* num_ec is the number of cancellers that were registered and not released.
CountMatches == num_ec = Cardinality({c \in Chan : pc[c] \in Counted})

\* "there will only ever be one writer to the cycles_* globals"
\* (oslec_wrap.c 217-222), and what it writes was measured by itself: mon_ec
\* did not come to point to its canceller after the first comparison.
CyclesOneWriter ==
  \A c \in Chan : isr[c] \in Recording =>
    start[c] /\ \A d \in Chan : isr[d] \in Recording => d = c

\* The worst case is the worst: while no handler is between its three
\* writes, neither the last nor the average measurement exceeds it.
CyclesBounded ==
  (\A c \in Chan : isr[c] \notin Recording) =>
    cycles_last <= cycles_worst /\ cycles_average <= cycles_worst

\* Every return of create, free and the /proc handlers releases oslec_lock; a
\* thread that dies in echo_can_free, freeing the canceller that could not be
\* created, is the one that can not.
LockReleased == []<>(lock = NULL \/ (lock \in Chan /\ pc[lock] = "stuck"))

\* With its steps taken apart, the wrapper still monitors one call at a time,
\* chosen when it comes up, and controls no other.
calls == {handle[c] : c \in {d \in Chan : pc[d] \in Registered}} \ {NULL}
Abstract == INSTANCE EcMonitor WITH
              calls <- calls, monitored <- mon_ec, mode <- [e \in calls |-> mode[e]]
ImplementsMonitor == Abstract!Spec
=============================================================================
