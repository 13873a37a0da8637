--------------------------- MODULE OslecWrapProofs ---------------------------
(***************************************************************************)
(* Proofs about the kernel wrapper, for any number of channels, /proc      *)
(* threads and addresses, when /proc is not opened before the module has   *)
(* initialised its lock.                                                   *)
(***************************************************************************)
EXTENDS OslecWrap, FiniteSetTheorems, TLAPS

\* /proc is opened only after the module has initialised its lock.
LoadedFirst == ProcDuringInit = FALSE

-----------------------------------------------------------------------------
\* Types of the variables, without the sign of num_ec, which only the count
\* of the cancellers gives.
Types ==
  /\ module \in {"loading", "published", "loaded"}
  /\ lock \in Chan \cup Proc \cup {NULL}
  /\ mon_ec \in Ec \cup {NULL} /\ num_ec \in Int /\ len_ec \in Nat
  /\ cycles_last \in Nat /\ cycles_average \in Nat /\ cycles_worst \in Nat
  /\ taps \in [Ec -> Lens \cup {0}]
  /\ mode \in [Ec -> Modes]
  /\ pc \in [Chan -> AppPlaces]
  /\ handle \in [Chan -> Ec \cup {NULL}]
  /\ len \in [Chan -> Lens \cup {0}]
  /\ isr \in [Chan -> IsrPlaces]
  /\ start \in [Chan -> BOOLEAN]
  /\ ppc \in [Proc -> ProcPlaces]

\* oslec_lock is held by exactly the thread that is inside.
LockInv ==
  /\ \A c \in Chan : pc[c] \in AppLocked <=> lock = c
  /\ \A p \in Proc : ppc[p] # "idle" <=> lock = p
  /\ module # "loaded" => lock = NULL /\ \A c \in Chan : pc[c] = "idle"

\* A canceller belongs to one channel, from its creation to its release.
HeapInv ==
  /\ \A c \in Chan : handle[c] # NULL => taps[handle[c]] # 0 /\ len[c] = taps[handle[c]]
  /\ \A c, d \in Chan : handle[c] # NULL /\ handle[c] = handle[d] => c = d
  /\ \A c \in Chan : pc[c] \in {"idle", "oops", "unlock", "stuck"} => handle[c] = NULL
  /\ \A c \in Chan : isr[c] # "idle" => pc[c] = "up"

\* mon_ec is the canceller of a registered channel, and len_ec its length
\* but for the moment between the two assignments.
MonInv ==
  /\ mon_ec # NULL => \E c \in Chan : pc[c] \in Registered /\ handle[c] = mon_ec
  /\ \A c \in Chan : pc[c] = "length" => handle[c] = mon_ec
  /\ mon_ec # NULL /\ (\A c \in Chan : pc[c] # "length") => len_ec = taps[mon_ec]
  /\ \A p \in Proc : ppc[p] = "use" => mon_ec # NULL

-----------------------------------------------------------------------------
\* The averager moves the average towards the last measurement, not past it.
LEMMA AverageBetween ==
  ASSUME NEW a \in Nat, NEW l \in Nat, NEW k \in Nat \ {0}
  PROVE  LET b == a + ((l - a) \div k) IN
           b \in Nat /\ (b <= a \/ b <= l)
<1> DEFINE q == (l - a) \div k
<1>1. q \in Int /\ k * q <= l - a /\ l - a < k * q + k
  BY SMT
<1>2. q + a >= 0
  <2>1. SUFFICES ASSUME q + 1 <= -a PROVE FALSE
    BY <1>1
  <2>2. k * (q + 1) <= k * (-a)
    BY <1>1, <2>1
  <2>3. k * (-a) <= -a
    BY SMT
  <2>4. k * (q + 1) = k * q + k
    BY <1>1
  <2> QED BY <1>1, <2>2, <2>3, <2>4
<1>3. CASE l <= a
  <2>1. q <= 0
    BY <1>1, <1>3
  <2> QED BY <1>1, <1>2, <2>1
<1>4. CASE a < l
  <2>1. q <= l - a
    <3>1. SUFFICES ASSUME q > l - a PROVE FALSE
      BY <1>1
    <3>2. k * q >= q
      BY <1>1, <1>4, <3>1
    <3> QED BY <1>1, <3>1, <3>2
  <2> QED BY <1>1, <1>2, <2>1
<1> QED BY <1>3, <1>4

\* A step keeps every variable in its type.
LEMMA TypesStep ==
  Types /\ [Next]_vars => Types'
<1> SUFFICES ASSUME Types, [Next]_vars PROVE Types'
  OBVIOUS
<1> USE NamesAssumption, ValuesAssumption
      DEF Types, AppPlaces, AppLocked, Counted, Registered, IsrPlaces, Recording, ProcPlaces, vars, monitor, cycles, heap, app, handler
<1>1. CASE InitPublish
  BY <1>1 DEF InitPublish
<1>2. CASE InitLock
  BY <1>2 DEF InitLock
<1>3. ASSUME NEW c \in Chan, App(c) PROVE Types'
  <2>1. CASE CreateAlloc(c)
    BY <2>1 DEF CreateAlloc
  <2>2. CASE CreateAllocNull(c)
    BY <2>2 DEF CreateAllocNull
  <2>3. CASE CreateAllocOops(c)
    BY <2>3 DEF CreateAllocOops
  <2>4. CASE CreateLock(c)
    BY <2>4 DEF AppLock, CreateLock
  <2>5. CASE CreateCount(c)
    BY <2>5 DEF CreateCount
  <2>6. CASE CreateMonitor(c)
    BY <2>6 DEF CreateMonitor
  <2>7. CASE CreateLength(c)
    BY <2>7 DEF CreateLength
  <2>8. CASE CreateUnlock(c)
    BY <2>8 DEF CreateUnlock
  <2>9. CASE Attach(c)
    BY <2>9 DEF Attach
  <2>10. CASE Detach(c)
    BY <2>10 DEF Detach
  <2>11. CASE FreeLock(c)
    BY <2>11 DEF AppLock, FreeLock
  <2>12. CASE FreeUnmonitor(c)
    BY <2>12 DEF FreeUnmonitor
  <2>13. CASE FreeRelease(c)
    BY <2>13 DEF FreeRelease
  <2>14. CASE FreeUnlock(c)
    BY <2>14 DEF FreeUnlock
  <2> QED BY <1>3, <2>1, <2>2, <2>3, <2>4, <2>5, <2>6, <2>7, <2>8, <2>9, <2>10, <2>11, <2>12, <2>13, <2>14 DEF App
<1>4. ASSUME NEW c \in Chan, Isr(c) PROVE Types'
  <2>1. CASE UpdateStart(c)
    BY <2>1 DEF UpdateStart
  <2>2. CASE UpdateProcess(c)
    BY <2>2 DEF UpdateProcess
  <2>3. CASE UpdateRecheck(c)
    BY <2>3 DEF UpdateRecheck
  <2>4. CASE RecordLast(c)
    BY <2>4 DEF RecordLast
  <2>5. CASE RecordAverage(c)
    <3>1. cycles_average' \in Nat
      BY <2>5, AverageBetween DEF RecordAverage
    <3> QED BY <2>5, <3>1 DEF RecordAverage
  <2>6. CASE RecordWorst(c)
    BY <2>6 DEF RecordWorst
  <2>7. CASE HpfTxStart(c)
    BY <2>7 DEF HpfTxStart
  <2>8. CASE HpfTx(c)
    BY <2>8 DEF HpfTx
  <2> QED BY <1>4, <2>1, <2>2, <2>3, <2>4, <2>5, <2>6, <2>7, <2>8 DEF Isr
<1>5. ASSUME NEW p \in Proc, ProcFs(p) PROVE Types'
  <2>1. CASE ProcLock(p)
    BY <2>1 DEF ProcLock
  <2>2. CASE ProcCheck(p)
    BY <2>2 DEF ProcCheck
  <2>3. CASE ProcReadOrReset(p)
    BY <2>3 DEF ProcReadOrReset
  <2>4. CASE ProcWriteMode(p)
    <3>1. PICK m \in Modes : mode' = [mode EXCEPT ![mon_ec] = m]
      BY <2>4 DEF ProcWriteMode
    <3>2. mode' \in [Ec -> Modes]
      BY <3>1
    <3> QED BY <2>4, <3>2 DEF ProcWriteMode
  <2>5. CASE ProcUnlock(p)
    BY <2>5 DEF ProcUnlock
  <2> QED BY <1>5, <2>1, <2>2, <2>3, <2>4, <2>5 DEF ProcFs
<1>6. CASE UNCHANGED vars
  BY <1>6
<1> QED BY <1>1, <1>2, <1>3, <1>4, <1>5, <1>6 DEF Next

\* A step keeps the lock with the thread that is inside.
LEMMA LockStep ==
  LoadedFirst /\ Types /\ LockInv /\ [Next]_vars => LockInv'
<1> SUFFICES ASSUME LoadedFirst, Types, LockInv, [Next]_vars PROVE LockInv'
  OBVIOUS
<1> USE NamesAssumption, ValuesAssumption
      DEF LoadedFirst, Types, LockInv, AppPlaces, AppLocked, Counted, Registered, ProcPlaces, vars, monitor, cycles, heap, app, handler
<1>1. CASE InitPublish
  BY <1>1 DEF InitPublish
<1>2. CASE InitLock
  BY <1>2 DEF InitLock
<1>3. ASSUME NEW c \in Chan, App(c) PROVE LockInv'
  <2>1. CASE CreateAlloc(c)
    BY <2>1 DEF CreateAlloc
  <2>2. CASE CreateAllocNull(c)
    BY <2>2 DEF CreateAllocNull
  <2>3. CASE CreateAllocOops(c)
    BY <2>3 DEF CreateAllocOops
  <2>4. CASE CreateLock(c)
    <3>1. \A d \in Chan : pc'[d] \in AppLocked <=> lock' = d
      BY <2>4 DEF AppLock, CreateLock
    <3>2. \A p \in Proc : ppc'[p] # "idle" <=> lock' = p
      BY <2>4 DEF AppLock, CreateLock
    <3>3. module' = "loaded"
      BY <2>4 DEF AppLock, CreateLock
    <3> QED BY <3>1, <3>2, <3>3
  <2>5. CASE CreateCount(c)
    BY <2>5 DEF CreateCount
  <2>6. CASE CreateMonitor(c)
    BY <2>6 DEF CreateMonitor
  <2>7. CASE CreateLength(c)
    BY <2>7 DEF CreateLength
  <2>8. CASE CreateUnlock(c)
    BY <2>8 DEF CreateUnlock
  <2>9. CASE Attach(c)
    BY <2>9 DEF Attach
  <2>10. CASE Detach(c)
    BY <2>10 DEF Detach
  <2>11. CASE FreeLock(c)
    <3>1. \A d \in Chan : pc'[d] \in AppLocked <=> lock' = d
      BY <2>11 DEF AppLock, FreeLock
    <3>2. \A p \in Proc : ppc'[p] # "idle" <=> lock' = p
      BY <2>11 DEF AppLock, FreeLock
    <3>3. module' = "loaded"
      BY <2>11 DEF AppLock, FreeLock
    <3> QED BY <3>1, <3>2, <3>3
  <2>12. CASE FreeUnmonitor(c)
    BY <2>12 DEF FreeUnmonitor
  <2>13. CASE FreeRelease(c)
    BY <2>13 DEF FreeRelease
  <2>14. CASE FreeUnlock(c)
    BY <2>14 DEF FreeUnlock
  <2> QED BY <1>3, <2>1, <2>2, <2>3, <2>4, <2>5, <2>6, <2>7, <2>8, <2>9, <2>10, <2>11, <2>12, <2>13, <2>14 DEF App
<1>4. ASSUME NEW c \in Chan, Isr(c) PROVE LockInv'
  <2>1. CASE UpdateStart(c)
    BY <2>1 DEF UpdateStart
  <2>2. CASE UpdateProcess(c)
    BY <2>2 DEF UpdateProcess
  <2>3. CASE UpdateRecheck(c)
    BY <2>3 DEF UpdateRecheck
  <2>4. CASE RecordLast(c)
    BY <2>4 DEF RecordLast
  <2>5. CASE RecordAverage(c)
    BY <2>5 DEF RecordAverage
  <2>6. CASE RecordWorst(c)
    BY <2>6 DEF RecordWorst
  <2>7. CASE HpfTxStart(c)
    BY <2>7 DEF HpfTxStart
  <2>8. CASE HpfTx(c)
    BY <2>8 DEF HpfTx
  <2> QED BY <1>4, <2>1, <2>2, <2>3, <2>4, <2>5, <2>6, <2>7, <2>8 DEF Isr
<1>5. ASSUME NEW p \in Proc, ProcFs(p) PROVE LockInv'
  <2>1. CASE ProcLock(p)
    BY <2>1 DEF ProcLock
  <2>2. CASE ProcCheck(p)
    BY <2>2 DEF ProcCheck
  <2>3. CASE ProcReadOrReset(p)
    BY <2>3 DEF ProcReadOrReset
  <2>4. CASE ProcWriteMode(p)
    BY <2>4 DEF ProcWriteMode
  <2>5. CASE ProcUnlock(p)
    BY <2>5 DEF ProcUnlock
  <2> QED BY <1>5, <2>1, <2>2, <2>3, <2>4, <2>5 DEF ProcFs
<1>6. CASE UNCHANGED vars
  BY <1>6
<1> QED BY <1>1, <1>2, <1>3, <1>4, <1>5, <1>6 DEF Next

\* A step keeps every canceller with one channel.
LEMMA HeapStep ==
  Types /\ HeapInv /\ [Next]_vars => HeapInv'
<1> SUFFICES ASSUME Types, HeapInv, [Next]_vars PROVE HeapInv'
  OBVIOUS
<1> USE NamesAssumption, ValuesAssumption
      DEF Types, HeapInv, AppPlaces, AppLocked, Counted, Registered, IsrPlaces, Recording, vars, monitor, cycles, heap, app, handler
<1>1. CASE InitPublish
  BY <1>1 DEF InitPublish
<1>2. CASE InitLock
  BY <1>2 DEF InitLock
<1>3. ASSUME NEW c \in Chan, App(c) PROVE HeapInv'
  <2>1. CASE CreateAlloc(c)
    BY <2>1 DEF CreateAlloc
  <2>2. CASE CreateAllocNull(c)
    BY <2>2 DEF CreateAllocNull
  <2>3. CASE CreateAllocOops(c)
    BY <2>3 DEF CreateAllocOops
  <2>4. CASE CreateLock(c)
    BY <2>4 DEF AppLock, CreateLock
  <2>5. CASE CreateCount(c)
    BY <2>5 DEF CreateCount
  <2>6. CASE CreateMonitor(c)
    BY <2>6 DEF CreateMonitor
  <2>7. CASE CreateLength(c)
    BY <2>7 DEF CreateLength
  <2>8. CASE CreateUnlock(c)
    BY <2>8 DEF CreateUnlock
  <2>9. CASE Attach(c)
    BY <2>9 DEF Attach
  <2>10. CASE Detach(c)
    BY <2>10 DEF Detach
  <2>11. CASE FreeLock(c)
    BY <2>11 DEF AppLock, FreeLock
  <2>12. CASE FreeUnmonitor(c)
    BY <2>12 DEF FreeUnmonitor
  <2>13. CASE FreeRelease(c)
    BY <2>13 DEF FreeRelease
  <2>14. CASE FreeUnlock(c)
    BY <2>14 DEF FreeUnlock
  <2> QED BY <1>3, <2>1, <2>2, <2>3, <2>4, <2>5, <2>6, <2>7, <2>8, <2>9, <2>10, <2>11, <2>12, <2>13, <2>14 DEF App
<1>4. ASSUME NEW c \in Chan, Isr(c) PROVE HeapInv'
  <2>1. CASE UpdateStart(c)
    BY <2>1 DEF UpdateStart
  <2>2. CASE UpdateProcess(c)
    BY <2>2 DEF UpdateProcess
  <2>3. CASE UpdateRecheck(c)
    BY <2>3 DEF UpdateRecheck
  <2>4. CASE RecordLast(c)
    BY <2>4 DEF RecordLast
  <2>5. CASE RecordAverage(c)
    BY <2>5 DEF RecordAverage
  <2>6. CASE RecordWorst(c)
    BY <2>6 DEF RecordWorst
  <2>7. CASE HpfTxStart(c)
    BY <2>7 DEF HpfTxStart
  <2>8. CASE HpfTx(c)
    BY <2>8 DEF HpfTx
  <2> QED BY <1>4, <2>1, <2>2, <2>3, <2>4, <2>5, <2>6, <2>7, <2>8 DEF Isr
<1>5. ASSUME NEW p \in Proc, ProcFs(p) PROVE HeapInv'
  <2>1. CASE ProcLock(p)
    BY <2>1 DEF ProcLock
  <2>2. CASE ProcCheck(p)
    BY <2>2 DEF ProcCheck
  <2>3. CASE ProcReadOrReset(p)
    BY <2>3 DEF ProcReadOrReset
  <2>4. CASE ProcWriteMode(p)
    BY <2>4 DEF ProcWriteMode
  <2>5. CASE ProcUnlock(p)
    BY <2>5 DEF ProcUnlock
  <2> QED BY <1>5, <2>1, <2>2, <2>3, <2>4, <2>5 DEF ProcFs
<1>6. CASE UNCHANGED vars
  BY <1>6
<1> QED BY <1>1, <1>2, <1>3, <1>4, <1>5, <1>6 DEF Next

\* A step keeps mon_ec and len_ec with a registered canceller.
LEMMA MonStep ==
  Types /\ LockInv /\ HeapInv /\ MonInv /\ [Next]_vars => MonInv'
<1> SUFFICES ASSUME Types, LockInv, HeapInv, MonInv, [Next]_vars PROVE MonInv'
  OBVIOUS
<1> USE NamesAssumption, ValuesAssumption
      DEF Types, LockInv, HeapInv, MonInv, AppPlaces, AppLocked, Counted, Registered, ProcPlaces, vars, monitor, cycles, heap, app, handler
<1>1. CASE InitPublish
  BY <1>1 DEF InitPublish
<1>2. CASE InitLock
  BY <1>2 DEF InitLock
<1>3. ASSUME NEW c \in Chan, App(c) PROVE MonInv'
  <2>1. CASE CreateAlloc(c)
    BY <2>1 DEF CreateAlloc
  <2>2. CASE CreateAllocNull(c)
    BY <2>2 DEF CreateAllocNull
  <2>3. CASE CreateAllocOops(c)
    BY <2>3 DEF CreateAllocOops
  <2>4. CASE CreateLock(c)
    BY <2>4 DEF AppLock, CreateLock
  <2>5. CASE CreateCount(c)
    BY <2>5 DEF CreateCount
  <2>6. CASE CreateMonitor(c)
    BY <2>6 DEF CreateMonitor
  <2>7. CASE CreateLength(c)
    BY <2>7 DEF CreateLength
  <2>8. CASE CreateUnlock(c)
    BY <2>8 DEF CreateUnlock
  <2>9. CASE Attach(c)
    BY <2>9 DEF Attach
  <2>10. CASE Detach(c)
    BY <2>10 DEF Detach
  <2>11. CASE FreeLock(c)
    BY <2>11 DEF AppLock, FreeLock
  <2>12. CASE FreeUnmonitor(c)
    BY <2>12 DEF FreeUnmonitor
  <2>13. CASE FreeRelease(c)
    BY <2>13 DEF FreeRelease
  <2>14. CASE FreeUnlock(c)
    BY <2>14 DEF FreeUnlock
  <2> QED BY <1>3, <2>1, <2>2, <2>3, <2>4, <2>5, <2>6, <2>7, <2>8, <2>9, <2>10, <2>11, <2>12, <2>13, <2>14 DEF App
<1>4. ASSUME NEW c \in Chan, Isr(c) PROVE MonInv'
  <2>1. CASE UpdateStart(c)
    BY <2>1 DEF UpdateStart
  <2>2. CASE UpdateProcess(c)
    BY <2>2 DEF UpdateProcess
  <2>3. CASE UpdateRecheck(c)
    BY <2>3 DEF UpdateRecheck
  <2>4. CASE RecordLast(c)
    BY <2>4 DEF RecordLast
  <2>5. CASE RecordAverage(c)
    BY <2>5 DEF RecordAverage
  <2>6. CASE RecordWorst(c)
    BY <2>6 DEF RecordWorst
  <2>7. CASE HpfTxStart(c)
    BY <2>7 DEF HpfTxStart
  <2>8. CASE HpfTx(c)
    BY <2>8 DEF HpfTx
  <2> QED BY <1>4, <2>1, <2>2, <2>3, <2>4, <2>5, <2>6, <2>7, <2>8 DEF Isr
<1>5. ASSUME NEW p \in Proc, ProcFs(p) PROVE MonInv'
  <2>1. CASE ProcLock(p)
    BY <2>1 DEF ProcLock
  <2>2. CASE ProcCheck(p)
    BY <2>2 DEF ProcCheck
  <2>3. CASE ProcReadOrReset(p)
    BY <2>3 DEF ProcReadOrReset
  <2>4. CASE ProcWriteMode(p)
    BY <2>4 DEF ProcWriteMode
  <2>5. CASE ProcUnlock(p)
    BY <2>5 DEF ProcUnlock
  <2> QED BY <1>5, <2>1, <2>2, <2>3, <2>4, <2>5 DEF ProcFs
<1>6. CASE UNCHANGED vars
  BY <1>6
<1> QED BY <1>1, <1>2, <1>3, <1>4, <1>5, <1>6 DEF Next

\* The handlers of channels whose canceller is monitored, and no others, are
\* past a comparison that succeeded; and where the three counters are then.
CyclesInv ==
  /\ \A c \in Chan : isr[c] \in {"process", "recheck"} /\ handle[c] # NULL =>
       (start[c] <=> handle[c] = mon_ec)
  /\ \A c \in Chan : isr[c] = "recheck" => handle[c] # NULL
  /\ \A c \in Chan : isr[c] \in Recording =>
       start[c] /\ handle[c] # NULL /\ handle[c] = mon_ec
  /\ (\A c \in Chan : isr[c] \notin {"average", "worst"}) => cycles_last <= cycles_worst
  /\ (\A c \in Chan : isr[c] # "worst") => cycles_average <= cycles_worst
  /\ cycles_average <= cycles_worst \/ cycles_average <= cycles_last

CountedChannels == {c \in Chan : pc[c] \in Counted}

\* Until it is registered a canceller has the mode it was created with.
ModeInv ==
  \A c \in Chan : pc[c] \in {"alloc", "count", "monitor"} /\ handle[c] # NULL =>
    mode[handle[c]] = DefaultMode

\* A step keeps the cycle counters with one writer.
LEMMA CyclesStep ==
  Types /\ HeapInv /\ CyclesInv /\ [Next]_vars => CyclesInv'
<1> SUFFICES ASSUME Types, HeapInv, CyclesInv, [Next]_vars PROVE CyclesInv'
  OBVIOUS
<1> USE NamesAssumption, ValuesAssumption
      DEF Types, HeapInv, CyclesInv, AppPlaces, AppLocked, Counted, Registered, IsrPlaces, Recording, vars, monitor, cycles, heap, app, handler
<1>1. CASE InitPublish
  BY <1>1 DEF InitPublish
<1>2. CASE InitLock
  BY <1>2 DEF InitLock
<1>3. ASSUME NEW c \in Chan, App(c) PROVE CyclesInv'
  <2>1. CASE CreateAlloc(c)
    BY <2>1 DEF CreateAlloc
  <2>2. CASE CreateAllocNull(c)
    BY <2>2 DEF CreateAllocNull
  <2>3. CASE CreateAllocOops(c)
    BY <2>3 DEF CreateAllocOops
  <2>4. CASE CreateLock(c)
    BY <2>4 DEF AppLock, CreateLock
  <2>5. CASE CreateCount(c)
    BY <2>5 DEF CreateCount
  <2>6. CASE CreateMonitor(c)
    BY <2>6 DEF CreateMonitor
  <2>7. CASE CreateLength(c)
    BY <2>7 DEF CreateLength
  <2>8. CASE CreateUnlock(c)
    BY <2>8 DEF CreateUnlock
  <2>9. CASE Attach(c)
    BY <2>9 DEF Attach
  <2>10. CASE Detach(c)
    BY <2>10 DEF Detach
  <2>11. CASE FreeLock(c)
    BY <2>11 DEF AppLock, FreeLock
  <2>12. CASE FreeUnmonitor(c)
    BY <2>12 DEF FreeUnmonitor
  <2>13. CASE FreeRelease(c)
    BY <2>13 DEF FreeRelease
  <2>14. CASE FreeUnlock(c)
    BY <2>14 DEF FreeUnlock
  <2> QED BY <1>3, <2>1, <2>2, <2>3, <2>4, <2>5, <2>6, <2>7, <2>8, <2>9, <2>10, <2>11, <2>12, <2>13, <2>14 DEF App
<1>4. ASSUME NEW c \in Chan, Isr(c) PROVE CyclesInv'
  <2>1. CASE UpdateStart(c)
    <3>1. start'[c] <=> handle[c] = mon_ec
      <4>1. start' = [start EXCEPT ![c] = (handle[c] = mon_ec)]
        BY <2>1 DEF UpdateStart
      <4>2. DOMAIN start = Chan
        BY DEF Types, TypeOK
      <4> QED BY <4>1, <4>2
    <3>2. \A d \in Chan : d # c => start'[d] = start[d]
      BY <2>1 DEF UpdateStart
    <3>3. isr' = [isr EXCEPT ![c] = "process"] /\ UNCHANGED <<monitor, cycles, app>>
      BY <2>1 DEF UpdateStart
    <3>4. \A d \in Chan : isr'[d] \in {"process", "recheck"} /\ handle'[d] # NULL =>
            (start'[d] <=> handle'[d] = mon_ec')
      BY <3>1, <3>2, <3>3
    <3>5. \A d \in Chan : isr'[d] \in Recording =>
            start'[d] /\ handle'[d] # NULL /\ handle'[d] = mon_ec'
      BY <3>2, <3>3
    <3>6. (\A d \in Chan : isr'[d] \notin {"average", "worst"}) => cycles_last' <= cycles_worst'
      BY <2>1, <3>3 DEF UpdateStart
    <3> QED BY <2>1, <3>3, <3>4, <3>5, <3>6 DEF UpdateStart
  <2>2. CASE UpdateProcess(c)
    BY <2>2 DEF UpdateProcess
  <2>3. CASE UpdateRecheck(c)
    BY <2>3 DEF UpdateRecheck
  <2>4. CASE RecordLast(c)
    BY <2>4 DEF RecordLast
  <2>5. CASE RecordAverage(c)
    <3>1. cycles_average' \in Nat /\ (cycles_average' <= cycles_average \/ cycles_average' <= cycles_last)
      BY <2>5, AverageBetween DEF RecordAverage
    <3>2. \A d \in Chan : isr[d] \in Recording => d = c
      BY <2>5 DEF RecordAverage
    <3>3. cycles_average <= cycles_worst
      BY <2>5, <3>2 DEF RecordAverage
    <3> HIDE DEF CyclesInv
    <3>4. cycles_average' <= cycles_worst \/ cycles_average' <= cycles_last
      BY <3>1, <3>3
    <3> QED BY <2>5, <3>4 DEF RecordAverage, CyclesInv
  <2>6. CASE RecordWorst(c)
    BY <2>6 DEF RecordWorst
  <2>7. CASE HpfTxStart(c)
    BY <2>7 DEF HpfTxStart
  <2>8. CASE HpfTx(c)
    BY <2>8 DEF HpfTx
  <2> QED BY <1>4, <2>1, <2>2, <2>3, <2>4, <2>5, <2>6, <2>7, <2>8 DEF Isr
<1>5. ASSUME NEW p \in Proc, ProcFs(p) PROVE CyclesInv'
  <2>1. CASE ProcLock(p)
    BY <2>1 DEF ProcLock
  <2>2. CASE ProcCheck(p)
    BY <2>2 DEF ProcCheck
  <2>3. CASE ProcReadOrReset(p)
    BY <2>3 DEF ProcReadOrReset
  <2>4. CASE ProcWriteMode(p)
    BY <2>4 DEF ProcWriteMode
  <2>5. CASE ProcUnlock(p)
    BY <2>5 DEF ProcUnlock
  <2> QED BY <1>5, <2>1, <2>2, <2>3, <2>4, <2>5 DEF ProcFs
<1>6. CASE UNCHANGED vars
  BY <1>6
<1> QED BY <1>1, <1>2, <1>3, <1>4, <1>5, <1>6 DEF Next

\* Only two actions change which channels are counted.
LEMMA CountedStep ==
  Types /\ HeapInv /\ [Next]_vars => (CountedChannels' = CountedChannels /\ num_ec' = num_ec)
      \/ (\E d \in Chan : CreateCount(d)) \/ (\E d \in Chan : FreeRelease(d) /\ handle[d] # NULL)
<1> SUFFICES ASSUME Types, HeapInv, [Next]_vars PROVE (CountedChannels' = CountedChannels /\ num_ec' = num_ec)
      \/ (\E d \in Chan : CreateCount(d)) \/ (\E d \in Chan : FreeRelease(d) /\ handle[d] # NULL)
  OBVIOUS
<1> USE NamesAssumption, ValuesAssumption
      DEF Types, HeapInv, CountedChannels, AppPlaces, AppLocked, Counted, Registered, vars, monitor, cycles, heap, app, handler
<1>1. CASE InitPublish
  BY <1>1 DEF InitPublish
<1>2. CASE InitLock
  BY <1>2 DEF InitLock
<1>3. ASSUME NEW c \in Chan, App(c) PROVE (CountedChannels' = CountedChannels /\ num_ec' = num_ec)
      \/ (\E d \in Chan : CreateCount(d)) \/ (\E d \in Chan : FreeRelease(d) /\ handle[d] # NULL)
  <2>1. CASE CreateAlloc(c)
    BY <2>1 DEF CreateAlloc
  <2>2. CASE CreateAllocNull(c)
    BY <2>2 DEF CreateAllocNull
  <2>3. CASE CreateAllocOops(c)
    BY <2>3 DEF CreateAllocOops
  <2>4. CASE CreateLock(c)
    BY <2>4 DEF AppLock, CreateLock
  <2>5. CASE CreateCount(c)
    BY <2>5
  <2>6. CASE CreateMonitor(c)
    BY <2>6 DEF CreateMonitor
  <2>7. CASE CreateLength(c)
    BY <2>7 DEF CreateLength
  <2>8. CASE CreateUnlock(c)
    BY <2>8 DEF CreateUnlock
  <2>9. CASE Attach(c)
    BY <2>9 DEF Attach
  <2>10. CASE Detach(c)
    BY <2>10 DEF Detach
  <2>11. CASE FreeLock(c)
    BY <2>11 DEF AppLock, FreeLock
  <2>12. CASE FreeUnmonitor(c)
    BY <2>12 DEF FreeUnmonitor
  <2>13. CASE FreeRelease(c)
    <3>1. CASE handle[c] = NULL
      BY <2>13, <3>1 DEF FreeRelease
    <3>2. CASE handle[c] # NULL
      BY <2>13, <3>2
    <3> QED BY <3>1, <3>2
  <2>14. CASE FreeUnlock(c)
    BY <2>14 DEF FreeUnlock
  <2> QED BY <1>3, <2>1, <2>2, <2>3, <2>4, <2>5, <2>6, <2>7, <2>8, <2>9, <2>10, <2>11, <2>12, <2>13, <2>14 DEF App
<1>4. ASSUME NEW c \in Chan, Isr(c) PROVE (CountedChannels' = CountedChannels /\ num_ec' = num_ec)
      \/ (\E d \in Chan : CreateCount(d)) \/ (\E d \in Chan : FreeRelease(d) /\ handle[d] # NULL)
  <2>1. CASE UpdateStart(c)
    BY <2>1 DEF UpdateStart
  <2>2. CASE UpdateProcess(c)
    BY <2>2 DEF UpdateProcess
  <2>3. CASE UpdateRecheck(c)
    BY <2>3 DEF UpdateRecheck
  <2>4. CASE RecordLast(c)
    BY <2>4 DEF RecordLast
  <2>5. CASE RecordAverage(c)
    BY <2>5 DEF RecordAverage
  <2>6. CASE RecordWorst(c)
    BY <2>6 DEF RecordWorst
  <2>7. CASE HpfTxStart(c)
    BY <2>7 DEF HpfTxStart
  <2>8. CASE HpfTx(c)
    BY <2>8 DEF HpfTx
  <2> QED BY <1>4, <2>1, <2>2, <2>3, <2>4, <2>5, <2>6, <2>7, <2>8 DEF Isr
<1>5. ASSUME NEW p \in Proc, ProcFs(p) PROVE (CountedChannels' = CountedChannels /\ num_ec' = num_ec)
      \/ (\E d \in Chan : CreateCount(d)) \/ (\E d \in Chan : FreeRelease(d) /\ handle[d] # NULL)
  <2>1. CASE ProcLock(p)
    BY <2>1 DEF ProcLock
  <2>2. CASE ProcCheck(p)
    BY <2>2 DEF ProcCheck
  <2>3. CASE ProcReadOrReset(p)
    BY <2>3 DEF ProcReadOrReset
  <2>4. CASE ProcWriteMode(p)
    BY <2>4 DEF ProcWriteMode
  <2>5. CASE ProcUnlock(p)
    BY <2>5 DEF ProcUnlock
  <2> QED BY <1>5, <2>1, <2>2, <2>3, <2>4, <2>5 DEF ProcFs
<1>6. CASE UNCHANGED vars
  BY <1>6
<1> QED BY <1>1, <1>2, <1>3, <1>4, <1>5, <1>6 DEF Next

\* A step keeps num_ec at the number of counted cancellers.
LEMMA CountStep ==
  Types /\ HeapInv /\ CountMatches /\ [Next]_vars => CountMatches'
<1> SUFFICES ASSUME Types, HeapInv, CountMatches, [Next]_vars PROVE CountMatches'
  OBVIOUS
<1>1. num_ec = Cardinality(CountedChannels) /\ IsFiniteSet(CountedChannels)
  <2>1. CountedChannels \in SUBSET Chan
    BY DEF CountedChannels
  <2> QED BY <2>1, FS_Subset, NamesAssumption DEF CountMatches, CountedChannels
<1>2. SUFFICES num_ec' = Cardinality(CountedChannels')
  BY DEF CountMatches, CountedChannels
<1>3. CASE CountedChannels' = CountedChannels /\ num_ec' = num_ec
  BY <1>1, <1>3
<1>4. ASSUME NEW c \in Chan, CreateCount(c) PROVE num_ec' = Cardinality(CountedChannels')
  <2>1. CountedChannels' = CountedChannels \cup {c} /\ c \notin CountedChannels
    BY <1>4 DEF CreateCount, CountedChannels, Counted, Registered, Types
  <2>2. num_ec' = num_ec + 1
    BY <1>4 DEF CreateCount
  <2> QED BY <1>1, <2>1, <2>2, FS_AddElement
<1>5. ASSUME NEW c \in Chan, FreeRelease(c), handle[c] # NULL
      PROVE  num_ec' = Cardinality(CountedChannels')
  <2>1. CountedChannels' = CountedChannels \ {c} /\ c \in CountedChannels
    BY <1>5 DEF FreeRelease, CountedChannels, Counted, Registered, Types
  <2>2. num_ec' = num_ec - 1
    BY <1>5 DEF FreeRelease
  <2> QED BY <1>1, <2>1, <2>2, FS_RemoveElement
<1> QED BY <1>3, <1>4, <1>5, CountedStep

\* A step keeps the mode of a canceller that is not registered yet.
LEMMA ModeStep ==
  Types /\ LockInv /\ HeapInv /\ MonInv /\ ModeInv /\ [Next]_vars => ModeInv'
<1> SUFFICES ASSUME Types, LockInv, HeapInv, MonInv, ModeInv, [Next]_vars PROVE ModeInv'
  OBVIOUS
<1> USE NamesAssumption, ValuesAssumption
      DEF Types, LockInv, HeapInv, MonInv, ModeInv, AppPlaces, AppLocked, Counted, Registered, ProcPlaces, vars, monitor, cycles, heap, app, handler
<1>1. CASE InitPublish
  BY <1>1 DEF InitPublish
<1>2. CASE InitLock
  BY <1>2 DEF InitLock
<1>3. ASSUME NEW c \in Chan, App(c) PROVE ModeInv'
  <2>1. CASE CreateAlloc(c)
    BY <2>1 DEF CreateAlloc
  <2>2. CASE CreateAllocNull(c)
    BY <2>2 DEF CreateAllocNull
  <2>3. CASE CreateAllocOops(c)
    BY <2>3 DEF CreateAllocOops
  <2>4. CASE CreateLock(c)
    BY <2>4 DEF AppLock, CreateLock
  <2>5. CASE CreateCount(c)
    BY <2>5 DEF CreateCount
  <2>6. CASE CreateMonitor(c)
    BY <2>6 DEF CreateMonitor
  <2>7. CASE CreateLength(c)
    BY <2>7 DEF CreateLength
  <2>8. CASE CreateUnlock(c)
    BY <2>8 DEF CreateUnlock
  <2>9. CASE Attach(c)
    BY <2>9 DEF Attach
  <2>10. CASE Detach(c)
    BY <2>10 DEF Detach
  <2>11. CASE FreeLock(c)
    BY <2>11 DEF AppLock, FreeLock
  <2>12. CASE FreeUnmonitor(c)
    BY <2>12 DEF FreeUnmonitor
  <2>13. CASE FreeRelease(c)
    BY <2>13 DEF FreeRelease
  <2>14. CASE FreeUnlock(c)
    BY <2>14 DEF FreeUnlock
  <2> QED BY <1>3, <2>1, <2>2, <2>3, <2>4, <2>5, <2>6, <2>7, <2>8, <2>9, <2>10, <2>11, <2>12, <2>13, <2>14 DEF App
<1>4. ASSUME NEW c \in Chan, Isr(c) PROVE ModeInv'
  <2>1. CASE UpdateStart(c)
    BY <2>1 DEF UpdateStart
  <2>2. CASE UpdateProcess(c)
    BY <2>2 DEF UpdateProcess
  <2>3. CASE UpdateRecheck(c)
    BY <2>3 DEF UpdateRecheck
  <2>4. CASE RecordLast(c)
    BY <2>4 DEF RecordLast
  <2>5. CASE RecordAverage(c)
    BY <2>5 DEF RecordAverage
  <2>6. CASE RecordWorst(c)
    BY <2>6 DEF RecordWorst
  <2>7. CASE HpfTxStart(c)
    BY <2>7 DEF HpfTxStart
  <2>8. CASE HpfTx(c)
    BY <2>8 DEF HpfTx
  <2> QED BY <1>4, <2>1, <2>2, <2>3, <2>4, <2>5, <2>6, <2>7, <2>8 DEF Isr
<1>5. ASSUME NEW p \in Proc, ProcFs(p) PROVE ModeInv'
  <2>1. CASE ProcLock(p)
    BY <2>1 DEF ProcLock
  <2>2. CASE ProcCheck(p)
    BY <2>2 DEF ProcCheck
  <2>3. CASE ProcReadOrReset(p)
    BY <2>3 DEF ProcReadOrReset
  <2>4. CASE ProcWriteMode(p)
    BY <2>4 DEF ProcWriteMode
  <2>5. CASE ProcUnlock(p)
    BY <2>5 DEF ProcUnlock
  <2> QED BY <1>5, <2>1, <2>2, <2>3, <2>4, <2>5 DEF ProcFs
<1>6. CASE UNCHANGED vars
  BY <1>6
<1> QED BY <1>1, <1>2, <1>3, <1>4, <1>5, <1>6 DEF Next

-----------------------------------------------------------------------------
\* What holds without the lock, whoever opens /proc and when.
LocklessInv == Types /\ HeapInv /\ CyclesInv /\ CountMatches

IInv == LocklessInv /\ LockInv /\ MonInv /\ ModeInv

\* The invariant holds when the module is loaded.
LEMMA InitInv == Init => IInv
<1> SUFFICES ASSUME Init PROVE IInv
  OBVIOUS
<1> USE NamesAssumption, ValuesAssumption DEF Init
<1>1. Types
  BY DEF Types, AppPlaces, IsrPlaces, ProcPlaces
<1>2. LockInv /\ HeapInv /\ MonInv /\ ModeInv
  BY DEF LockInv, HeapInv, MonInv, ModeInv, AppLocked
<1>3. CyclesInv
  BY DEF CyclesInv, Recording
<1>4. CountMatches
  <2>1. {c \in Chan : pc[c] \in Counted} = {}
    BY DEF Counted, Registered
  <2> QED BY <2>1, FS_EmptySet DEF CountMatches
<1> QED BY <1>1, <1>2, <1>3, <1>4 DEF IInv, LocklessInv

\* Every step keeps the part of the invariant that needs no lock.
LEMMA LocklessStep == LocklessInv /\ [Next]_vars => LocklessInv'
  BY TypesStep, HeapStep, CyclesStep, CountStep DEF LocklessInv

\* Every step keeps the invariant, if no handler runs before the lock is initialised.
LEMMA StepInv == LoadedFirst /\ IInv /\ [Next]_vars => IInv'
  BY LocklessStep, LockStep, MonStep, ModeStep DEF IInv, LocklessInv

\* What needs no lock is an invariant of every behaviour.
LEMMA LocklessInvariance == Spec => []LocklessInv
<1>1. Init => LocklessInv
  BY InitInv DEF IInv
<1> QED BY <1>1, LocklessStep, PTL DEF Spec

\* The whole invariant is one when /proc is opened after the module is loaded.
LEMMA Invariance ==
  ASSUME LoadedFirst PROVE Spec => []IInv
  BY InitInv, StepInv, PTL DEF Spec

-----------------------------------------------------------------------------
\* Type correctness; that num_ec is never negative takes the count.
THEOREM TypeCorrect == Spec => []TypeOK
<1>1. LocklessInv => TypeOK
  <2> SUFFICES ASSUME LocklessInv PROVE TypeOK
    OBVIOUS
  <2>1. CountedChannels \in SUBSET Chan
    BY DEF CountedChannels
  <2>2. num_ec \in Nat
    BY <2>1, FS_Subset, FS_CardinalityType, NamesAssumption DEF LocklessInv, CountMatches, CountedChannels
  <2> QED BY <2>2 DEF LocklessInv, Types, TypeOK
<1> QED BY <1>1, LocklessInvariance, PTL

\* At most one thread is inside a critical section of oslec_lock.
THEOREM LockExcludes ==
  ASSUME LoadedFirst PROVE Spec => []MutualExclusion
<1>1. IInv => MutualExclusion
  BY NamesAssumption DEF IInv, LocklessInv, LockInv, MutualExclusion, Inside
<1> QED BY <1>1, Invariance, PTL

\* No handler and no interrupt uses a canceller that was destroyed.
THEOREM NoDanglingUse ==
  ASSUME LoadedFirst PROVE Spec => []NoUseAfterFree
<1>1. IInv => NoUseAfterFree
  BY DEF IInv, LocklessInv, Types, HeapInv, MonInv, NoUseAfterFree, Live
<1> QED BY <1>1, Invariance, PTL

\* mon_ec never dangles.
THEOREM MonitorNeverDangles ==
  ASSUME LoadedFirst PROVE Spec => []MonitoredIsRegistered
<1>1. IInv => MonitoredIsRegistered
  BY DEF IInv, LocklessInv, Types, HeapInv, MonInv, MonitoredIsRegistered, Live
<1> QED BY <1>1, Invariance, PTL

\* num_ec counts the cancellers that exist.
THEOREM CountIsRight == Spec => []CountMatches
<1>1. LocklessInv => CountMatches
  BY DEF LocklessInv
<1> QED BY <1>1, LocklessInvariance, PTL

\* What proc_read_info reports is about one canceller.
THEOREM ReportIsConsistent ==
  ASSUME LoadedFirst PROVE Spec => []ReportConsistent
<1>1. IInv => ReportConsistent
  <2> SUFFICES ASSUME IInv, NEW p \in Proc, ppc[p] = "use"
               PROVE  len_ec = taps[mon_ec] /\ num_ec >= 1
    BY DEF ReportConsistent
  <2>1. lock = p /\ mon_ec # NULL
    BY DEF IInv, LocklessInv, LockInv, MonInv
  <2>2. \A c \in Chan : pc[c] # "length"
    BY <2>1, NamesAssumption DEF IInv, LocklessInv, LockInv, AppLocked
  <2>3. PICK c \in Chan : pc[c] \in Registered
    BY <2>1 DEF IInv, LocklessInv, MonInv
  <2>4. c \in CountedChannels /\ CountedChannels \in SUBSET Chan
    BY <2>3 DEF CountedChannels, Counted
  <2>5. IsFiniteSet(CountedChannels)
    BY <2>4, FS_Subset, NamesAssumption
  <2>6. Cardinality(CountedChannels) # 0 /\ Cardinality(CountedChannels) \in Nat
    BY <2>4, <2>5, FS_EmptySet, FS_CardinalityType
  <2> QED BY <2>1, <2>2, <2>6 DEF IInv, LocklessInv, MonInv, CountMatches, CountedChannels
<1> QED BY <1>1, Invariance, PTL

\* The cycle counters have one writer, which measured what it writes.
THEOREM OneWriter == Spec => []CyclesOneWriter
<1>1. LocklessInv => CyclesOneWriter
  BY DEF LocklessInv, Types, HeapInv, CyclesInv, CyclesOneWriter
<1> QED BY <1>1, LocklessInvariance, PTL

\* Neither the last nor the average count exceeds the worst.
THEOREM WorstIsWorst == Spec => []CyclesBounded
<1>1. LocklessInv => CyclesBounded
  BY DEF LocklessInv, CyclesInv, CyclesBounded, Recording
<1> QED BY <1>1, LocklessInvariance, PTL

\* Three actions change what the monitor shows, and no other does.
LEMMA FrameStep ==
  Types /\ HeapInv /\ [Next]_vars => (calls' = calls /\ mon_ec' = mon_ec /\ \A e \in calls : mode'[e] = mode[e])
      \/ (\E d \in Chan : CreateMonitor(d) \/ FreeUnmonitor(d)) \/ (\E q \in Proc : ProcWriteMode(q))
<1> SUFFICES ASSUME Types, HeapInv, [Next]_vars PROVE (calls' = calls /\ mon_ec' = mon_ec /\ \A e \in calls : mode'[e] = mode[e])
      \/ (\E d \in Chan : CreateMonitor(d) \/ FreeUnmonitor(d)) \/ (\E q \in Proc : ProcWriteMode(q))
  OBVIOUS
<1> USE NamesAssumption, ValuesAssumption
      DEF Types, HeapInv, calls, AppPlaces, AppLocked, Counted, Registered, vars, monitor, cycles, heap, app, handler
<1>1. CASE InitPublish
  BY <1>1 DEF InitPublish
<1>2. CASE InitLock
  BY <1>2 DEF InitLock
<1>3. ASSUME NEW c \in Chan, App(c) PROVE (calls' = calls /\ mon_ec' = mon_ec /\ \A e \in calls : mode'[e] = mode[e])
      \/ (\E d \in Chan : CreateMonitor(d) \/ FreeUnmonitor(d)) \/ (\E q \in Proc : ProcWriteMode(q))
  <2>1. CASE CreateAlloc(c)
    <3>1. calls' = calls
      BY <2>1 DEF CreateAlloc
    <3>2. \A e \in calls : taps[e] # 0 /\ e \in Ec
      OBVIOUS
    <3>3. \A e \in calls : mode'[e] = mode[e]
      BY <2>1, <3>2 DEF CreateAlloc
    <3> QED BY <2>1, <3>1, <3>3 DEF CreateAlloc
  <2>2. CASE CreateAllocNull(c)
    BY <2>2 DEF CreateAllocNull
  <2>3. CASE CreateAllocOops(c)
    BY <2>3 DEF CreateAllocOops
  <2>4. CASE CreateLock(c)
    BY <2>4 DEF AppLock, CreateLock
  <2>5. CASE CreateCount(c)
    BY <2>5 DEF CreateCount
  <2>6. CASE CreateMonitor(c)
    BY <2>6
  <2>7. CASE CreateLength(c)
    BY <2>7 DEF CreateLength
  <2>8. CASE CreateUnlock(c)
    BY <2>8 DEF CreateUnlock
  <2>9. CASE Attach(c)
    BY <2>9 DEF Attach
  <2>10. CASE Detach(c)
    BY <2>10 DEF Detach
  <2>11. CASE FreeLock(c)
    BY <2>11 DEF AppLock, FreeLock
  <2>12. CASE FreeUnmonitor(c)
    BY <2>12
  <2>13. CASE FreeRelease(c)
    BY <2>13 DEF FreeRelease
  <2>14. CASE FreeUnlock(c)
    BY <2>14 DEF FreeUnlock
  <2> QED BY <1>3, <2>1, <2>2, <2>3, <2>4, <2>5, <2>6, <2>7, <2>8, <2>9, <2>10, <2>11, <2>12, <2>13, <2>14 DEF App
<1>4. ASSUME NEW c \in Chan, Isr(c) PROVE (calls' = calls /\ mon_ec' = mon_ec /\ \A e \in calls : mode'[e] = mode[e])
      \/ (\E d \in Chan : CreateMonitor(d) \/ FreeUnmonitor(d)) \/ (\E q \in Proc : ProcWriteMode(q))
  <2>1. CASE UpdateStart(c)
    BY <2>1 DEF UpdateStart
  <2>2. CASE UpdateProcess(c)
    BY <2>2 DEF UpdateProcess
  <2>3. CASE UpdateRecheck(c)
    BY <2>3 DEF UpdateRecheck
  <2>4. CASE RecordLast(c)
    BY <2>4 DEF RecordLast
  <2>5. CASE RecordAverage(c)
    BY <2>5 DEF RecordAverage
  <2>6. CASE RecordWorst(c)
    BY <2>6 DEF RecordWorst
  <2>7. CASE HpfTxStart(c)
    BY <2>7 DEF HpfTxStart
  <2>8. CASE HpfTx(c)
    BY <2>8 DEF HpfTx
  <2> QED BY <1>4, <2>1, <2>2, <2>3, <2>4, <2>5, <2>6, <2>7, <2>8 DEF Isr
<1>5. ASSUME NEW p \in Proc, ProcFs(p) PROVE (calls' = calls /\ mon_ec' = mon_ec /\ \A e \in calls : mode'[e] = mode[e])
      \/ (\E d \in Chan : CreateMonitor(d) \/ FreeUnmonitor(d)) \/ (\E q \in Proc : ProcWriteMode(q))
  <2>1. CASE ProcLock(p)
    BY <2>1 DEF ProcLock
  <2>2. CASE ProcCheck(p)
    BY <2>2 DEF ProcCheck
  <2>3. CASE ProcReadOrReset(p)
    BY <2>3 DEF ProcReadOrReset
  <2>4. CASE ProcWriteMode(p)
    BY <2>4
  <2>5. CASE ProcUnlock(p)
    BY <2>5 DEF ProcUnlock
  <2> QED BY <1>5, <2>1, <2>2, <2>3, <2>4, <2>5 DEF ProcFs
<1>6. CASE UNCHANGED vars
  BY <1>6
<1> QED BY <1>1, <1>2, <1>3, <1>4, <1>5, <1>6 DEF Next

\* Every step of the wrapper is a step of the atomic monitor or none.
LEMMA RefineStep ==
  IInv /\ [Next]_vars => [Abstract!Next]_(Abstract!vars)
<1> SUFFICES ASSUME IInv, [Next]_vars PROVE [Abstract!Next]_(Abstract!vars)
  OBVIOUS
<1> USE NamesAssumption DEF IInv, LocklessInv, Types
<1>1. CASE calls' = calls /\ mon_ec' = mon_ec /\ \A e \in calls : mode'[e] = mode[e]
  <2>1. [e \in calls' |-> mode'[e]] = [e \in calls |-> mode[e]]
    BY <1>1
  <2> QED BY <1>1, <2>1 DEF Abstract!vars
<1>2. ASSUME NEW c \in Chan, CreateMonitor(c) PROVE [Abstract!Next]_(Abstract!vars)
  <2>1. CASE handle[c] = NULL
    <3>1. calls' = calls /\ mon_ec' = mon_ec /\ mode' = mode
      BY <1>2, <2>1 DEF CreateMonitor, calls, Registered, AppPlaces, AppLocked, Counted, heap
    <3> QED BY <3>1 DEF Abstract!vars
  <2>2. CASE handle[c] # NULL
    <3>0. PICK e \in Ec : e = handle[c]
      BY <2>2
    <3>1. e \in Ec /\ e \notin calls /\ mode[e] = DefaultMode
      BY <1>2, <2>2, <3>0 DEF CreateMonitor, HeapInv, ModeInv, calls, Registered
    <3>2. calls' = calls \cup {e}
      BY <1>2, <2>2, <3>0 DEF CreateMonitor, calls, Registered
    <3>3. mon_ec' = IF mon_ec = NULL THEN e ELSE mon_ec
      BY <1>2, <3>0 DEF CreateMonitor
    <3>4. mode' = mode
      BY <1>2 DEF CreateMonitor, heap
    <3>5. [x \in calls' |-> mode'[x]] =
            [x \in calls' |-> IF x = e THEN DefaultMode ELSE [y \in calls |-> mode[y]][x]]
      BY <3>1, <3>2, <3>4
    <3>6. Abstract!Begin(e)
      BY <3>1, <3>2, <3>3, <3>5 DEF Abstract!Begin
    <3> QED BY <3>1, <3>6 DEF Abstract!Next
  <2> QED BY <2>1, <2>2
<1>3. ASSUME NEW c \in Chan, FreeUnmonitor(c) PROVE [Abstract!Next]_(Abstract!vars)
  <2>1. CASE handle[c] = NULL
    <3>1. calls' = calls /\ mon_ec' = mon_ec /\ mode' = mode
      BY <1>3, <2>1 DEF FreeUnmonitor, calls, Registered, AppPlaces, AppLocked, Counted, heap
    <3> QED BY <3>1 DEF Abstract!vars
  <2>2. CASE handle[c] # NULL
    <3>0. PICK e \in Ec : e = handle[c]
      BY <2>2
    <3>1. e \in Ec /\ e \in calls
      BY <1>3, <2>2, <3>0 DEF FreeUnmonitor, calls, Registered
    <3>2. calls' = calls \ {e}
      BY <1>3, <2>2, <3>0 DEF FreeUnmonitor, HeapInv, calls, Registered
    <3>3. mon_ec' = IF mon_ec = e THEN NULL ELSE mon_ec
      BY <1>3, <3>0 DEF FreeUnmonitor
    <3>4. mode' = mode
      BY <1>3 DEF FreeUnmonitor, heap
    <3>5. [x \in calls' |-> mode'[x]] = [x \in calls' |-> [y \in calls |-> mode[y]][x]]
      BY <3>2, <3>4
    <3>6. Abstract!End(e)
      BY <3>1, <3>2, <3>3, <3>5 DEF Abstract!End
    <3> QED BY <3>1, <3>6 DEF Abstract!Next
  <2> QED BY <2>1, <2>2
<1>4. ASSUME NEW p \in Proc, ProcWriteMode(p) PROVE [Abstract!Next]_(Abstract!vars)
  <2>1. PICK m \in Modes : mode' = [mode EXCEPT ![mon_ec] = m]
    BY <1>4 DEF ProcWriteMode
  <2>2. mon_ec \in calls /\ mon_ec \in Ec
    BY <1>4 DEF ProcWriteMode, MonInv, calls
  <2>3. calls' = calls /\ mon_ec' = mon_ec
    BY <1>4 DEF ProcWriteMode, calls, app, monitor
  <2>4. calls \in SUBSET Ec
    BY DEF calls
  <2>5. [x \in calls' |-> mode'[x]] = [[y \in calls |-> mode[y]] EXCEPT ![mon_ec] = m]
    BY <2>1, <2>2, <2>3, <2>4
  <2>6. Abstract!Control(m)
    BY <2>2, <2>3, <2>5 DEF Abstract!Control
  <2> QED BY <2>1, <2>6 DEF Abstract!Next
<1> QED BY <1>1, <1>2, <1>3, <1>4, FrameStep

\* The wrapper, its critical sections taken apart into steps, implements the
\* monitor whose operations are atomic.
THEOREM WrapperImplementsMonitor ==
  ASSUME LoadedFirst PROVE Spec => ImplementsMonitor
<1>1. Init => Abstract!Init
  <2> SUFFICES ASSUME Init PROVE Abstract!Init
    OBVIOUS
  <2>1. calls = {} /\ mon_ec = NULL
    BY DEF Init, calls, Registered
  <2>2. [e \in calls |-> mode[e]] = [e \in calls |-> DefaultMode]
    BY <2>1
  <2> QED BY <2>1, <2>2 DEF Abstract!Init
<1> QED BY <1>1, RefineStep, Invariance, PTL DEF Spec, ImplementsMonitor, Abstract!Spec
=============================================================================
