-------------------------- MODULE EchoFilterProofs --------------------------
(***************************************************************************)
(* Proofs about the two filters of the canceller. The dual path control,   *)
(* for every filter length, hangover and number of winning samples: type   *)
(* correctness holds on any machine, the rest where nothing interrupts the *)
(* interrupt handler. The filter and its adaption implement the delay      *)
(* line, for every number of taps, every width and every build.            *)
(***************************************************************************)
EXTENDS EchoCan, Fir, TLAPS

-----------------------------------------------------------------------------
(* The dual path control                                                    *)

\* The handler and the code that holds oslec_lock exclude each other.
Uniprocessor == ~SMP

-----------------------------------------------------------------------------
Exclusive == pc # "idle" => flush = 0

\* Where the three positions are while a sample or a flush is under way.
PositionInv ==
  /\ flush = 0 /\ pc \in {"idle", "foreground"} => fir_pos = curr_pos /\ bg_pos = curr_pos
  /\ pc = "background" => fir_pos = Roll(curr_pos) /\ bg_pos = curr_pos
  /\ pc \in {"lms", "detect", "transfer", "finish"} =>
       fir_pos = Roll(curr_pos) /\ bg_pos = Roll(curr_pos)
  /\ flush >= 3 => fir_pos = Taps - 1
  /\ flush >= 4 => bg_pos = Taps - 1

\* The hangover still to come and the time since speech make up the hangover.
HangoverInv == nonupdate_dwell + since >= Hangover - 1

\* A transfer counter that is ahead of the streak, as a flush leaves it, is
\* reset by the next sample: the filters are equal and so are their levels.
Stale ==
  \/ pc \in {"idle", "foreground", "background"} /\ twin /\ fg = bg
  \/ pc \in {"lms", "detect", "transfer"} /\ ~better

StreakInv ==
  /\ flush = 0 => cond_met <= streak \/ Stale
  /\ flush >= 2 => twin
  /\ flush >= 5 => fg = 0
  /\ flush >= 6 => bg = 0

UpInv == TypeOK /\ Exclusive /\ PositionInv /\ HangoverInv /\ StreakInv

-----------------------------------------------------------------------------
\* A position stays within the buffer and only depends on where it was.
LEMMA RollInRange ==
  ASSUME NEW pos \in 0..Taps - 1
  PROVE  Roll(pos) \in 0..Taps - 1
  BY SizesAssumption DEF Roll

\* The types hold initially.
LEMMA TypeInit == Init => TypeOK
<1> SUFFICES ASSUME Init PROVE TypeOK
  OBVIOUS
<1> USE SizesAssumption DEF Init
<1>1. adaption \in BOOLEAN /\ twin \in BOOLEAN /\ better \in BOOLEAN /\ loud \in BOOLEAN
  OBVIOUS
<1>2. nonupdate_dwell \in 0..Hangover - 1 /\ cond_met \in 0..Wins /\ adapt \in {0, 1}
      /\ streak \in 0..Wins /\ since \in 0..Hangover
  OBVIOUS
<1>3. curr_pos \in 0..Taps - 1 /\ fir_pos \in 0..Taps - 1 /\ bg_pos \in 0..Taps - 1
  OBVIOUS
<1> QED BY <1>1, <1>2, <1>3 DEF TypeOK

\* Every step keeps the types.
LEMMA TypeStep == TypeOK /\ [Next]_vars => TypeOK'
<1> SUFFICES ASSUME TypeOK, [Next]_vars PROVE TypeOK'
  OBVIOUS
<1> USE SizesAssumption DEF TypeOK, vars, control, levels, positions, histories
<1>1. CASE UpdateLevels
  BY <1>1 DEF UpdateLevels
<1>2. CASE UpdateForeground
  BY <1>2, RollInRange DEF UpdateForeground
<1>3. CASE UpdateBackground
  BY <1>3, RollInRange DEF UpdateBackground
<1>4. CASE UpdateLms
  BY <1>4 DEF UpdateLms
<1>5. CASE UpdateDetect
  BY <1>5 DEF UpdateDetect, CapAt
<1>6. CASE UpdateTransfer
  BY <1>6 DEF UpdateTransfer, CapAt
<1>7. CASE UpdateFinish
  BY <1>7, RollInRange DEF UpdateFinish
<1>8. CASE FlushBegin
  BY <1>8 DEF FlushBegin
<1>9. CASE FlushStep
  <2>1. twin' \in BOOLEAN /\ better' \in BOOLEAN /\ loud' \in BOOLEAN /\ adaption' \in BOOLEAN
    BY <1>9 DEF FlushStep
  <2>2. nonupdate_dwell' \in 0..Hangover - 1 /\ since' \in 0..Hangover /\ streak' \in 0..Wins
        /\ cond_met' \in 0..Wins /\ adapt' \in {0, 1}
    BY <1>9 DEF FlushStep
  <2>3. curr_pos' \in 0..Taps - 1 /\ fir_pos' \in 0..Taps - 1 /\ bg_pos' \in 0..Taps - 1
    BY <1>9 DEF FlushStep
  <2>4. flush' \in 0..6 /\ pc' = pc
    BY <1>9 DEF FlushStep
  <2>5. fg' \in Versions /\ bg' \in Versions
    BY <1>9 DEF FlushStep
  <2> QED BY <2>1, <2>2, <2>3, <2>4, <2>5
<1>10. CASE WriteMode
  BY <1>10 DEF WriteMode
<1>11. CASE UNCHANGED vars
  BY <1>11
<1> QED BY <1>1, <1>2, <1>3, <1>4, <1>5, <1>6, <1>7, <1>8, <1>9, <1>10, <1>11 DEF Next, Update

\* Type correctness, whatever runs between the steps of the handler.
THEOREM TypeCorrect == Spec => []TypeOK
  BY TypeInit, TypeStep, PTL DEF Spec

-----------------------------------------------------------------------------
\* The invariant of the uniprocessor holds initially.
LEMMA UpInit == Init => UpInv
  BY TypeInit, SizesAssumption
     DEF Init, UpInv, Exclusive, PositionInv, HangoverInv, StreakInv, Stale

\* On a uniprocessor every step keeps the invariant.
LEMMA UpStep == Uniprocessor /\ UpInv /\ [Next]_vars => UpInv'
<1> SUFFICES ASSUME Uniprocessor, UpInv, [Next]_vars PROVE UpInv'
  OBVIOUS
<1>0. TypeOK'
  BY TypeStep DEF UpInv
<1> USE SizesAssumption, <1>0
        DEF Uniprocessor, UpInv, TypeOK, Exclusive, PositionInv, HangoverInv, StreakInv, Stale,
            vars, control, levels, positions, histories
<1>1. CASE UpdateLevels
  BY <1>1 DEF UpdateLevels
<1>2. CASE UpdateForeground
  BY <1>2 DEF UpdateForeground
<1>3. CASE UpdateBackground
  <2>1. twin /\ fg = bg => ~better'
    BY <1>3 DEF UpdateBackground
  <2>2. cond_met' <= streak' \/ Stale'
    BY <1>3, <2>1 DEF UpdateBackground
  <2>3. flush' = 0 /\ pc' = "lms"
    BY <1>3 DEF UpdateBackground
  <2>4. PositionInv' /\ HangoverInv'
    BY <1>3 DEF UpdateBackground
  <2>5. StreakInv' /\ Exclusive'
    BY <2>2, <2>3
  <2> QED BY <2>4, <2>5
<1>4. CASE UpdateLms
  BY <1>4 DEF UpdateLms
<1>5. CASE UpdateDetect
  BY <1>5 DEF UpdateDetect, CapAt
<1>6. CASE UpdateTransfer
  BY <1>6 DEF UpdateTransfer, CapAt, Conditions
<1>7. CASE UpdateFinish
  BY <1>7 DEF UpdateFinish
<1>8. CASE FlushBegin
  BY <1>8 DEF FlushBegin
<1>9. CASE FlushStep
  <2>1. pc = "idle" /\ pc' = "idle" /\ flush \in 1..6 /\ flush' = IF flush = 6 THEN 0 ELSE flush + 1
    BY <1>9 DEF FlushStep
  <2>2. PositionInv'
    BY <1>9, <2>1 DEF FlushStep
  <2>3. HangoverInv'
    <3>1. CASE flush = 1
      <4>1. nonupdate_dwell' = 0 /\ since' = Hangover
        BY <1>9, <3>1 DEF FlushStep
      <4> QED BY <4>1
    <3>2. CASE flush # 1
      <4>1. nonupdate_dwell' = nonupdate_dwell /\ since' = since
        BY <1>9, <3>2 DEF FlushStep
      <4> QED BY <4>1
    <3> QED BY <3>1, <3>2
  <2>4. flush' >= 2 => twin'
    <3>1. CASE flush = 1
      BY <1>9, <2>1, <3>1 DEF FlushStep
    <3>2. CASE flush # 1
      BY <1>9, <2>1, <3>2 DEF FlushStep
    <3> QED BY <3>1, <3>2
  <2>5. (flush' >= 5 => fg' = 0) /\ (flush' >= 6 => bg' = 0)
    BY <1>9, <2>1 DEF FlushStep
  <2>6. flush' = 0 => twin' /\ fg' = bg'
    BY <1>9, <2>1 DEF FlushStep
  <2> QED BY <2>1, <2>2, <2>3, <2>4, <2>5, <2>6
<1>10. CASE WriteMode
  BY <1>10 DEF WriteMode
<1>11. CASE UNCHANGED vars
  BY <1>11
<1> QED BY <1>1, <1>2, <1>3, <1>4, <1>5, <1>6, <1>7, <1>8, <1>9, <1>10, <1>11 DEF Next, Update

\* The invariant of the uniprocessor is one.
LEMMA UpInvariance ==
  ASSUME Uniprocessor PROVE Spec => []UpInv
  BY UpInit, UpStep, PTL DEF Spec

\* The positions of the canceller and of its two filters agree between samples.
THEOREM PositionsAgree ==
  ASSUME Uniprocessor PROVE Spec => []Aligned
<1>1. UpInv => Aligned
  BY DEF UpInv, PositionInv, Aligned
<1> QED BY <1>1, UpInvariance, PTL

\* No transfer that was not earned since the last flush.
THEOREM TransfersAreEarned ==
  ASSUME Uniprocessor PROVE Spec => TransferEarned
<1>1. UpInv /\ [Next]_vars =>
        [pc = "transfer" /\ fg' # fg => streak = Wins /\ adaption /\ since >= Hangover - 1]_vars
  <2> SUFFICES ASSUME UpInv, Next, pc = "transfer", fg' # fg
               PROVE  streak = Wins /\ adaption /\ since >= Hangover - 1
    OBVIOUS
  <2>1. UpdateTransfer
    BY SizesAssumption
       DEF UpInv, Exclusive, TypeOK, Next, Update, UpdateLevels, UpdateForeground, UpdateBackground,
           UpdateLms, UpdateDetect, UpdateFinish, FlushBegin, FlushStep, WriteMode
  <2>2. Conditions /\ cond_met = Wins
    BY <2>1 DEF UpdateTransfer
  <2> QED BY <2>2, SizesAssumption
          DEF Conditions, UpInv, TypeOK, Exclusive, HangoverInv, StreakInv, Stale
<1> QED BY <1>1, UpInvariance, PTL DEF Spec, TransferEarned

\* Near end speech stops adaption for the rest of the hangover.
THEOREM SpeechIsNotLearnt ==
  ASSUME Uniprocessor PROVE Spec => HeldAfterSpeech
<1>1. UpInv /\ [Next]_vars => [pc = "lms" /\ bg' # bg => since >= Hangover - 1]_vars
  <2> SUFFICES ASSUME UpInv, Next, pc = "lms", bg' # bg
               PROVE  since >= Hangover - 1
    OBVIOUS
  <2>1. UpdateLms
    BY SizesAssumption
       DEF UpInv, Exclusive, TypeOK, Next, Update, UpdateLevels, UpdateForeground, UpdateBackground,
           UpdateTransfer, UpdateDetect, UpdateFinish, FlushBegin, FlushStep, WriteMode
  <2>2. nonupdate_dwell = 0
    BY <2>1 DEF UpdateLms
  <2> QED BY <2>2, SizesAssumption DEF UpInv, TypeOK, HangoverInv
<1> QED BY <1>1, UpInvariance, PTL DEF Spec, HeldAfterSpeech

-----------------------------------------------------------------------------
(* The background filter: the positions                                     *)

\* The filter is one sample ahead of the canceller until the adaption is over,
\* and where there are two copies of the history they agree.
FirInv ==
  /\ layout \in Layouts
  /\ bg_fir_pos \in 0..Taps - 1 /\ ec_pos \in 0..Taps - 1
  /\ phase \in {"idle", "filtered"}
  /\ phase = "idle" => ec_pos = bg_fir_pos
  /\ phase = "filtered" => bg_fir_pos = Roll(ec_pos)
  /\ layout # "circular" => \A p \in 0..Taps - 1 : history[p + Taps] = history[p]

LEMMA FirInvBegins == FirInit => FirInv
BY FirAssumption DEF FirInit, FirInv, Places

LEMMA FirInvSteps == FirInv /\ [FirNext]_firVars => FirInv'
<1> SUFFICES ASSUME FirInv, [FirNext]_firVars PROVE FirInv'
  OBVIOUS
<1> USE FirAssumption DEF FirInv
<1>1. ASSUME NEW x \in Samples, fir16(x) PROVE FirInv'
  <2>1. bg_fir_pos' \in 0..Taps - 1 /\ bg_fir_pos' = Roll(ec_pos')
    BY <1>1, RollInRange DEF fir16
  <2>2. ASSUME layout' # "circular", NEW p \in 0..Taps - 1
        PROVE  history'[p + Taps] = history'[p]
    <3>1. p \in Places /\ p + Taps \in Places
      BY <1>1, <2>2 DEF fir16, Places
    <3>2. history' = Stored(x)
      BY <1>1 DEF fir16
    <3>3. history'[p] = IF p = bg_fir_pos THEN x ELSE history[p]
      BY <3>1, <3>2 DEF Stored
    <3>4. history'[p + Taps] = IF p = bg_fir_pos THEN x ELSE history[p + Taps]
      BY <3>1, <3>2 DEF Stored
    <3> QED BY <1>1, <2>2, <3>3, <3>4 DEF fir16
  <2> QED BY <1>1, <2>1, <2>2 DEF fir16
<1>2. ASSUME NEW f \in Factors, lms_adapt_bg(f) PROVE FirInv'
  BY <1>2, RollInRange DEF lms_adapt_bg
<1>3. CASE NoAdaption
  BY <1>3, RollInRange DEF NoAdaption
<1>4. CASE FirFlush
  BY <1>4 DEF FirFlush, Places
<1>5. CASE UNCHANGED firVars
  BY <1>5 DEF firVars, Roll
<1> QED BY <1>1, <1>2, <1>3, <1>4, <1>5 DEF FirNext

\* The positions of the filter and of the canceller move together
\* (fir.h 264-266, echo.c 599-601).
THEOREM PositionsTogether == FirSpec => []FirInv
BY FirInvBegins, FirInvSteps, PTL DEF FirSpec

-----------------------------------------------------------------------------
(* The background filter: the refinement                                    *)

\* One position later, what was i - 1 samples old is i samples old.
LEMMA Aged ==
  ASSUME FirInv, NEW x, fir16(x), NEW i \in 0..Taps - 1
  PROVE  /\ Delayed(i)' = Wrapped(bg_fir_pos, i)
         /\ Wrapped(bg_fir_pos, i) \in 0..Taps - 1
         /\ Wrapped(bg_fir_pos, i) = bg_fir_pos <=> i = 0
         /\ i # 0 => Wrapped(bg_fir_pos, i) = Delayed(i - 1)
BY FirAssumption DEF FirInv, fir16, Delayed, Wrapped, Roll

\* The line after a sample: that sample in front of what was there.
LEMMA LineShifts ==
  ASSUME FirInv, NEW x, fir16(x), NEW i \in 0..Taps - 1
  PROVE  history'[Delayed(i)'] = IF i = 0 THEN x ELSE history[Delayed(i - 1)]
<1> DEFINE p == Wrapped(bg_fir_pos, i)
<1>1. p \in 0..Taps - 1 /\ Delayed(i)' = p
  BY Aged
<1>2. history'[p] = IF p = bg_fir_pos THEN x ELSE history[p]
  <2>1. p \in Places /\ p # bg_fir_pos + Taps
    BY <1>1, FirAssumption DEF Places, FirInv
  <2>2. history' = Stored(x)
    BY DEF fir16
  <2> QED BY <2>1, <2>2 DEF Stored
<1> QED BY <1>1, <1>2, Aged

\* Each build's filter finds the sample as old as its tap.
LEMMA FirReads ==
  ASSUME FirInv, NEW x \in Samples, fir16(x), NEW i \in 0..Taps - 1
  PROVE  history'[FirPlace(bg_fir_pos, i)] = history'[Delayed(i)']
<1>1. CASE layout = "circular"
  BY <1>1, Aged DEF FirPlace
<1>2. CASE layout # "circular"
  <2>1. FirInv' /\ layout' = layout
    BY FirInvSteps DEF FirNext, fir16
  <2>2. \A p \in 0..Taps - 1 : history'[p + Taps] = history'[p]
    BY <1>2, <2>1 DEF FirInv
  <2>3. bg_fir_pos + i = Wrapped(bg_fir_pos, i) \/ bg_fir_pos + i = Wrapped(bg_fir_pos, i) + Taps
    BY FirAssumption DEF Wrapped, FirInv
  <2> QED BY <1>2, <2>2, <2>3, Aged DEF FirPlace
<1> QED BY <1>1, <1>2

\* Each build's adaption does too, from the canceller's own position.
LEMMA LmsReads ==
  ASSUME FirInv, phase = "filtered", NEW i \in 0..Taps - 1
  PROVE  history[LmsPlace(ec_pos, i)] = history[Delayed(i)]
<1> USE FirAssumption DEF FirInv
<1>1. Delayed(i) = Wrapped(ec_pos, i) /\ Delayed(i) \in 0..Taps - 1
  BY DEF Delayed, Wrapped, Roll
<1>2. CASE layout # "straight"
  BY <1>1, <1>2 DEF LmsPlace
<1>3. CASE layout = "straight"
  <2>1. ec_pos + i = Delayed(i) \/ ec_pos + i = Delayed(i) + Taps
    BY <1>1 DEF Wrapped
  <2> QED BY <1>1, <1>3, <2>1 DEF LmsPlace
<1> QED BY <1>2, <1>3

LineNow == [i \in 0..Taps - 1 |-> history[Delayed(i)]]

\* A silent history is a silent line, wherever the position is.
LEMMA SilentLine ==
  ASSUME bg_fir_pos \in 0..Taps - 1, history = [p \in Places |-> 0]
  PROVE  LineNow = [i \in 0..Taps - 1 |-> 0]
<1>1. ASSUME NEW i \in 0..Taps - 1 PROVE Delayed(i) \in Places
  BY FirAssumption DEF Delayed, Places
<1> QED BY <1>1 DEF LineNow

LEMMA InitRefines == FirInit => Line!Init
<1> SUFFICES ASSUME FirInit PROVE Line!Init
  OBVIOUS
<1>1. bg_fir_pos \in 0..Taps - 1 /\ history = [p \in Places |-> 0]
  BY FirAssumption DEF FirInit
<1>2. LineNow = [i \in 0..Taps - 1 |-> 0]
  BY <1>1, SilentLine
<1> QED BY <1>2 DEF FirInit, LineNow, Line!Init, Line!Silent

LEMMA FilterRefines ==
  ASSUME FirInv, NEW x \in Samples, fir16(x)
  PROVE  Line!Filter(x)
<1>1. LineNow' = [i \in 0..Taps - 1 |-> IF i = 0 THEN x ELSE LineNow[i - 1]]
  <2>1. ASSUME NEW i \in 0..Taps - 1
        PROVE  history'[Delayed(i)'] = IF i = 0 THEN x ELSE LineNow[i - 1]
    BY <2>1, LineShifts, FirAssumption DEF LineNow
  <2> QED BY <2>1 DEF LineNow
<1>2. [i \in 0..Taps - 1 |-> history'[FirPlace(bg_fir_pos, i)]] = LineNow'
  BY FirReads DEF LineNow
<1>3. y' = Output(coeffs, LineNow')
  BY <1>2 DEF fir16
<1> QED BY <1>1, <1>3 DEF Line!Filter, LineNow, fir16

LEMMA AdaptRefines ==
  ASSUME FirInv, NEW f \in Factors, lms_adapt_bg(f)
  PROVE  Line!Adapt(f)
<1>1. coeffs' = [i \in 0..Taps - 1 |-> Adapted(coeffs[i], LineNow[i], f)]
  BY LmsReads DEF LineNow, lms_adapt_bg
<1>2. LineNow' = LineNow
  BY DEF LineNow, Delayed, lms_adapt_bg
<1> QED BY <1>1, <1>2 DEF Line!Adapt, LineNow, lms_adapt_bg

LEMMA FlushRefines ==
  ASSUME FirInv, FirFlush
  PROVE  Line!Flush
<1>1. bg_fir_pos' \in 0..Taps - 1 /\ history' = [p \in Places' |-> 0]
  BY FirAssumption DEF FirFlush, Places
<1>2. LineNow' = [i \in 0..Taps - 1 |-> 0]
  <2>1. ASSUME NEW i \in 0..Taps - 1 PROVE Delayed(i)' \in Places'
    BY <2>1, FirAssumption DEF FirFlush, Delayed, Places
  <2> QED BY <1>1, <2>1 DEF LineNow
<1> QED BY <1>2 DEF Line!Flush, Line!Silent, LineNow, FirFlush

LEMMA StepRefines == FirInv /\ [FirNext]_firVars => [Line!Next]_(Line!lineVars)
<1> SUFFICES ASSUME FirInv, [FirNext]_firVars PROVE [Line!Next]_(Line!lineVars)
  OBVIOUS
<1>1. ASSUME NEW x \in Samples, fir16(x) PROVE Line!Next
  BY <1>1, FilterRefines DEF Line!Next
<1>2. ASSUME NEW f \in Factors, lms_adapt_bg(f) PROVE Line!Next
  BY <1>2, AdaptRefines DEF Line!Next
<1>3. CASE NoAdaption
  <2>1. LineNow' = LineNow
    BY <1>3 DEF LineNow, Delayed, NoAdaption
  <2> QED BY <1>3, <2>1 DEF Line!Next, Line!Hold, LineNow, NoAdaption
<1>4. CASE FirFlush
  BY <1>4, FlushRefines DEF Line!Next
<1>5. CASE UNCHANGED firVars
  <2>1. LineNow' = LineNow
    BY <1>5 DEF LineNow, Delayed, firVars
  <2> QED BY <1>5, <2>1 DEF Line!lineVars, LineNow, firVars
<1> QED BY <1>1, <1>2, <1>3, <1>4, <1>5 DEF FirNext

\* The taps are applied to, and adapted by, the samples as old as they are, in
\* each build and for every number of taps (fir.h 169-268, echo.c 149-255).
THEOREM AlignedTaps == FirSpec => ImplementsDelayLine
BY FirInvBegins, FirInvSteps, InitRefines, StepRefines, PTL
   DEF FirSpec, ImplementsDelayLine, Line!Spec
=============================================================================
