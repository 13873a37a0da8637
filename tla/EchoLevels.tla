----------------------------- MODULE EchoLevels -----------------------------
(***************************************************************************)
(* The running estimates echo_can_update decides by: the level of a signal *)
(* (Ltx, and in the same way Lrx, Lclean, Lclean_bg and Lbgn), a leaky     *)
(* integrator, and Pstates, the power in the states of the filter, which   *)
(* is kept up to date by adding what comes in and subtracting what goes    *)
(* out, both divided by the number of taps and rounded.                    *)
(***************************************************************************)
EXTENDS Integers

CONSTANTS
  Half,        \* half the number of taps, 1 << (log2taps - 1)
  LeakHalf,    \* half the time constant of a level, 1 << 4
  Peak,        \* the largest magnitude of a sample
  MaxPower     \* bound on Pstates for model checking

ASSUME LevelsAssumption ==
  /\ Half \in Nat \ {0} /\ LeakHalf \in Nat \ {0}
  /\ Peak \in Nat /\ MaxPower \in Nat

VARIABLES
  tx,              \* the sample of this call
  acc, level,      \* Ltxacc and Ltx
  hist, pos,       \* fir_state.history and fir_state.curr_pos
  Pstates,
  sums             \* history: sums[i] is the sum of the squares of hist below i

vars == <<tx, acc, level, hist, pos, Pstates, sums>>

Taps == 2 * Half
Leak == 2 * LeakHalf
Samples == -Peak..Peak
Magnitude(x) == IF x < 0 THEN -x ELSE x
Least(x) == IF x < 0 THEN 0 ELSE x
energy == sums[Taps]

Init ==
  /\ tx = 0
  /\ acc = 0 /\ level = 0
  /\ hist = [i \in 0..Taps - 1 |-> 0] /\ pos = Taps - 1
  /\ Pstates = 0 /\ sums = [i \in 0..Taps |-> 0]

\* Mutant: what is subtracted is lost to truncation.
AverageTruncatedLeak(x) ==
  /\ acc' = acc + Magnitude(x) - (level \div 2)
  /\ level' = (acc' + LeakHalf) \div Leak

Average(x) ==
  /\ acc' = acc + Magnitude(x) - level
  /\ level' = (acc' + LeakHalf) \div Leak

\* Mutant: the difference is not rounded.
PowerTruncated(x) ==
  Pstates' = Least(Pstates + ((x * x - hist[pos] * hist[pos]) \div Taps))

\* "out with the old and in with the new"
Power(x) ==
  Pstates' = Least(Pstates + ((x * x - hist[pos] * hist[pos] + Half) \div Taps))

Sample(x) ==
  /\ tx' = x
  /\ Average(x)
  /\ Power(x) /\ Pstates' <= MaxPower
  /\ sums' = [i \in 0..Taps |->
               sums[i] + IF i > pos THEN x * x - hist[pos] * hist[pos] ELSE 0]
  /\ hist' = [hist EXCEPT ![pos] = x]
  /\ pos' = IF pos <= 0 THEN Taps - 1 ELSE pos - 1

Flush ==
  /\ acc' = 0 /\ level' = 0
  /\ hist' = [i \in 0..Taps - 1 |-> 0] /\ pos' = Taps - 1
  /\ Pstates' = 0 /\ sums' = [i \in 0..Taps |-> 0]
  /\ UNCHANGED tx

Next == Flush \/ \E x \in Samples : Sample(x)
Spec == Init /\ [][Next]_vars

\* Samples keep coming as long as the call is up; in a pause they are zero.
FairSpec == Spec /\ WF_vars(Sample(0))

-----------------------------------------------------------------------------
\* Every variable has its type: no estimate is negative, so that the logarithm
\* of the power and the comparisons of levels are of magnitudes.
TypeOK ==
  /\ tx \in Samples
  /\ acc \in Nat /\ level \in Nat
  /\ hist \in [0..Taps - 1 -> Samples] /\ pos \in 0..Taps - 1
  /\ Pstates \in Nat /\ sums \in [0..Taps -> Int]

\* A level never exceeds the largest sample, so that its accumulator, of 32
\* bits in the code, has room, and 7 * level and 16 * level do not overflow.
LevelBounded == level <= Peak /\ acc < Leak * Peak + LeakHalf

\* One sample moves Pstates away from the true average of the squares by
\* at most half a unit, the clamp at zero included.
PowerErrorStep ==
  [][Magnitude(Taps * Pstates' - energy') <=
       Magnitude(Taps * Pstates - energy) + Half]_vars

\* In a pause the level goes down to zero and stays there, whatever came
\* before: neither rounding nor the leak holds it up.
SilenceIsSeen == <>[](tx = 0) => <>[](level = 0)
=============================================================================
