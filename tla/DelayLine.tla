------------------------------ MODULE DelayLine ------------------------------
(***************************************************************************)
(* What an adaptive FIR filter promises: each tap is applied to, and       *)
(* adapted by, the sample as many samples old as the tap's number. What    *)
(* is computed from a tap and its sample is left open.                     *)
(***************************************************************************)
EXTENDS Naturals

CONSTANTS
  Taps,
  Samples,
  Factors,
  Output(_, _),        \* of the taps and the delayed samples
  Adapted(_, _, _)     \* a tap, given its sample and the factor

VARIABLES
  line,       \* line[i] is the sample i samples old
  coeffs,
  y,          \* the last output
  phase       \* "idle" between samples, "filtered" before the adaption

lineVars == <<line, coeffs, y, phase>>

Silent == [i \in 0..Taps - 1 |-> 0]

Init == line = Silent /\ coeffs = Silent /\ y = 0 /\ phase = "idle"

Filter(x) ==
  /\ phase = "idle" /\ phase' = "filtered"
  /\ line' = [i \in 0..Taps - 1 |-> IF i = 0 THEN x ELSE line[i - 1]]
  /\ y' = Output(coeffs, line')
  /\ UNCHANGED coeffs

Adapt(f) ==
  /\ phase = "filtered" /\ phase' = "idle"
  /\ coeffs' = [i \in 0..Taps - 1 |-> Adapted(coeffs[i], line[i], f)]
  /\ UNCHANGED <<line, y>>

Hold ==
  /\ phase = "filtered" /\ phase' = "idle"
  /\ UNCHANGED <<line, coeffs, y>>

Flush ==
  /\ phase = "idle"
  /\ line' = Silent /\ coeffs' = Silent
  /\ UNCHANGED <<y, phase>>

Next ==
  \/ \E x \in Samples : Filter(x)
  \/ \E f \in Factors : Adapt(f)
  \/ Hold \/ Flush
Spec == Init /\ [][Next]_lineVars
=============================================================================
