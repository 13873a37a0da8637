------------------------------- MODULE DcFilter -------------------------------
(***************************************************************************)
(* The filter that removes DC, src/spandsp-0.0.3/src/echo.c. It is written *)
(* twice: on the samples received, inside echo_can_update (rx_1, rx_2),    *)
(* and on those to be sent, in echo_can_hpf_tx (tx_1, tx_2). One module    *)
(* stands for both; they differ in the values of Largest and Limit.        *)
(*                                                                         *)
(* Arithmetic is that of an int of the machine, which wraps.               *)
(***************************************************************************)
EXTENDS Integers

CONSTANTS
  Part,        \* a sixteenth of 1 << 15, the unit of the fixed point numbers
  Largest,     \* the largest magnitude of a sample: 32768, or 16384 received
  Limit,       \* what the output is limited to: 32767, or 16383 received
  Top          \* 1 << 31: an int is in -Top..Top - 1

One == 16 * Part
DcSamples == -Largest..Largest
DcMagnitude(n) == IF n < 0 THEN -n ELSE n

\* "Make sure the gain of the HPF is 1.0."
Scale(x) == x * One - ((x * One) \div 16)
DcPeak == Scale(Largest)

ASSUME DcAssumption ==
  /\ Part \in Nat \ {0} /\ Largest \in Nat \ {0} /\ Limit \in Nat
  /\ Top \in Nat /\ 2 * DcPeak < Top

VARIABLES
  on,          \* adaption_mode & ECHO_CAN_USE_RX_HPF, or _TX_HPF
  state,       \* rx_1 or tx_1
  last,        \* rx_2 or tx_2: the last scaled sample that was filtered
  out,         \* the sample after the filter
  tick,        \* flips with every sample
  total        \* history: the sum of the eighths of state that leaked out

dcVars == <<on, state, last, out, tick, total>>

\* The sum or difference of two ints.
Int32(n) ==
  IF n >= Top THEN n - 2 * Top
  ELSE IF n < -Top THEN n + 2 * Top
  ELSE n

Limited(n) == IF n > Limit THEN Limit ELSE IF n < -Limit THEN -Limit ELSE n

DcInit == on \in BOOLEAN /\ state = 0 /\ last = 0 /\ out = 0 /\ tick = 0 /\ total = 0

\* Mutant: the samples are not scaled down.
FilterUnscaled(x) ==
  LET tmp == x * One
  IN  /\ on
      /\ state' = Int32(state + Int32(Int32(-(state \div 8) + tmp) - last))
      /\ last' = tmp
      /\ out' = Limited(state' \div One)
      /\ total' = total + (state \div 8)
      /\ UNCHANGED on

\* Mutant: the leak is an eighth of the output, not of the state.
FilterCoarse(x) ==
  LET tmp == Scale(x)
      leak == One * ((state \div One) \div 8)
  IN  /\ on
      /\ state' = Int32(state + Int32(Int32(-leak + tmp) - last))
      /\ last' = tmp
      /\ out' = Limited(state' \div One)
      /\ total' = total + leak
      /\ UNCHANGED on

Filter(x) ==
  LET tmp == Scale(x)
  IN  /\ on
      /\ state' = Int32(state + Int32(Int32(-(state \div 8) + tmp) - last))
      /\ last' = tmp
      /\ out' = Limited(state' \div One)
      /\ total' = total + (state \div 8)
      /\ UNCHANGED on

\* Without the mode bit the sample passes, and the states stay as they are.
Pass(x) ==
  /\ ~on
  /\ out' = x
  /\ UNCHANGED <<on, state, last, total>>

DcSample ==
  /\ \E x \in DcSamples : Filter(x) \/ Pass(x)
  /\ tick' = 1 - tick

\* proc_write_mode, between two samples.
WriteDcMode ==
  /\ on' \in BOOLEAN
  /\ UNCHANGED <<state, last, out, tick, total>>

\* Mutant: one of the two variables is not reset.
FlushState ==
  /\ state' = 0 /\ total' = 0
  /\ UNCHANGED <<on, last, out, tick>>

\* echo_can_flush, between two samples.
DcFlush ==
  /\ state' = 0 /\ last' = 0 /\ total' = 0
  /\ UNCHANGED <<on, out, tick>>

DcNext == DcSample \/ WriteDcMode \/ DcFlush
DcSpec == DcInit /\ [][DcNext]_dcVars

\* The sample clock does not stop.
DcFairSpec == DcSpec /\ WF_dcVars(DcSample)

-----------------------------------------------------------------------------
\* Every variable has its type.
DcTypeOK ==
  /\ on \in BOOLEAN
  /\ state \in -Top..Top - 1 /\ last \in -DcPeak..DcPeak
  /\ out \in DcSamples \cup -Limit..Limit
  /\ tick \in {0, 1} /\ total \in Int

\* The state is what it would be in unbounded arithmetic, although a sum on
\* the way to it exceeds an int (echo.c 407 and 646), also after the filter
\* was switched off and on again and after a flush.
Exact == state = last - total /\ DcMagnitude(state) <= 2 * DcPeak

\* What the filter lets through, added up since the last flush, never exceeds
\* one peak sample (in eighths): no DC is left, whatever comes in.
NoDcLeft == DcMagnitude(total) <= DcPeak

\* "note 32 bit precision required otherwise values do not track down to 0"
\* (echo.c 384-385): under a constant input the output becomes and stays 0.
TracksToZero ==
  \A x \in DcSamples : <>[](on /\ last = Scale(x)) => <>[](out = 0)
=============================================================================
