--------------------------------- MODULE Fir ---------------------------------
(***************************************************************************)
(* The background filter of the echo canceller and its adaption:           *)
(* fir16_create, fir16_flush and fir16 of                                  *)
(* src/spandsp-0.0.3/src/spandsp/fir.h and lms_adapt_bg of                 *)
(* src/spandsp-0.0.3/src/echo.c. The foreground filter is one that is not  *)
(* adapted.                                                                *)
(*                                                                         *)
(* The history is kept in a circular buffer that is filled downwards, at a *)
(* position the filter and the canceller each keep for themselves. How the *)
(* buffer is read depends on the build, here the layout:                   *)
(*   "circular"  plain C                                                   *)
(*   "doubled"   MMX and SSE2: every sample is stored twice, so that the   *)
(*               filter reads straight on; the adaption is the plain one   *)
(*   "straight"  Blackfin: stored twice, both read straight on             *)
(***************************************************************************)
EXTENDS Integers, Functions, FirBuffer

CONSTANTS
  Samples,     \* of the transmitted signal
  Factors,     \* of lms_adapt_bg
  One,         \* 1 << 15, the unit of the fixed point numbers
  Half,        \* 1 << 14
  Top16,       \* 1 << 15: an int16_t is in -Top16..Top16 - 1
  Layouts

ASSUME FirAssumption ==
  /\ Taps \in Nat \ {0} /\ 0 \in Samples /\ Samples \subseteq Int /\ Factors \subseteq Int
  /\ One \in Nat \ {0} /\ Half \in Nat /\ Top16 \in Nat \ {0}
  /\ Layouts \subseteq {"circular", "doubled", "straight"}

VARIABLES
  layout,
  history, bg_fir_pos, \* fir_state_bg.history and fir_state_bg.curr_pos
  ec_pos,              \* ec->curr_pos
  coeffs,              \* fir_taps16[1]
  y,                   \* what fir16 returned
  phase                \* "filtered" between fir16 and lms_adapt_bg

firVars == <<layout, history, bg_fir_pos, ec_pos, coeffs, y, phase>>

\* The sums are exact: one that wraps to 32 bits has the same 16 bits from One
\* on. The Blackfin's accumulator saturates instead, which is left out.
Int16(n) == ((n + Top16) % (2 * Top16)) - Top16
Output(c, h) ==
  Int16(FoldFunction(LAMBDA a, b : a + b, 0, [i \in 0..Taps - 1 |-> c[i] * h[i]]) \div One)
Adapted(c, h, f) == Int16(c + Int16((h * f + Half) \div One))

Places == IF layout = "circular" THEN 0..Taps - 1 ELSE 0..2 * Taps - 1

\* Mutant: one place too early.
WrappedEarly(pos, i) == IF i >= Taps - pos - 1 THEN i - (Taps - pos - 1) ELSE i + pos

\* Where the loops over two pieces find the sample for tap i: from offset1 on
\* at the start of the buffer.
Wrapped(pos, i) == IF i >= Taps - pos THEN i - (Taps - pos) ELSE i + pos

FirPlace(pos, i) == IF layout = "circular" THEN Wrapped(pos, i) ELSE pos + i
LmsPlace(pos, i) == IF layout = "straight" THEN pos + i ELSE Wrapped(pos, i)

FirInit ==
  /\ layout \in Layouts
  /\ history = [p \in Places |-> 0]
  /\ bg_fir_pos = Taps - 1 /\ ec_pos = Taps - 1
  /\ coeffs = [i \in 0..Taps - 1 |-> 0]
  /\ y = 0 /\ phase = "idle"

Stored(x) == [p \in Places |-> IF p = bg_fir_pos \/ p = bg_fir_pos + Taps THEN x ELSE history[p]]

fir16(x) ==
  /\ phase = "idle" /\ phase' = "filtered"
  /\ history' = Stored(x)
  /\ y' = Output(coeffs, [i \in 0..Taps - 1 |-> history'[FirPlace(bg_fir_pos, i)]])
  /\ bg_fir_pos' = Roll(bg_fir_pos)
  /\ UNCHANGED <<layout, ec_pos, coeffs>>

lms_adapt_bg(f) ==
  /\ phase = "filtered" /\ phase' = "idle"
  /\ coeffs' = [i \in 0..Taps - 1 |-> Adapted(coeffs[i], history[LmsPlace(ec_pos, i)], f)]
  /\ ec_pos' = Roll(ec_pos)
  /\ UNCHANGED <<layout, history, bg_fir_pos, y>>

\* A sample in the hangover of the double talk detector.
NoAdaption ==
  /\ phase = "filtered" /\ phase' = "idle"
  /\ ec_pos' = Roll(ec_pos)
  /\ UNCHANGED <<layout, history, bg_fir_pos, coeffs, y>>

\* echo_can_flush, between two samples.
FirFlush ==
  /\ phase = "idle"
  /\ history' = [p \in Places |-> 0]
  /\ bg_fir_pos' = Taps - 1 /\ ec_pos' = Taps - 1
  /\ coeffs' = [i \in 0..Taps - 1 |-> 0]
  /\ UNCHANGED <<layout, y, phase>>

FirNext ==
  \/ \E x \in Samples : fir16(x)
  \/ \E f \in Factors : lms_adapt_bg(f)
  \/ NoAdaption \/ FirFlush
FirSpec == FirInit /\ [][FirNext]_firVars

-----------------------------------------------------------------------------
\* The place of the sample i samples old, counted from the last one stored.
Delayed(i) == IF bg_fir_pos + 1 + i >= Taps THEN bg_fir_pos + 1 + i - Taps ELSE bg_fir_pos + 1 + i

Line == INSTANCE DelayLine WITH line <- [i \in 0..Taps - 1 |-> history[Delayed(i)]]

\* In each build the filter and its adaption implement the delay line, though
\* they find their place in the history by different positions and by different
\* arithmetic (fir.h 169-268, echo.c 149-182, 226-253).
ImplementsDelayLine == Line!Spec
=============================================================================
