------------------------------ MODULE FirBuffer ------------------------------
(* The circular buffer that a filter keeps its history in, filled downwards:   *)
(* the filters of the canceller (fir.h) and the canceller (echo.c) each count  *)
(* the position for themselves.                                                *)
EXTENDS Integers

CONSTANT Taps    \* filter length

Roll(pos) == IF pos <= 0 THEN Taps - 1 ELSE pos - 1
=============================================================================
