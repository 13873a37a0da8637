----------------------------- MODULE MCOslecWrap -----------------------------
(* The instance of OslecWrap for TLC: two calls, one reader of /proc, two      *)
(* addresses for cancellers, and allocations that may fail.                    *)
EXTENDS OslecWrap

CONSTANTS c1, c2, p1, e1, e2
=============================================================================
