------------------------------- MODULE MCZaptap -------------------------------
(* Small instances of Zaptap for TLC: buffers of two samples, which take six   *)
(* slots, two channels, and recordings of four blocks.                         *)
EXTENDS Zaptap
=============================================================================
