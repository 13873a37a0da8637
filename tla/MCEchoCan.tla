------------------------------ MODULE MCEchoCan ------------------------------
(* Small instances of EchoCan for TLC: a hangover longer than the streak of    *)
(* good samples, as 600 and 6 are, and a position that wraps inside both.      *)
EXTENDS EchoCan
=============================================================================
