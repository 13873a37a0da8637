-------------------------------- MODULE MCFir --------------------------------
(* A small instance of Fir for TLC: the three builds, with signed samples and  *)
(* factors and units so coarse that outputs and taps round, truncate and wrap. *)
EXTENDS Fir

SmallSamples == {0, 1, -3}
SmallFactors == {1, -2}
=============================================================================
