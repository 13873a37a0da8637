---------------------------- MODULE MCEchoNumbers ----------------------------
(* Small instances of DcFilter and EchoLevels for TLC, side by side. The two  *)
(* share no variable, and every property is about one of them, so that a      *)
(* behaviour follows one and leaves the other as it began.                    *)
(*                                                                            *)
(* Largest, One and Top are in the proportion of echo_can_hpf_tx,             *)
(* Largest * One = Top \div 2, where there is less room than in               *)
(* echo_can_update. The levels have four taps, samples of two magnitudes and  *)
(* a leak of 4; the half of each is the rounding constant.                    *)
EXTENDS DcFilter, EchoLevels

VARIABLE followed

FollowsFilter == followed = "filter"
FollowsLevels == followed = "levels"

NumbersInit == DcInit /\ Init /\ followed \in {"filter", "levels"}

NumbersNext ==
  \/ FollowsFilter /\ DcNext /\ UNCHANGED <<vars, followed>>
  \/ FollowsLevels /\ Next /\ UNCHANGED <<dcVars, followed>>

\* Fairness as in DcFairSpec and FairSpec, for the one that is followed.
NumbersFairSpec ==
  /\ NumbersInit /\ [][NumbersNext]_<<dcVars, vars, followed>>
  /\ WF_dcVars(FollowsFilter /\ DcSample /\ UNCHANGED <<vars, followed>>)
  /\ WF_vars(FollowsLevels /\ Sample(0) /\ UNCHANGED <<dcVars, followed>>)
=============================================================================
