------------------------------- MODULE MCLapm -------------------------------
(* Small instances of Lapm for TLC.                                          *)
EXTENDS Lapm, TLC

CONSTANTS calling, answering

Scenario(dt, i, j, n) == [detect |-> dt, data |-> (calling :> i) @@ (answering :> j), faults |-> n]
SmallScenarios ==
  {Scenario(FALSE, 1, 0, 1), Scenario(FALSE, 2, 0, 0),
   Scenario(FALSE, 1, 1, 0), Scenario(TRUE, 1, 0, 0)}

QuietScenarios == {Scenario(FALSE, 1, 1, 0)}

OtherMakes == {[type |-> "DISC"], [type |-> "DM", pf |-> TRUE]}
=============================================================================
