----------------------------- MODULE LossyStream -----------------------------
(***************************************************************************)
(* What a LAPM link promises to the applications at its two ends even when *)
(* frames are lost and the link is reset: each call that gives octets to   *)
(* one begins with a piece that was handed over at the other end, in order *)
(* and never twice. Some may be missing. It is not promised that the call  *)
(* gives nothing else: behind the piece may come header octets and other   *)
(* pieces, which may have been given already or be given again.            *)
(***************************************************************************)
EXTENDS Naturals, Sequences

CONSTANTS Caller, Answerer

Peer == {Caller, Answerer}
Other(p) == IF p = Caller THEN Answerer ELSE Caller

VARIABLES
  read,      \* per end: how many pieces the link has taken from the application
  delivered, \* per end: the piece that the last call to the application began with
  behind     \* per end: what came behind it, 0 for the octets of a header

Init ==
  /\ read = [p \in Peer |-> 0]
  /\ delivered = [p \in Peer |-> 0]
  /\ behind = [p \in Peer |-> <<>>]

Take(p) ==
  /\ read' = [read EXCEPT ![p] = @ + 1]
  /\ UNCHANGED <<delivered, behind>>

\* Anything of that kind may come behind the piece (a quantifier over Seq could
\* not be evaluated).
Deliver(p) ==
  /\ \E n \in delivered[p] + 1 .. read[Other(p)] : delivered' = [delivered EXCEPT ![p] = n]
  /\ behind' = [behind EXCEPT ![p] = behind'[p]]
  /\ behind'[p] \in Seq(0 .. read[Other(p)])
  /\ UNCHANGED read

Next == \E p \in Peer : Take(p) \/ Deliver(p)

Spec == Init /\ [][Next]_<<read, delivered, behind>>
=============================================================================
