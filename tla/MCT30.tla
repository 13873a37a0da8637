------------------------------- MODULE MCT30 -------------------------------
(* T30 with a document of two pages, of two blocks of two frames each when   *)
(* error correction is used.                                                 *)
EXTENDS T30

\* Either end sends, with and without error correction; the receiver can or
\* cannot take the document.
MCScenarios ==
  {[compatible |-> c, ecm |-> e, sender |-> p] : c \in BOOLEAN, e \in BOOLEAN, p \in Peer}
=============================================================================
