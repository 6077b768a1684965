------------------------------ MODULE MCNList ------------------------------
(***************************************************************************)
(* Small instances of NList: data two of which compare equal.              *)
(***************************************************************************)
EXTENDS NList, TLC

CONSTANTS n1, n2, n3, n4, d1, d2, d3, d4

\* The equal ones come first and last, or next to each other, as the callers
\* push them.
TwoEqual   == (d1 :> 1) @@ (d2 :> 1) @@ (d3 :> 2)
ThreeEqual == TwoEqual @@ (d4 :> 1)
=============================================================================
