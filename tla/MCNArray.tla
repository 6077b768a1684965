------------------------------ MODULE MCNArray ------------------------------
(***************************************************************************)
(* Small instances of NArray: data two of which compare equal.             *)
(***************************************************************************)
EXTENDS NArray, TLC

CONSTANTS d1, d2, d3

TwoEqual == (d1 :> 2) @@ (d2 :> 1) @@ (d3 :> 2)

\* The rows that are appended at once: none, one and two items.
ShortRows == {<<>>, <<d2>>, <<d1, d3>>, <<d3, d1>>}

\* Nothing tells d1 from d3 but their names.
Twins == Permutations({d1, d3})
=============================================================================
