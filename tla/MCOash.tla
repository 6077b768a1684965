------------------------------- MODULE MCOash -------------------------------
(***************************************************************************)
(* Small instances of Oash: the keys, their hashes and lengths.            *)
(***************************************************************************)
EXTENDS Oash, TLC

CONSTANTS k1, k2, k3, k4, k5

\* Keys that crowd a table of four slots, of which the first home is slot 3:
\* k1 and k2 collide in every table, as their whole hashes do, k5 collides
\* with them only while the table has four slots, k4 and k3 have the slots
\* before and after.  k4 is a prefix of k5.
CrowdHash   == (k1 :> 3) @@ (k2 :> 3) @@ (k3 :> 4) @@ (k4 :> 2) @@ (k5 :> 7)
CrowdLen    == (k1 :> 2) @@ (k2 :> 2) @@ (k3 :> 2) @@ (k4 :> 1) @@ (k5 :> 2)
Hash4       == [k \in {k1, k2, k3, k4} |-> CrowdHash[k]]
Len4        == [k \in {k1, k2, k3, k4} |-> CrowdLen[k]]
Prefix4     == {<<k, k>> : k \in {k1, k2, k3, k4}}
Prefix5     == Prefix4 \cup {<<k5, k5>>, <<k4, k5>>}
Hash3       == [k \in {k1, k2, k4} |-> CrowdHash[k]]
Len3        == [k \in {k1, k2, k4} |-> CrowdLen[k]]
Prefix3     == {<<k, k>> : k \in {k1, k2, k4}}

\* Nothing tells k1 from k2 but their names.
Twins == Permutations({k1, k2})

\* k2 and k3 have the same length and the same hash, and k3 is a prefix of
\* the longer k1, whose home is the slot before theirs.
ClashHash   == (k1 :> 4) @@ (k2 :> 1) @@ (k3 :> 1) @@ (k4 :> 8)
ClashLen    == (k1 :> 3) @@ (k2 :> 2) @@ (k3 :> 2) @@ (k4 :> 3)
ClashPrefix == Prefix4 \cup {<<k3, k1>>}
=============================================================================
