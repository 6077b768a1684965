------------------------------ MODULE MCNAlloc ------------------------------
(***************************************************************************)
(* Small instances of NAlloc: a long string that needs 16 bits, a counter  *)
(* that reaches its limit, and tuples with equal items, one of them longer *)
(* than 16 bits allow.                                                     *)
(***************************************************************************)
EXTENDS NAlloc, TLC

CONSTANTS u1, u2, u3, u4, u5, short, long

Lengths   == (short :> 1) @@ (long :> 3)
Widths    == {<<short, 8>>, <<long, 16>>}
TwoEqual  == (1 :> 1) @@ (2 :> 1) @@ (3 :> 2)

\* The callers keep to one width a string.
ASSUME CallersKeep == OneWidth

Sorts == INSTANCE NSort

\* The arrays that are sorted before anything else happens
SortKeys == {3, 5, 8}
Arrays   == UNION {[0 .. n - 1 -> SortKeys] : n \in 0 .. 7}

\* n_tuple_sort, n_tuple_qsort and n_tuple_isort sort every short array, of
\* many equal items too, and the default cmpf orders what is close together.
SortsRight ==
  life = "none" /\ kind = "malloc" /\ idx = -1 /\ key = 0 /\ tuple = <<>> /\ got = <<>> =>
    /\ \A keys \in Arrays : Sorts!SortsKeep(keys)
    /\ Sorts!DefaultOrders(20, 4)

\* Nothing tells users apart.
AnyUser   == Permutations(Users)
=============================================================================
