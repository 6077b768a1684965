------------------------------- MODULE MCNHash -------------------------------
(***************************************************************************)
(* Small instances of NHash: the keys, their hashes and their shifts.      *)
(***************************************************************************)
EXTENDS NHash, TLC

CONSTANTS k1, k2, k3, k4, d1

\* k1 and k2 collide in every table, k3 with them in one of four slots only;
\* in a table of sixteen the slot above k1 is that above k2 too, and the slot
\* below them is the home of k4.  The shift of k4 is negative.
HashV  == (k1 :> 6) @@ (k2 :> 6) @@ (k3 :> 10) @@ (k4 :> 5)
ShiftV == (k1 :> 1) @@ (k2 :> 1) @@ (k3 :> 1) @@ (k4 :> -3)
=============================================================================
