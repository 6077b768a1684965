----------------------------- MODULE MCNObstack -----------------------------
(***************************************************************************)
(* Small instances of NObstack.                                            *)
(***************************************************************************)
EXTENDS NObstack
=============================================================================
