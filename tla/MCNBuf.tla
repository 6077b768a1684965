------------------------------- MODULE MCNBuf -------------------------------
(***************************************************************************)
(* Small instances of NBuf: three bytes, two of which end something.       *)
(***************************************************************************)
EXTENDS NBuf
=============================================================================
