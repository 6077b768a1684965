------------------------------ MODULE MCNIobuf ------------------------------
(***************************************************************************)
(* Small instances of NIobuf: a file of some units, read and skipped in    *)
(* several pieces, with lines of different lengths.                        *)
(***************************************************************************)
EXTENDS NIobuf

ShortLines == {0, 2, 3}
=============================================================================
