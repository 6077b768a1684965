----------------------------- MODULE MCNStream -----------------------------
(***************************************************************************)
(* Small instances of NStream: bytes below 4, so that a number of one byte *)
(* is below 3 where the code says UINT8_MAX, and one of two below 15.      *)
(***************************************************************************)
EXTENDS NStream

AroundMax   == {0, 2, 3, 4, 14, 15, 16, 255}
FewTexts    == {<<>>, <<0>>, <<2, 3>>, <<1, 0, 2>>, <<2, 2, 3, 2, 2, 2, 2>>}
=============================================================================
