------------------------------ MODULE ObjStack ------------------------------
(***************************************************************************)
(* What an obstack promises: a stack of objects that keep what was put in  *)
(* them, with one that is still growing on top.  Any object can be freed,  *)
(* and all that came after it with it.  When memory has run out calls are  *)
(* refused, or end the program, until there is some again.                 *)
(*                                                                         *)
(* lib/obstack.c implements this; see NObstack.                            *)
(***************************************************************************)
EXTENDS Integers, Sequences

CONSTANT Texts   \* what is added to an object at a time

VARIABLES
  open,     \* the stack is in use
  objs,     \* the objects, the oldest first
  growing,  \* the one on top, not finished
  short     \* memory has run out

vars == <<open, objs, growing, short>>

Init == open = FALSE /\ objs = <<>> /\ growing = <<>> /\ short = FALSE

New == ~open /\ open' = TRUE /\ objs' = <<>> /\ growing' = <<>> /\ short' \in BOOLEAN

Grow(t) == open /\ growing' = growing \o t /\ short' = FALSE /\ UNCHANGED <<open, objs>>

Finish ==
  /\ open /\ ~short
  /\ objs' = Append(objs, growing) /\ growing' = <<>>
  /\ UNCHANGED <<open, short>>

Push(t) ==
  /\ open /\ short' = FALSE
  /\ objs' = Append(objs, growing \o t) /\ growing' = <<>>
  /\ UNCHANGED open

\* A new object that begins as an old one, which stays where it is.
PushLonger(i, t) == growing = <<>> /\ Push(objs[i] \o t)

Free(i) ==
  /\ open /\ objs' = SubSeq(objs, 1, i - 1) /\ growing' = <<>>
  /\ UNCHANGED <<open, short>>

FreeAll == open /\ open' = FALSE /\ objs' = <<>> /\ growing' = <<>> /\ short' = FALSE

Refuse == open /\ short' = TRUE /\ UNCHANGED <<open, objs, growing>>
Die    == open /\ short' = TRUE /\ open' = FALSE /\ UNCHANGED <<objs, growing>>

Next ==
  \/ New \/ Finish \/ FreeAll \/ Refuse \/ Die
  \/ \E t \in Texts : Grow(t) \/ Push(t)
  \/ \E i \in DOMAIN objs : Free(i) \/ \E t \in Texts : PushLonger(i, t)

Spec == Init /\ [][Next]_vars
=============================================================================
