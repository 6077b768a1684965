------------------------------ MODULE MemFile ------------------------------
(***************************************************************************)
(* What a growing buffer promises: a text in memory that is written at a   *)
(* place, as a file is, and read by an iterator at a place of its own,     *)
(* bytes at a time or line by line.  A write that reaches the end of the   *)
(* text may be refused, or end the program: memory runs out, and a buffer  *)
(* of fixed size takes no more.                                            *)
(*                                                                         *)
(* nbuf.c implements this; see NBuf.                                       *)
(***************************************************************************)
EXTENDS Integers

CONSTANTS
  Bytes, Nul,   \* the bytes, and the one that ends a string
  Sizes         \* the numbers of bytes written and read at a time

VARIABLES
  open,   \* there is a buffer
  len,    \* the length of the text,
  text,   \* a function from 0 .. len - 1
  place,  \* where the next byte is written
  at,     \* where the iterator reads
  res     \* the answer of the last call

Count(k)    == <<"count", k>>
Piece(n, f) == <<"piece", n, f>>
Nothing     == <<"nothing">>

Larger(a, b) == IF a >= b THEN a ELSE b

Empty == [i \in 0 .. -1 |-> Nul]

Init == open = FALSE /\ len = 0 /\ text = Empty /\ place = 0 /\ at = 0 /\ res = Nothing

\* A new buffer is empty or holds some text already.
New ==
  /\ ~open /\ open' = TRUE /\ place' = 0 /\ at' = 0 /\ res' = Nothing
  /\ len' \in Nat /\ text' \in [0 .. len' - 1 -> Bytes]

\* The n bytes b are put at the place.  The byte that ends the string comes
\* after them and does not count, but it does replace a byte that is there.
Written(n, b, z) ==
  [i \in 0 .. Larger(len, place + n) - 1 |->
     IF i \in place .. place + n - 1 THEN b[i - place]
     ELSE IF z /\ i = place + n THEN Nul ELSE text[i]]

Write(n, b, z) ==
  /\ open
  /\ len' = Larger(len, place + n) /\ text' = Written(n, b, z)
  /\ place' = place + n /\ res' = Count(n)
  /\ UNCHANGED <<open, at>>

\* Nothing was written, for want of room behind the text, which what stays
\* inside it does not need: the answer is -1, but for a print.
Refuse(n, z) ==
  /\ open /\ place + n + (IF z THEN 1 ELSE 0) >= len
  /\ res' = Count(-1) \/ (z /\ res' = Count(n))
  /\ UNCHANGED <<open, len, text, place, at>>

End    == open /\ open' = FALSE /\ res' = Nothing /\ UNCHANGED <<len, text, place, at>>

Seek ==
  /\ open /\ place' \in 0 .. len /\ res' = Count(place')
  /\ UNCHANGED <<open, len, text, at>>

Clean ==
  /\ open /\ len' = 0 /\ text' = Empty /\ place' = 0 /\ res' = Nothing
  /\ UNCHANGED <<open, at>>

Rewind == open /\ at' = 0 /\ res' = Nothing /\ UNCHANGED <<open, len, text, place>>

Part(from, n) == Piece(n, [i \in 0 .. n - 1 |-> text[from + i]])

Get(n) ==
  /\ open /\ at + n <= len /\ at' = at + n /\ res' = Part(at, n)
  /\ UNCHANGED <<open, len, text, place>>

\* A line ends before the first end byte, or where the text does.
Gets(endl) ==
  /\ open
  /\ \E e \in at .. len :
       /\ at < len /\ (e < len => text[e] = endl)
       /\ \A i \in at .. e - 1 : text[i] # endl
       /\ at' = e + 1 /\ res' = Part(at, e - at)
  /\ UNCHANGED <<open, len, text, place>>

\* There is not so much, or no line, to be read.
NoMore == open /\ res' = Nothing /\ UNCHANGED <<open, len, text, place, at>>

Next ==
  \/ New \/ End \/ Seek \/ Clean \/ Rewind \/ NoMore
  \/ \E n \in Sizes, z \in BOOLEAN : Refuse(n, z) \/ \E b \in [0 .. n - 1 -> Bytes] : Write(n, b, z)
  \/ \E n \in Sizes : Get(n)
  \/ \E endl \in Bytes : Gets(endl)

vars == <<open, len, text, place, at, res>>
Spec == Init /\ [][Next]_vars
=============================================================================
