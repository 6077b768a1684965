------------------------------- MODULE IoFile -------------------------------
(***************************************************************************)
(* What a stream over a file promises.  The bytes of a file are written    *)
(* once and in order, so that a byte is named by its place: a file is as   *)
(* long as "size" says, and a read delivers "n" bytes from a place on.     *)
(* Whoever writes may crash: the file keeps at least what was flushed, and *)
(* lacks its proper end.  A reader of such a file gets a beginning of it.  *)
(*                                                                         *)
(* niobuf.c over niobuf_zstd.c implements this; see NIobuf.                *)
(***************************************************************************)
EXTENDS Integers

CONSTANTS
  EndOfLine    \* the places at which there is a newline

VARIABLES
  mode,    \* "closed", "write" or "read"
  size,    \* the bytes the file takes
  safe,    \* those that a crash does not touch
  ended,   \* the file was closed as it should
  pos,     \* the place of the next byte
  req,     \* the call in progress
  res      \* the answer of the last call

vars == <<mode, size, safe, ended, pos, req, res>>

NoCall     == [op |-> "none", n |-> 0]
Bytes(p, k) == <<"bytes", p, k>>
Count(k)   == <<"count", k>>
Sought(off, whence) == <<"sought", off, whence>>
Nothing    == <<"nothing">>

Init ==
  /\ mode = "closed" /\ size = 0 /\ safe = 0 /\ ended = FALSE
  /\ pos = 0 /\ req = NoCall /\ res = Nothing

Open(m) ==
  /\ mode = "closed" /\ m \in {"write", "read"}
  /\ mode' = m /\ pos' = 0 /\ res' = Nothing
  /\ IF m = "write" THEN size' = 0 /\ safe' = 0 /\ ended' = FALSE
                    ELSE UNCHANGED <<size, safe, ended>>
  /\ UNCHANGED req

Call ==
  /\ mode # "closed" /\ req = NoCall
  /\ req' \in [op : {"write", "flush", "close", "read", "gets"}, n : Nat]
  /\ UNCHANGED <<mode, size, safe, ended, pos, res>>

Return(answer) == req' = NoCall /\ res' = answer

\* A write takes the bytes some at a time, and returns when it has them all.
Accept ==
  /\ req.op = "write"
  /\ size < size' /\ size' <= pos + req.n
  /\ UNCHANGED <<mode, safe, ended, pos, req, res>>

Write ==
  /\ req.op = "write" /\ size = pos + req.n
  /\ pos' = size /\ Return(Count(req.n))
  /\ UNCHANGED <<mode, size, safe, ended>>

\* What is flushed is safe; the answer of a flush says nothing.
Flush ==
  /\ req.op = "flush"
  /\ safe' = size
  /\ Return(Count(0)) \/ Return(Count(-1))
  /\ UNCHANGED <<mode, size, ended, pos>>

Close ==
  /\ req.op = "close" \/ (mode = "read" /\ req = NoCall)
  /\ mode' = "closed" /\ Return(Nothing)
  /\ IF mode = "write" THEN safe' = size /\ ended' = TRUE
                       ELSE UNCHANGED <<safe, ended>>
  /\ UNCHANGED <<size, pos>>

Crash ==
  /\ mode = "write"
  /\ mode' = "closed" /\ ended' = FALSE /\ Return(Nothing)
  /\ safe <= size' /\ size' <= size /\ safe' = size'
  /\ UNCHANGED pos

\* A read of a complete file is short only at its end.
Whole(n, k)  == k = n \/ pos + k = size
\* A line ends with its newline, the end of the file, or the buffer.
ALine(n, k) ==
  /\ \A i \in pos .. pos + k - 2 : i \notin EndOfLine
  /\ \/ ended => Whole(n, k)
     \/ k > 0 /\ pos + k - 1 \in EndOfLine

Read ==
  /\ \E k \in 0 .. req.n :
       /\ pos + k <= size
       /\ CASE req.op = "read" -> ended => Whole(req.n, k)
            [] req.op = "gets" -> ALine(req.n, k)
            [] OTHER           -> FALSE
       /\ pos' = pos + k /\ Return(Bytes(pos, k))
  /\ UNCHANGED <<mode, size, safe, ended>>

\* A reader of a complete file goes to any place of it.
Seek(off, whence) ==
  /\ mode = "read" /\ ended /\ req = NoCall
  /\ pos' = IF whence = "cur" THEN pos + off ELSE off
  /\ pos' \in 0 .. size
  /\ Return(Sought(off, whence))
  /\ UNCHANGED <<mode, size, safe, ended>>

Tell ==
  /\ mode # "closed" /\ req = NoCall
  /\ Return(Count(pos))
  /\ UNCHANGED <<mode, size, safe, ended, pos>>

Next ==
  \/ \E m \in {"write", "read"} : Open(m)
  \/ Call \/ Accept \/ Write \/ Flush \/ Close \/ Crash \/ Read \/ Tell
  \/ \E off \in -size .. size, whence \in {"set", "cur"} : Seek(off, whence)

Spec == Init /\ [][Next]_vars
=============================================================================
