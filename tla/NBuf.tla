-------------------------------- MODULE NBuf --------------------------------
(***************************************************************************)
(* nbuf.c and the inline functions of nbuf.h: a buffer that grows, written *)
(* at a place in it, with an iterator.  Memory is a function from 0; what  *)
(* malloc returns is Junk until it is written.                             *)
(*                                                                         *)
(* An operator called Bug... is the operator defined after it with a       *)
(* mistake the code might have had; no action uses it.                     *)
(***************************************************************************)
EXTENDS Integers

CONSTANTS
  Bytes, Nul, NewLine,   \* the bytes, the one that ends a string, a line
  Junk,                  \* what nobody wrote
  Sizes,                 \* the sizes callers ask for, write and get
  PrintfSize,            \* sizeof(buf) in n_buf_vprintf
  Cleans,                \* the owners of memory that callers clean buffers of
  MaxRefs, MaxSize       \* bounds: references, and the text of a buffer

ASSUME BufAssumption ==
  /\ {Nul, NewLine} \subseteq Bytes /\ Junk \notin Bytes
  /\ Sizes \subseteq Nat /\ PrintfSize - 1 \in Sizes /\ MaxRefs \in Nat /\ MaxSize \in Nat

VARIABLES
  life,              \* "none", "live", or "dead": trurl_die, a segmentation fault
  refs,              \* _refcnt
  owner,             \* whose the data is: the "buffer"'s, the "caller"'s
                     \* (TN_BUF_CONSTDATA), or it is NULL ("nobody")
  fixed,             \* TN_BUF_CONSTSIZE
  allocated, data, size, off,
  offs,              \* of the iterator
  res                \* the answer of the last call

memory == <<owner, fixed, allocated, data>>
vars   == <<life, refs, memory, size, off, offs, res>>

Count(k)    == <<"count", k>>
Piece(n, f) == <<"piece", n, f>>
Nothing     == <<"nothing">>

Texts(n)     == [0 .. n - 1 -> Bytes]
Malloced(n)  == [i \in 0 .. n - 1 |-> Junk]
Larger(a, b) == IF a >= b THEN a ELSE b

TypeOK ==
  /\ life \in {"none", "live", "dead"} /\ refs \in 0 .. MaxRefs
  /\ owner \in {"nobody", "buffer", "caller"} /\ fixed \in BOOLEAN
  /\ allocated \in Nat /\ data \in [0 .. allocated - 1 -> Bytes \cup {Junk}]
  /\ size \in 0 .. allocated /\ off \in 0 .. size /\ offs \in Nat

Init ==
  /\ life = "none" /\ refs = 0 /\ owner = "nobody" /\ fixed = FALSE
  /\ allocated = 0 /\ data = Malloced(0) /\ size = 0 /\ off = 0 /\ offs = 0
  /\ res = Nothing

Die ==
  /\ life' = "dead" /\ res' = Nothing
  /\ UNCHANGED <<refs, memory, size, off, offs>>

(***************************************************************************)
(* n_buf_new, n_buf_init, n_buf_free, n_ref, n_buf_ctl, n_buf_clean        *)
(***************************************************************************)
New(n) ==
  /\ life = "none" /\ life' = "live"
  /\ refs' = 0 /\ size' = 0 /\ off' = 0 /\ offs' = 0 /\ res' = Nothing
  /\ owner' = IF n = 0 THEN "nobody" ELSE "buffer"
  /\ fixed' = FALSE /\ allocated' = n
  /\ data' = [i \in 0 .. n - 1 |-> IF i = 0 THEN Nul ELSE Junk]

\* n_buf_init of an empty n_buf_new, over memory of the caller; a buffer that
\* n_buf_restore_ex returns has its memory made over to it.
InitBuf(n, whose) ==
  /\ life = "none" /\ life' = "live"
  /\ refs' = 0 /\ off' = 0 /\ offs' = 0 /\ res' = Nothing
  /\ data' \in Texts(n) /\ size' = n /\ allocated' = n
  /\ owner' = whose /\ fixed' = TRUE

Ref ==
  /\ life = "live" /\ refs < MaxRefs
  /\ refs' = refs + 1 /\ res' = Nothing
  /\ UNCHANGED <<life, memory, size, off, offs>>

Free ==
  /\ life = "live" /\ res' = Nothing
  /\ IF refs > 0 THEN refs' = refs - 1 /\ UNCHANGED life
                 ELSE life' = "none" /\ UNCHANGED refs
  /\ UNCHANGED <<memory, size, off, offs>>

Ctl ==
  /\ life = "live" /\ ~fixed
  /\ fixed' = TRUE /\ res' = Nothing
  /\ UNCHANGED <<life, refs, owner, allocated, data, size, off, offs>>

\* The size stays when the memory of a caller is given up.  The string is
\* ended in data[0], which a buffer without memory does not have.
Clean ==
  /\ life = "live" /\ owner \in Cleans
  /\ CASE owner = "caller" ->
            /\ owner' = "nobody" /\ fixed' = FALSE /\ allocated' = 0
            /\ data' = Malloced(0) /\ off' = 0 /\ res' = Nothing
            /\ UNCHANGED <<life, refs, size, offs>>
       [] owner # "caller" /\ allocated = 0 -> Die
       [] OTHER ->
            /\ size' = 0 /\ off' = 0 /\ data' = [data EXCEPT ![0] = Nul] /\ res' = Nothing
            /\ UNCHANGED <<life, refs, owner, fixed, allocated, offs>>

(***************************************************************************)
(* n_buf_write_ex and what is made of it, n_buf_seek                       *)
(***************************************************************************)
\* The room asked for: a byte more than what is written.
BugAsked(n, z) == n + (IF z THEN 1 ELSE 0)
Asked(n, z)    == n + (IF z THEN 1 ELSE 0) + 1

BugHasRoom(k) == allocated >= k
HasRoom(k)    == allocated - off >= k

\* n_buf_grow doubles the size until there is more than what is there
\* already and what is asked for.
Doubled(k) ==
  LET base == IF allocated = 0 THEN 2 ELSE allocated
      req  == allocated + k
  IN  {s \in req + 1 .. 2 * req + 2 : \E j \in 0 .. k + 1 : s = base * 2 ^ j}

\* realloc keeps what was there.
BugRealloced(s) == Malloced(s)
Realloced(s)    == [i \in 0 .. s - 1 |-> IF i < allocated THEN data[i] ELSE Junk]

\* memcpy, and the byte that ends the string.
Put(d, n, b, z) ==
  [i \in DOMAIN d |-> IF i \in off .. off + n - 1 THEN b[i - off]
                      ELSE IF z /\ i = off + n THEN Nul ELSE d[i]]

BugGrown(n) == off + n
Grown(n)    == Larger(size, off + n)

WriteEx(n, b, z) ==
  /\ life = "live" /\ off + n <= MaxSize
  /\ IF HasRoom(Asked(n, z))
     THEN data' = Put(data, n, b, z) /\ UNCHANGED <<owner, allocated>>
     ELSE /\ ~fixed
          /\ \E s \in Doubled(Asked(n, z)) :
               /\ allocated' = s /\ data' = Put(Realloced(s), n, b, z)
               /\ owner' = "buffer"
  /\ off' = off + n /\ size' = Grown(n) /\ res' = Count(n)
  /\ UNCHANGED <<life, refs, fixed, offs>>

\* Memory ran out, or the buffer may not grow: trurl_die, or the answer -1
\* when its hook returns.
WriteFails(n, z, answer) ==
  /\ life = "live" /\ off + n <= MaxSize /\ ~HasRoom(Asked(n, z))
  /\ \/ fixed /\ Die
     \/ res' = Count(answer) /\ UNCHANGED <<life, refs, memory, size, off, offs>>

\* The macros and functions that write ints, strings and data.
Write ==
  \E n \in Sizes, z \in BOOLEAN :
    (\E b \in Texts(n) : WriteEx(n, b, z)) \/ WriteFails(n, z, -1)

\* n_buf_vprintf prints to a buffer of its own first, which cuts what is
\* longer, and writes that as a string.  Its answer is the same when the
\* write failed.
Clipped(n) == IF n < PrintfSize THEN n ELSE PrintfSize - 1

Printf(n) ==
  \/ \E b \in Texts(Clipped(n)) : WriteEx(Clipped(n), b, TRUE)
  \/ WriteFails(Clipped(n), TRUE, Clipped(n))

\* A caller seeks inside the text: beyond it are bytes nobody wrote, and
\* beyond the memory the room there is wraps around.  What n_die refuses is
\* done as far as it can be when its hook returns.
SeekIsRefused(off1, whence) == whence = "other" \/ (whence = "end" /\ off1 # 0)

Seek(off1, whence) ==
  /\ life = "live"
  /\ off' = CASE whence = "set" -> off1
              [] whence = "cur" -> off + off1
              [] whence = "end" -> size
              [] whence = "other" -> off
  /\ off' \in 0 .. size /\ res' = Count(off')
  /\ UNCHANGED <<life, refs, memory, size, offs>>

SeekDies(off1, whence) == life = "live" /\ SeekIsRefused(off1, whence) /\ Die

(***************************************************************************)
(* The iterator                                                            *)
(***************************************************************************)
ItInit ==
  /\ life = "live" /\ offs' = 0 /\ res' = Nothing
  /\ UNCHANGED <<life, refs, memory, size, off>>

Part(from, n) == Piece(n, [i \in 0 .. n - 1 |-> data[from + i]])

\* n_buf_it_get and what is made of it
ItGet(n) ==
  /\ life = "live"
  /\ IF offs + n > size THEN res' = Nothing /\ UNCHANGED offs
                        ELSE res' = Part(offs, n) /\ offs' = offs + n
  /\ UNCHANGED <<life, refs, memory, size, off>>

\* n_buf_it_gets_ext: the first endl from offs on, or the end of the text.
LineEnds(endl) == {e \in offs .. size : e < size => data[e] = endl}

ItGets(endl) ==
  /\ life = "live"
  /\ IF offs + 1 > size THEN res' = Nothing /\ UNCHANGED offs
     ELSE \E e \in LineEnds(endl) :
            /\ \A f \in LineEnds(endl) : e <= f
            /\ res' = Part(offs, e - offs) /\ offs' = e + 1
  /\ UNCHANGED <<life, refs, memory, size, off>>

(***************************************************************************)
Next ==
  \/ \E n \in Sizes : New(n) \/ ItGet(n) \/ Printf(n)
  \/ \E n \in Sizes, whose \in {"buffer", "caller"} : InitBuf(n, whose)
  \/ Ref \/ Free \/ Ctl \/ Clean \/ Write \/ ItInit
  \/ \E off1 \in -1 .. MaxSize, whence \in {"set", "cur", "end", "other"} :
       Seek(off1, whence) \/ SeekDies(off1, whence)
  \/ \E endl \in {Nul, NewLine} : ItGets(endl)

Spec == Init /\ [][Next]_vars

(***************************************************************************)
(* What is checked                                                         *)
(***************************************************************************)
\* No byte of the text is one that nobody wrote, whatever was reallocated,
\* overwritten or cleaned.
NoJunk == \A i \in 0 .. size - 1 : data[i] \in Bytes

\* "gets() must guarantee that buf is longer than returned string": a buffer
\* that can grow, and was written, has a byte behind its text.
LongerThanText == ~fixed /\ owner = "buffer" => size < allocated

\* The buffer and its iterator are the file in memory of MemFile: nothing of
\* the text is lost when the buffer grows.
Text == INSTANCE MemFile WITH
  open <- life = "live", len <- size, text <- [i \in 0 .. size - 1 |-> data[i]],
  place <- off, at <- offs

IsAText == Text!Spec
=============================================================================
