-------------------------------- MODULE NStr --------------------------------
(***************************************************************************)
(* The string helpers: nstr.c, nstr_basenam.c, nstr_concat.c, nstr_len.c   *)
(* and nstr_cpy.c, and the copies of nmalloc.c.  They keep no state: each  *)
(* is an operator on the memory it is given.  Memory is a function from    *)
(* places to bytes; the string at place b of it goes up to the next Nul.   *)
(*                                                                         *)
(* An operator called Bug... is the operator defined after it with a       *)
(* mistake the code might have had.                                        *)
(***************************************************************************)
EXTENDS Integers, Sequences, FiniteSets

CONSTANTS
  Blank,     \* a character isspace is true of
  Slash,     \* '/'
  Nul,       \* the byte that ends a string
  Junk       \* memory not written

\* The first place from b on that holds no character of C.
Skipped(m, b, C) ==
  CHOOSE p \in DOMAIN m : b <= p /\ m[p] \notin C /\ \A i \in b .. p - 1 : m[i] \in C

End(m, b)   == CHOOSE p \in DOMAIN m : b <= p /\ m[p] = Nul /\ \A i \in b .. p - 1 : m[i] # Nul
Text(m, b)  == [i \in 1 .. End(m, b) - b |-> m[b + i - 1]]
InMemory(t) == [p \in 0 .. Len(t) |-> IF p < Len(t) THEN t[p + 1] ELSE Nul]

(***************************************************************************)
(* n_str_strip_ws                                                          *)
(***************************************************************************)
\* The loop from the end compares p with the place where the blanks in front
\* ended, which it starts below if nothing else was there.
BugLastKept(m, b) ==
  LET back[p \in DOMAIN m] == IF p = b \/ m[p] # Blank THEN p ELSE back[p - 1]
  IN back[End(m, b)]
LastKept(m, b) ==
  LET back[p \in DOMAIN m] == IF p = b \/ m[p] # Blank THEN p ELSE back[p - 1]
  IN back[End(m, b) - 1]

StripWs(m, str) ==
  LET b == Skipped(m, str, {Blank})
      l == LastKept(m, b)
  IN [mem |-> [p \in DOMAIN m |-> IF l < p /\ p < End(m, b) THEN Nul ELSE m[p]], str |-> b]

(***************************************************************************)
(* n_basedirnam and n_basenam; None is the null pointer                    *)
(***************************************************************************)
None == -1

StrRChr(m, str) ==
  LET at == {p \in str .. End(m, str) : m[p] = Slash}
  IN IF at = {} THEN None ELSE CHOOSE p \in at : \A q \in at : q <= p

BaseDirNam(m, path) ==
  LET s == StrRChr(m, path) IN
  IF s = None THEN [mem |-> m, dn |-> None, base |-> path]
  ELSE [mem |-> [m EXCEPT ![s] = Nul], dn |-> path, base |-> s + 1]

DirName(m, path) == BaseDirNam(m, path).dn

BaseNam(m, path) == IF StrRChr(m, path) = None THEN path ELSE StrRChr(m, path) + 1

(***************************************************************************)
(* n_str_vlen, n_str_vconcat, n_str_in                                     *)
(***************************************************************************)
StrVLen(args) ==
  LET len[i \in 0 .. Len(args)] == IF i = 0 THEN 0 ELSE len[i - 1] + Len(args[i])
  IN len[Len(args)]

\* strcpy and strcat of t to place b.
PutAt(m, b, t) ==
  [p \in DOMAIN m \cup b .. b + Len(t) |->
     IF b <= p /\ p <= b + Len(t) THEN InMemory(t)[p - b] ELSE m[p]]

\* n_str_vconcat measures the strings, gets the memory for them, and appends
\* each where the one before it ended.
StrVConcat(args) ==
  LET block == [p \in 0 .. StrVLen(args) |-> Junk]
      r[i \in 1 .. Len(args)] ==
        IF i = 1 THEN PutAt(block, 0, args[1]) ELSE PutAt(r[i - 1], End(r[i - 1], 0), args[i])
  IN r[Len(args)]

StrVIn(t, args) == \E i \in DOMAIN args : args[i] = t

(***************************************************************************)
(* n_strncpy                                                               *)
(***************************************************************************)
\* How many bytes are copied: the loop counts n down after each but the one
\* that ends the string.  A size_t that starts from 0 does not come to 0.
BugCopied(m, src, n) ==
  LET upto[i \in Nat] == IF m[src + i] = Nul \/ i = n THEN i + 1 ELSE upto[i + 1]
  IN upto[0]
Copied(m, src, n) ==
  LET upto[i \in Nat] == IF m[src + i] = Nul \/ i + 1 = n THEN i + 1 ELSE upto[i + 1]
  IN upto[0]

\* The last byte copied is overwritten, and its place returned.
StrNCpy(m, src, n) ==
  LET c == Copied(m, src, n)
  IN [dest |-> [i \in 0 .. c - 1 |-> IF i = c - 1 THEN Nul ELSE m[src + i]], ret |-> c - 1]

(***************************************************************************)
(* n_memdup, n_strdupl, n_strdup                                           *)
(***************************************************************************)
MemDup(m, ptr, n)    == [i \in 0 .. n - 1 |-> m[ptr + i]]
StrDupL(m, s, l)     == [i \in 0 .. l |-> IF i < l THEN m[s + i] ELSE Nul]
StrDup(m, s)         == MemDup(m, s, End(m, s) - s + 1)

-----------------------------------------------------------------------------
(***************************************************************************)
(* What the helpers promise of a text t                                    *)
(***************************************************************************)
Part(t, i, j) == SubSeq(t, i, j)

\* n_str_strip_ws returns what is between the first and the last character
\* that is not blank, and changes nothing else.  (A text of blanks only makes
\* it read, and possibly change, bytes before the string.)
StripRight(t) ==
  LET kept == {i \in DOMAIN t : t[i] # Blank}
      r    == StripWs(InMemory(t), 0)
  IN kept # {} =>
       LET i == CHOOSE i \in kept : \A k \in kept : i <= k
           j == CHOOSE j \in kept : \A k \in kept : k <= j
       IN /\ Text(r.mem, r.str) = Part(t, i, j)
          /\ \A p \in 0 .. j - 1 : r.mem[p] = InMemory(t)[p]

\* The two names n_basedirnam finds in a path make the path when they are put
\* together again, the second has no slash, and n_basenam finds it as well.
NamesRight(t) ==
  LET m == InMemory(t)
      r == BaseDirNam(m, 0)
      b == Text(r.mem, r.base)
  IN /\ \A i \in DOMAIN b : b[i] # Slash
     /\ BaseNam(m, 0) = r.base
     /\ IF DirName(m, 0) = None THEN b = t /\ \A i \in DOMAIN t : t[i] # Slash
        ELSE t = Text(r.mem, r.dn) \o <<Slash>> \o b

\* n_str_vconcat puts the strings together in the memory it measured for them,
\* and n_str_vlen counts the same.
ConcatRight(args, t) ==
  LET m == StrVConcat(args)
  IN /\ DOMAIN m = 0 .. StrVLen(args) /\ End(m, 0) = StrVLen(args)
     /\ Text(m, 0) = t

\* n_strncpy writes at most n bytes, of which the last is the one it returns
\* and ends the string.
CopyRight(t, n) ==
  LET r == StrNCpy(InMemory(t), 0, n)
  IN /\ Cardinality(DOMAIN r.dest) <= n
     /\ End(r.dest, 0) = r.ret
     /\ Text(r.dest, 0) = Part(t, 1, IF Len(t) < n THEN Len(t) ELSE n - 1)

\* n_strdup copies a string from any place in it on, and n_strdupl any part of
\* it as a string.
DupRight(t, i, j) ==
  /\ Text(StrDup(InMemory(t), i), 0) = Part(t, i + 1, Len(t))
  /\ Text(StrDupL(InMemory(t), i, j - i), 0) = Part(t, i + 1, j)

\* All of it, of a text cut in three in every way: the whole text is among the
\* three if two of them are empty.
HelpersKeep(t) ==
  /\ StripRight(t) /\ NamesRight(t)
  /\ \A i \in 0 .. Len(t) : \A j \in i .. Len(t) :
       LET args == <<Part(t, 1, i), Part(t, i + 1, j), Part(t, j + 1, Len(t))>>
       IN /\ ConcatRight(args, t) /\ DupRight(t, i, j)
          /\ StrVIn(t, args) <=> Cardinality({a \in 1 .. 3 : args[a] # <<>>}) <= 1
  /\ \A n \in 1 .. Len(t) + 2 : CopyRight(t, n)
=============================================================================
