------------------------------ MODULE ItemSeq ------------------------------
(***************************************************************************)
(* What a trurlib container of ordered items promises its caller, whatever *)
(* it is kept in: a sequence of data pointers, with items added and taken  *)
(* at both ends, by position and by comparison.  A call takes effect once, *)
(* and its answer is fixed at that moment.                                 *)
(*                                                                         *)
(* n_list_*.c and n_array_*.c implement this specification; see NList and  *)
(* NArray and their refinements.                                           *)
(***************************************************************************)
EXTENDS Integers, FiniteSets, SequencesExt, Subsequence

CONSTANTS
  Data,        \* the data pointers of the callers
  NULL,        \* the null pointer
  KeyOf,       \* cmp_fn(a, b) is the sign of KeyOf[a] - KeyOf[b]
  Places,      \* the positions the callers ask for, from 0 on
  Rows,        \* the sequences the callers append at once
  MayFail      \* memory may be refused

VARIABLES
  items,       \* the sequence
  uniq,        \* no two items may compare equal
  limit,       \* how many items there may be at most, 0 for any number
  frozen,      \* no call may change the items
  call,        \* the last call: its name and its argument
  res          \* its answer

vars == <<items, uniq, limit, frozen, call, res>>

Keys     == {KeyOf[d] : d \in Data}
Val(d)   == <<"val", d>>      \* a data pointer
Count(n) == <<"count", n>>    \* a number
Ok       == <<"ok">>          \* the container
Refused  == Val(NULL)         \* nothing

Has(k, d)   == d # NULL /\ KeyOf[d] = k
Where(s, k) == {i \in DOMAIN s : Has(k, s[i])}

\* The items in the order of cmp_fn, "up", or the other way round: equal ones
\* stay in the order they had.
Before(dir, i, j) ==
  LET a == KeyOf[items[i]]  b == KeyOf[items[j]] IN
  \/ a = b /\ i < j
  \/ IF dir = "up" THEN a < b ELSE b < a
Sorted(dir) ==
  [r \in DOMAIN items |-> items[CHOOSE i \in DOMAIN items :
     r = 1 + Cardinality({j \in DOMAIN items : Before(dir, j, i)})]]

Init ==
  /\ items = <<>> /\ uniq \in BOOLEAN /\ limit = 0 /\ frozen = FALSE
  /\ call = <<"new">> /\ res = Ok

Called(name, arg) == call' = <<name, arg>> /\ UNCHANGED <<uniq, limit, frozen>>
Looks(name, arg)  == Called(name, arg) /\ UNCHANGED items
Writes(name, arg) == Called(name, arg) /\ ~frozen

\* New items have room, and are equal to no other where none may be.
HasRoom(n) == limit # 0 => Len(items) + n <= limit
Welcome(d) == HasRoom(1) /\ (uniq => Where(items, KeyOf[d]) = {})

Push(d)    == Writes("push", d) /\ Welcome(d) /\ items' = Append(items, d) /\ res' = Ok
Unshift(d) == Writes("unshift", d) /\ Welcome(d) /\ items' = <<d>> \o items /\ res' = Ok

Concat(s) ==
  /\ Writes("concat", s) /\ HasRoom(Len(s))
  /\ items' = items \o s /\ res' = Ok

Pop ==
  /\ Writes("pop", NULL) /\ items # <<>>
  /\ items' = Front(items) /\ res' = Val(Last(items))

Shift ==
  /\ Writes("shift", NULL) /\ items # <<>>
  /\ items' = Tail(items) /\ res' = Val(Head(items))

\* A list gives the item removed, an array has it freed.
RemoveNth(i) ==
  /\ Writes("remove_nth", i) /\ i < Len(items)
  /\ items' = RemoveAt(items, i + 1) /\ res' \in {Val(items[i + 1]), Ok}

\* Everything that compares equal to a key leaves.
RemoveEx(k) ==
  /\ Writes("remove_ex", k)
  /\ items' = Only(items, DOMAIN items \ Where(items, k))
  /\ res' \in {Count(Len(items) - Len(items')), Ok}

Nth(i) == Looks("nth", i) /\ i < Len(items) /\ res' = Val(items[i + 1])

\* A function is called with each item; a container is compared with another.
Map   == Looks("map", NULL) /\ res' = <<"row", items>>
Eq(s) ==
  /\ Looks("eq", s)
  /\ res' = Count(IF Len(s) = Len(items) /\ \A i \in DOMAIN s : Has(KeyOf[s[i]], items[i])
                  THEN 1 ELSE 0)

\* A lookup finds an item that compares equal, or the place of the first one.
\* An array may put itself in order for it.
Finds(name, k) ==
  /\ Called(name, k)
  /\ items' = items \/ (~frozen /\ \E dir \in {"up", "down"} : items' = Sorted(dir))

Lookup(k) ==
  /\ Finds("lookup", k)
  /\ \/ Where(items', k) = {} /\ res' = Refused
     \/ \E i \in Where(items', k) : res' = Val(items'[i])

Index(k) ==
  /\ Finds("index", k)
  /\ \/ Where(items', k) = {} /\ res' = Count(-1)
     \/ \E i \in Where(items', k) :
          /\ \A j \in Where(items', k) : i <= j
          /\ res' = Count(i - 1)

\* The item at a position is replaced; beyond the end NULLs fill the gap.
SetNth(i, d) ==
  /\ Writes("set_nth", <<i, d>>)
  /\ HasRoom(i + 1 - Len(items))
  /\ items' = [j \in 1 .. (IF i < Len(items) THEN Len(items) ELSE i + 1) |->
                 IF j = i + 1 THEN d ELSE IF j > Len(items) THEN NULL ELSE items[j]]
  /\ res' = Ok

Clean    == Writes("clean", NULL) /\ items' = <<>> /\ res' = Ok
TurnOver == Writes("reverse", NULL) /\ items' = Reverse(items) /\ res' = Ok

Sort(dir) ==
  /\ Called("sort", dir)
  /\ frozen => items' = items
  /\ items' = Sorted(dir) /\ res' = Ok

\* Of equal neighbours the first stays.
Uniq ==
  /\ Writes("uniq", NULL)
  /\ LET kept == {i \in DOMAIN items : i > 1 => KeyOf[items[i]] # KeyOf[items[i - 1]]}
     IN  items' = Only(items, kept)
  /\ res' = Ok

\* A call that is refused changes nothing.
Refuse ==
  /\ res' = Refused
  /\ \/ \E d \in Data :
          /\ Looks("push", d) \/ Looks("unshift", d)
          /\ MayFail \/ ~Welcome(d)
     \/ \E s \in Rows : Looks("concat", s) /\ ~HasRoom(Len(s))
     \/ (Looks("pop", NULL) \/ Looks("shift", NULL)) /\ items = <<>>
     \/ \E i \in Places :
          \/ (Looks("nth", i) \/ Looks("remove_nth", i)) /\ i >= Len(items)
          \/ \E d \in Data : Looks("set_nth", <<i, d>>) /\ ~HasRoom(i + 1 - Len(items))

\* A container that may not grow holds as many items as it happens to have
\* memory for.
SetFlags ==
  limit' \in Nat /\ frozen' \in BOOLEAN /\ UNCHANGED <<items, uniq, call, res>>

\* The container is freed; another one is made.
Free == items' = <<>> /\ limit' = 0 /\ frozen' = FALSE /\ UNCHANGED <<uniq, call, res>>
New  ==
  /\ items = <<>> /\ items' = <<>>
  /\ uniq' \in BOOLEAN /\ limit' = 0 /\ frozen' = FALSE
  /\ call' = <<"new">> /\ res' = Ok

Next ==
  \/ New \/ Free
  \/ \E d \in Data : Push(d) \/ Unshift(d) \/ \E i \in Places : SetNth(i, d)
  \/ \E i \in Places : RemoveNth(i) \/ Nth(i)
  \/ \E k \in Keys : RemoveEx(k) \/ Lookup(k) \/ Index(k)
  \/ \E s \in Rows : Concat(s) \/ Eq(s)
  \/ \E dir \in {"up", "down"} : Sort(dir)
  \/ Pop \/ Shift \/ Map \/ Clean \/ TurnOver \/ Uniq \/ Refuse \/ SetFlags

Spec == Init /\ [][Next]_vars
=============================================================================
