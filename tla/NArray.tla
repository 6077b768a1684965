------------------------------- MODULE NArray -------------------------------
(***************************************************************************)
(* n_array_*.c and narray.h: the growing array of data pointers, of which  *)
(* n_array_shift takes the first item by moving the start on, so that the  *)
(* items are data[start_index .. start_index + items - 1].  Cells are      *)
(* numbered from 0 as in the code.                                         *)
(*                                                                         *)
(* Several functions forget start_index, or what else is named in Misuse,  *)
(* and then read or write outside the array or lose items ("dead" stands   *)
(* for what happens there).  A caller that avoids them has a sequence; the *)
(* others are what Misuse lets a caller do.                                *)
(*                                                                         *)
(* An operator called Bug... is the operator defined after it with a       *)
(* mistake the code might have had; no action uses it.                     *)
(***************************************************************************)
EXTENDS Integers, FiniteSets, SequencesExt, Subsequence

CONSTANTS
  Data,          \* the data pointers of the callers, none of them NULL
  NULL,          \* the null pointer
  KeyOf,         \* what cmp_fn compares
  Places,        \* the positions the callers ask for
  Rows,          \* the sequences the callers append with n_array_concat
  InitSizes,     \* the sizes an array is created with
  MaxAlloc,      \* bound: no call that makes more cells is made
  CtlFlags,      \* the flags the callers set
  Hooks,         \* whether callers set a hook with n_die_set_hook that returns
  Misuse         \* what callers do though they should not

Misuses == {"push after shift", "concat after shift", "remove_nth after shift",
            "reverse after shift", "uniq after shift", "set_nth beyond",
            "reverse when sorted", "inline push", "inline nth", "map after shift",
            "eq after shift"}

ASSUME ArrayAssumption ==
  /\ NULL \notin Data
  /\ KeyOf \in [Data -> Nat] /\ Places \subseteq Nat /\ Rows \subseteq Seq(Data)
  /\ InitSizes \subseteq 1 .. MaxAlloc /\ MaxAlloc \in Nat \ {0}
  /\ CtlFlags \subseteq {"AUTOSORTED", "CONSTSIZE", "FROZEN"}
  /\ Hooks \subseteq BOOLEAN /\ FALSE \in Hooks /\ Misuse \subseteq Misuses

VARIABLES
  alloc, start, size, data,   \* arr->allocated, start_index, items, data
  auto, const, frozen,        \* TN_ARRAY_AUTOSORTED, CONSTSIZE, FROZEN
  sorted,                     \* TN_ARRAY_INTERNAL_ISSORTED
  cmp,                        \* arr->cmp_fn: by KeyOf, "up" or "down"
  frees,                      \* free_fn is set
  hooked,                     \* die_hook is set, and returns: n_die returns
  owner,                      \* who each data pointer belongs to
  pc,                         \* there is an array, "none", or "dead"
  call, res                   \* the last call and its answer

cells == <<alloc, start, size, data>>
flags == <<auto, const, frozen, frees, hooked>>
vars  == <<cells, flags, sorted, cmp, owner, pc, call, res>>

Keys     == {KeyOf[d] : d \in Data}
Val(d)   == <<"val", d>>
Count(n) == <<"count", n>>
Ok       == <<"ok">>
Refused  == Val(NULL)

Cells    == 0 .. alloc - 1
None(n)  == [c \in 0 .. n - 1 |-> NULL]
Items    == [i \in 1 .. size |-> data[start + i - 1]]
Held     == {data[c] : c \in Cells} \ {NULL}
NoNulls  == \A i \in 1 .. size : Items[i] # NULL

TypeOK ==
  /\ alloc \in 1 .. MaxAlloc /\ start \in 0 .. alloc /\ size \in 0 .. alloc
  /\ start + size <= alloc
  /\ data \in [Cells -> Data \cup {NULL}]
  /\ auto \in BOOLEAN /\ const \in BOOLEAN /\ frozen \in BOOLEAN
  /\ sorted \in BOOLEAN /\ cmp \in {"up", "down"} /\ frees \in BOOLEAN
  /\ owner \in [Data -> {"caller", "array", "freed"}]
  /\ hooked \in Hooks /\ pc \in {"none", "idle", "dead"}

Init ==
  /\ alloc = 1 /\ start = 0 /\ size = 0 /\ data = None(1)
  /\ auto = FALSE /\ const = FALSE /\ frozen = FALSE /\ frees = FALSE
  /\ hooked = FALSE /\ sorted = FALSE /\ cmp = "up"
  /\ owner = [d \in Data |-> "caller"]
  /\ pc = "none" /\ call = <<"new">> /\ res = Ok

(***************************************************************************)
(* Calls, refusals and what they free                                      *)
(***************************************************************************)
Return(answer) == res' = answer /\ pc' = pc

\* n_die: the program ends, and there is no next state, unless a hook returns.
Die == hooked /\ Return(Refused) /\ UNCHANGED <<cells, flags, sorted, cmp, owner>>

Reads(name, arg) == pc = "idle" /\ call' = <<name, arg>>

\* trurl_die__if_frozen: the call goes on if the hook returns.
Writes(name, arg) ==
  /\ Reads(name, arg)
  /\ frozen => hooked

\* What happens next when memory outside the array is read or written.
Dead == pc' = "dead" /\ UNCHANGED <<cells, flags, sorted, cmp, owner, res>>

Avoids(what) == what \notin Misuse

\* Data the array takes, and gives up to its free function or to the caller.
Freed      == IF frees THEN "freed" ELSE "caller"
Owners(in, out, whom) ==
  [d \in Data |-> IF d \in in THEN "array" ELSE IF d \in out THEN whom ELSE owner[d]]
Mine(s)    == \A i \in DOMAIN s : owner[s[i]] = "caller" /\ \A j \in DOMAIN s : s[i] = s[j] => i = j

(***************************************************************************)
(* n_array_grow                                                            *)
(***************************************************************************)
\* The size is doubled until it is greater than the request.
BugGrowsOnce(n) == 2 * alloc
Grown(n) ==
  LET sizes == {m \in alloc .. 2 * MaxAlloc : \E k \in 0 .. MaxAlloc : m = alloc * 2 ^ k /\ m > n}
  IN  IF sizes = {} THEN MaxAlloc + 1 ELSE CHOOSE m \in sizes : \A l \in sizes : m <= l

CanGrow(n) == Grown(n) <= MaxAlloc

\* The array has n cells, of which "put" are stored.
Store(n, put) ==
  /\ alloc' = n
  /\ data' = [c \in 0 .. n - 1 |->
                IF c \in DOMAIN put THEN put[c] ELSE IF c \in Cells THEN data[c] ELSE NULL]

Takes(in)        == owner' = Owners(in, {}, "caller") /\ sorted' = FALSE /\ UNCHANGED <<flags, cmp>>
Gives(out, whom) == owner' = Owners({}, out, whom) /\ UNCHANGED <<flags, cmp>>

(***************************************************************************)
(* n_array_push, n_array_concat, n_array_unshift, n_array_set_nth          *)
(***************************************************************************)
\* The cells there are for n more items, as far as items and allocated say.
Room(n) == IF size + n > alloc THEN Grown(alloc + n) ELSE alloc

\* The inline n_array_push of narray.h stores behind the end if n_array_grow
\* refused and returned.
Push(d) ==
  /\ Writes("push", d) /\ Mine(<<d>>)
  /\ IF size = alloc /\ const
     THEN Die \/ (~Avoids("inline push") /\ hooked /\ Dead)
     ELSE /\ Room(1) <= MaxAlloc
          /\ Avoids("push after shift") => start + size < Room(1)
          /\ IF start + size < Room(1)
             THEN /\ Store(Room(1), [c \in {start + size} |-> d])
                  /\ size' = size + 1 /\ UNCHANGED start
                  /\ Takes({d}) /\ Return(Ok)
             ELSE Dead

\* items becomes the index after the last cell stored.
Concat(s) ==
  /\ Writes("concat", s) /\ Mine(s)
  /\ Avoids("concat after shift") => start = 0
  /\ IF size + Len(s) > alloc /\ const
     THEN Die
     ELSE LET n == Room(Len(s))  end == start + size + Len(s) IN
          /\ n <= MaxAlloc
          /\ IF end <= n
             THEN /\ Store(n, [c \in start + size .. end - 1 |-> s[c - start - size + 1]])
                  /\ size' = end /\ UNCHANGED start
                  /\ Takes(Range(s)) /\ Return(Ok)
             ELSE Dead

MovedUp(n)         == [c \in 1 .. n |-> data[c - 1]]

Unshift(d) ==
  /\ Writes("unshift", d) /\ Mine(<<d>>)
  /\ IF start > 0
     THEN /\ Store(alloc, [c \in {start - 1} |-> d])
          /\ start' = start - 1 /\ size' = size + 1
          /\ Takes({d}) /\ Return(Ok)
     ELSE IF size = alloc /\ const
     THEN Die
     ELSE /\ Room(1) <= MaxAlloc
          /\ Store(Room(1), [c \in 0 .. size |-> IF c = 0 THEN d ELSE MovedUp(size)[c]])
          /\ size' = size + 1 /\ UNCHANGED start
          /\ Takes({d}) /\ Return(Ok)

\* items is set only when the array grows, and then as if start_index were 0.
SetNth(i, d) ==
  LET pos == start + i IN
  /\ Writes("set_nth", <<i, d>>) /\ Mine(<<d>>)
  /\ Avoids("set_nth beyond") => i < size \/ (start = 0 /\ i > alloc)
  /\ IF pos > alloc
     THEN IF const
          THEN Die
          ELSE /\ CanGrow(pos)
               /\ Store(Grown(pos), [c \in {pos} |-> d])
               /\ size' = pos + 1 /\ UNCHANGED start
               /\ Takes({d}) /\ Return(Ok)
     ELSE IF pos = alloc
     THEN Dead
     ELSE /\ Store(alloc, [c \in {pos} |-> d]) /\ UNCHANGED <<start, size>>
          /\ owner' = Owners({d}, {data[pos]}, Freed)
          /\ sorted' = FALSE /\ UNCHANGED <<flags, cmp>>
          /\ Return(Ok)

(***************************************************************************)
(* n_array_pop, n_array_shift, n_array_remove_nth, n_array_remove_ex       *)
(***************************************************************************)
Pop ==
  LET pos == start + size - 1 IN
  /\ Writes("pop", NULL)
  /\ IF size = 0
     THEN Die
     ELSE /\ Store(alloc, [c \in {pos} |-> NULL])
          /\ size' = size - 1 /\ UNCHANGED <<start, sorted>>
          /\ Gives({data[pos]}, "caller") /\ Return(Val(data[pos]))

Shift ==
  /\ Writes("shift", NULL)
  /\ IF size = 0
     THEN Die
     ELSE /\ data' = [data EXCEPT ![start] = NULL]
          /\ start' = start + 1 /\ size' = size - 1 /\ UNCHANGED <<alloc, sorted>>
          /\ Gives({data[start]}, "caller") /\ Return(Val(data[start]))

\* The cells from pos on, moved down by one, and NULL after them.
BugMovesItemsOnly(pos) ==
  [c \in Cells |-> IF c < pos \/ c >= size - 1 THEN data[c] ELSE data[c + 1]]
MovedDown(pos) ==
  [c \in Cells |-> IF c < pos THEN data[c] ELSE IF c = alloc - 1 THEN NULL ELSE data[c + 1]]

\* The cell is only cleared where its number happens to be that of the items.
RemoveNth(i) ==
  LET pos == start + i IN
  /\ Writes("remove_nth", i) /\ size > 0
  /\ IF i >= size
     THEN Die
     ELSE /\ Avoids("remove_nth after shift") => pos # size \/ i = size - 1
          /\ data' = IF pos = size
                     THEN [data EXCEPT ![pos] = NULL, ![alloc - 1] = NULL]
                     ELSE MovedDown(pos)
          /\ size' = size - 1 /\ UNCHANGED <<alloc, start, sorted>>
          /\ Gives({data[pos]}, Freed) /\ Return(Ok)

Has(k, d) == d # NULL /\ KeyOf[d] = k

\* It looks at every cell from the first item on.
RemoveEx(k) ==
  LET from == [i \in 1 .. alloc - start |-> data[start + i - 1]]
      kept == {i \in DOMAIN from : ~Has(k, from[i])}
      gone == {d \in Held : Has(k, d)}
  IN
  /\ Writes("remove_ex", k)
  /\ IF size = 0
     THEN UNCHANGED <<cells, sorted, owner, flags, cmp>>
     ELSE /\ data' = [c \in Cells |-> IF c < start THEN data[c]
                                      ELSE IF c - start < Cardinality(kept)
                                      THEN Only(from, kept)[c - start + 1] ELSE NULL]
          /\ size' = size - Cardinality(gone) /\ UNCHANGED <<alloc, start, sorted>>
          /\ Gives(gone, Freed)
  /\ Return(Ok)

\* Beyond the items the function refuses, and it asserts that there are some;
\* the inline n_array_nth of narray.h reads its cell nevertheless when n_die
\* returns.
Nth(i) ==
  LET pos == start + i IN
  /\ Reads("nth", i)
  /\ \/ i >= size /\ size > 0 /\ Die
     \/ /\ i >= size => hooked
        /\ Avoids("inline nth") => pos < alloc
        /\ IF pos < alloc
           THEN Return(Val(data[pos])) /\ UNCHANGED <<cells, flags, sorted, cmp, owner>>
           ELSE Dead

\* n_array_map forgets start_index where the items end, n_array_map_arg does
\* not.
Row(s) == <<"row", s>>
Map(name) ==
  /\ Reads("map", NULL)
  /\ name = "map" /\ Avoids("map after shift") => start = 0
  /\ Return(Row(IF name = "map" THEN [i \in 1 .. size - start |-> data[start + i - 1]] ELSE Items))
  /\ UNCHANGED <<cells, flags, sorted, cmp, owner>>

\* n_array_eq with an array that was never shifted; the cells of this one are
\* counted from 0.
Eq(s) ==
  /\ Reads("eq", s) /\ NoNulls
  /\ Avoids("eq after shift") => start = 0
  /\ Return(Count(IF Len(s) = size /\ \A i \in DOMAIN s : Has(KeyOf[s[i]], data[i - 1]) THEN 1 ELSE 0))
  /\ UNCHANGED <<cells, flags, sorted, cmp, owner>>

\* n_array_clean and n_array_free look at every cell.
Clean ==
  /\ Writes("clean", NULL)
  /\ data' = None(alloc) /\ start' = 0 /\ size' = 0 /\ UNCHANGED <<alloc, sorted>>
  /\ Gives(Held, Freed) /\ Return(Ok)

(***************************************************************************)
(* n_array_sort, n_array_bsearch, n_array_reverse, n_array_uniq            *)
(***************************************************************************)
Comes(dir, a, b) == IF dir = "up" THEN a < b ELSE b < a
InOrder(dir, s)  ==
  \A i, j \in DOMAIN s : i < j => ~Comes(dir, KeyOf[s[j]], KeyOf[s[i]])

\* The sort is stable.
Rank(dir, i) ==
  1 + Cardinality({j \in 1 .. size :
        \/ Comes(dir, KeyOf[Items[j]], KeyOf[Items[i]])
        \/ j < i /\ KeyOf[Items[j]] = KeyOf[Items[i]]})
Arranged(dir) == [r \in 1 .. size |-> Items[CHOOSE i \in 1 .. size : Rank(dir, i) = r]]

WithItems(s) == [c \in Cells |-> IF c \in start .. start + size - 1 THEN s[c - start + 1] ELSE data[c]]

\* A sort by another function than cmp_fn leaves the array not sorted.
BugSetsSorted(dir) == TRUE
SetsSorted(dir)    == dir = cmp

KnownSorted(dir) == SetsSorted(dir) /\ sorted

Sort(dir) ==
  /\ Reads("sort", dir) /\ NoNulls
  /\ IF auto /\ KnownSorted(dir)
     THEN UNCHANGED <<data, sorted>>
     ELSE /\ frozen => hooked
          /\ data' = WithItems(Arranged(dir)) /\ sorted' = SetsSorted(dir)
  /\ Return(Ok)
  /\ UNCHANGED <<alloc, start, size, flags, cmp, owner>>

\* n_array_ctl_set_cmpfn: the items may be out of order for the new function.
BugSetCmp(dir) ==
  pc = "idle" /\ cmp' = dir /\ UNCHANGED <<cells, flags, sorted, owner, pc, call, res>>
SetCmp(dir) ==
  pc = "idle" /\ cmp' = dir /\ sorted' = FALSE /\ UNCHANGED <<cells, flags, owner, pc, call, res>>

\* bsearch_voidp_arr: a turn of its loop, from l to r, when the turns after it
\* find what find says; and the cell found, counted from the first item, or -1.
Bounds(s) == (0 .. Len(s)) \X (0 .. Len(s))

Turn(s, k, find, lr) ==
  LET l == lr[1]
      r == lr[2]
      i == (l + r) \div 2
  IN  IF l >= r THEN -1
      ELSE IF KeyOf[s[i + 1]] = k THEN i
      ELSE find[IF Comes(cmp, k, KeyOf[s[i + 1]]) THEN <<l, i>> ELSE <<i + 1, r>>]

Bsearch(s, k) ==
  LET find[lr \in Bounds(s)] == Turn(s, k, find, lr)
  IN  find[<<0, Len(s)>>]

\* n_array_bsearch_idx goes back to the first that compares equal.
BugFound(s, k) == Bsearch(s, k)

First(s, k) ==
  LET found == Bsearch(s, k) IN
  IF found = -1 THEN -1
  ELSE CHOOSE i \in 0 .. found :
         /\ \A j \in i .. found : KeyOf[s[j + 1]] = k
         /\ i > 0 => KeyOf[s[i]] # k

\* An autosorted array is sorted first, a frozen one is not.
Search(name, k) ==
  LET now == IF auto /\ ~sorted THEN Arranged(cmp) ELSE Items IN
  /\ Reads(name, k) /\ NoNulls
  /\ auto \/ InOrder(cmp, Items)
  /\ auto /\ ~sorted /\ frozen => hooked
  /\ data' = WithItems(now) /\ sorted' = (sorted \/ auto)
  /\ Return(IF name = "index" THEN Count(First(now, k))
            ELSE IF Bsearch(now, k) = -1 THEN Refused ELSE Val(now[Bsearch(now, k) + 1]))
  /\ UNCHANGED <<alloc, start, size, flags, cmp, owner>>

Reverse_ ==
  /\ Writes("reverse", NULL)
  /\ Avoids("reverse after shift") => start = 0
  /\ Avoids("reverse when sorted") => ~sorted
  /\ data' = [c \in Cells |-> IF c \in start .. size - 1 THEN data[start + size - 1 - c] ELSE data[c]]
  /\ Return(Ok) /\ UNCHANGED <<alloc, start, size, flags, sorted, cmp, owner>>

\* The cells are counted from 0 here, and an empty one is compared.
Uniq ==
  LET kept == {i \in 1 .. size : i > 1 => KeyOf[Items[i]] # KeyOf[Items[i - 1]]} IN
  /\ Writes("uniq", NULL) /\ NoNulls
  /\ Avoids("uniq after shift") => start = 0 \/ size < 2
  /\ IF start > 0 /\ size > 1
     THEN Dead
     ELSE /\ data' = [c \in Cells |->
                        IF start = 0 /\ c < Cardinality(kept)
                        THEN Only(Items, kept)[c + 1]
                        ELSE IF start = 0 THEN NULL ELSE data[c]]
          /\ size' = Cardinality(kept) /\ UNCHANGED <<alloc, start, sorted>>
          /\ Gives({Items[i] : i \in (1 .. size) \ kept}, Freed) /\ Return(Ok)

(***************************************************************************)
(* n_array_new, n_array_free, n_array_dup, flags                           *)
(***************************************************************************)
Made ==
  /\ pc = "none" /\ pc' = "idle" /\ start' = 0
  /\ auto' = FALSE /\ const' = FALSE /\ frozen' = FALSE /\ frees' \in BOOLEAN
  /\ UNCHANGED hooked
  /\ sorted' = FALSE /\ cmp' = "up"
  /\ call' = <<"new">> /\ res' = Ok

New(n) ==
  /\ Made
  /\ alloc' = n /\ size' = 0 /\ data' = None(n) /\ UNCHANGED owner

\* The program is done with the array.
Free ==
  /\ pc = "idle" /\ pc' = "none"
  /\ owner' = Owners({}, Held, Freed)
  /\ alloc' = 1 /\ start' = 0 /\ size' = 0 /\ data' = None(1)
  /\ auto' = FALSE /\ const' = FALSE /\ frozen' = FALSE
  /\ sorted' = FALSE /\ UNCHANGED <<frees, hooked, cmp, call, res>>

\* The program goes on with a copy, whose items have the names of the ones
\* they are copies of.
Dup ==
  /\ pc = "idle"
  /\ frozen /\ size > 0 => hooked
  /\ data' = [c \in Cells |-> IF c < size THEN Items[c + 1] ELSE NULL]
  /\ start' = 0 /\ sorted' = (sorted /\ size = 0)
  /\ UNCHANGED <<alloc, size, flags, cmp, owner, pc, call, res>>

Ctl ==
  /\ pc = "idle"
  /\ \/ "AUTOSORTED" \in CtlFlags /\ auto' = TRUE /\ UNCHANGED <<const, frozen>>
     \/ "CONSTSIZE" \in CtlFlags /\ const' = TRUE /\ UNCHANGED <<auto, frozen>>
     \/ "FROZEN" \in CtlFlags /\ frozen' = ~frozen /\ UNCHANGED <<auto, const>>
  /\ UNCHANGED <<cells, frees, hooked, sorted, cmp, owner, pc, call, res>>

\* n_array_ctl_set_freefn
SetFreefn(b) ==
  /\ pc = "idle" /\ frees # b /\ frees' = b
  /\ UNCHANGED <<cells, auto, const, frozen, hooked, sorted, cmp, owner, pc, call, res>>

\* n_die_set_hook
SetHook(b) ==
  /\ hooked # b /\ hooked' = b
  /\ UNCHANGED <<cells, auto, const, frozen, frees, sorted, cmp, owner, pc, call, res>>

\* A caller allocates a new object where a freed one was.
Renew(d) ==
  /\ owner[d] = "freed"
  /\ owner' = [owner EXCEPT ![d] = "caller"]
  /\ UNCHANGED <<cells, flags, sorted, cmp, pc, call, res>>

Next ==
  \/ \E n \in InitSizes : New(n)
  \/ Free \/ Dup \/ Ctl \/ (\E b \in Hooks : SetHook(b)) \/ (\E b \in BOOLEAN : SetFreefn(b))
  \/ \E d \in Data : Push(d) \/ Unshift(d) \/ Renew(d) \/ \E i \in Places : SetNth(i, d)
  \/ \E s \in Rows : Concat(s) \/ Eq(s)
  \/ \E name \in {"map", "map_arg"} : Map(name)
  \/ \E i \in Places : RemoveNth(i) \/ Nth(i)
  \/ \E k \in Keys : RemoveEx(k) \/ Search("lookup", k) \/ Search("index", k)
  \/ \E dir \in {"up", "down"} : Sort(dir) \/ SetCmp(dir)
  \/ Pop \/ Shift \/ Clean \/ Reverse_ \/ Uniq

Spec == Init /\ [][Next]_vars

-----------------------------------------------------------------------------
(***************************************************************************)
(* What must hold of the array                                             *)
(***************************************************************************)
\* No call reads or writes a cell that is not there.
NotDead == pc # "dead"

\* The cells around the items are empty: n_array_remove_ex and n_array_clean
\* look at all of them, and would free what was left there again.
RestEmpty == \A c \in Cells : c \notin start .. start + size - 1 => data[c] = NULL

\* A data pointer is in one cell as long as it belongs to the array, and in
\* none after it was freed or given back to the caller.
OwnedOnce ==
  \A d \in Data : Cardinality({c \in Cells : data[c] = d}) = (IF owner[d] = "array" THEN 1 ELSE 0)

\* TN_ARRAY_INTERNAL_ISSORTED is not set on items out of order, by whatever
\* function they were sorted last: an autosorted array is searched as it is.
SortedInOrder == sorted => InOrder(cmp, Items)

\* The cells and who owns what they point to.
MemoryOK == TypeOK /\ NotDead /\ RestEmpty /\ OwnedOnce

Order == INSTANCE ItemSeq WITH
           items   <- Items,
           uniq    <- FALSE,
           limit   <- IF const THEN alloc ELSE 0,
           frozen  <- frozen /\ ~hooked,
           MayFail <- FALSE

\* The array is a sequence, wherever its items start and however often it
\* grew; as long as n_die does not return, the items of a frozen one stay what
\* and where they are, also when it is searched, sorted or copied.
IsASequence == Order!Spec
=============================================================================
