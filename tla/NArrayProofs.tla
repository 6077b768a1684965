---------------------------- MODULE NArrayProofs ----------------------------
(***************************************************************************)
(* Proofs about NArray, for callers that avoid what Misuse names: no call  *)
(* leaves the block, no pointer is in two cells or outside the items, each *)
(* is freed once, the sorted flag is not set on items out of order, and    *)
(* what the caller sees is the sequence of ItemSeq.                        *)
(***************************************************************************)
EXTENDS NArray, FiniteSetTheorems, SequenceTheorems, WellFoundedInduction, TLAPS

Once(f) == \A c, e \in DOMAIN f : f[c] = f[e] /\ f[c] # NULL => c = e
OwnedBy == \A d \in Data : owner[d] = "array" <=> \E c \in Cells : data[c] = d
Ordered == SortedInOrder /\ (sorted => NoNulls)

IndInv ==
  /\ TypeOK /\ NotDead
  /\ pc = "none" => size = 0
  /\ RestEmpty /\ Once(data) /\ OwnedBy /\ Ordered

-----------------------------------------------------------------------------
(***************************************************************************)
(* What a step does to the cells                                           *)
(***************************************************************************)
\* The cells S have what was in the cells g, the cells N what is new, "in";
\* "out" goes to whom.
Rearranged(S, g, N, in, out, whom) ==
  /\ S \subseteq Cells' /\ N \subseteq Cells' /\ S \cap N = {}
  /\ g \in [S -> Cells] /\ \A c, e \in S : g[c] = g[e] => c = e
  /\ \A c \in S : data'[c] = data[g[c]]
  /\ \A c \in Cells' : c \notin S /\ c \notin N => data'[c] = NULL
  /\ in \subseteq Data /\ whom # "array"
  /\ \A c \in N : data'[c] \in in
  /\ \A c, e \in N : data'[c] = data'[e] => c = e
  /\ \A d \in in : owner[d] = "caller" /\ \E c \in N : data'[c] = d
  /\ \A c \in S : data[g[c]] # NULL => data[g[c]] \notin out
  /\ \A c \in Cells : data[c] # NULL => data[c] \in out \/ \E e \in S : g[e] = c
  /\ owner' = Owners(in, out, whom)

LEMMA TypeFacts ==
  ASSUME TypeOK
  PROVE  /\ alloc \in Nat /\ start \in Nat /\ size \in Nat /\ alloc >= 1 /\ start + size <= alloc
         /\ alloc <= MaxAlloc /\ MaxAlloc \in Nat /\ DOMAIN data = Cells
         /\ \A c \in Cells : c \in Nat /\ c < alloc /\ data[c] \in Data \cup {NULL}
BY ArrayAssumption DEF TypeOK, Cells

LEMMA RearrangedMemory ==
  ASSUME IndInv, NEW S, NEW g, NEW N, NEW in, NEW out, NEW whom,
         Rearranged(S, g, N, in, out, whom), DOMAIN data' = Cells'
  PROVE  Once(data)' /\ OwnedBy'
<1>1. /\ S \subseteq Cells' /\ N \subseteq Cells' /\ S \cap N = {}
      /\ g \in [S -> Cells] /\ \A c, e \in S : g[c] = g[e] => c = e
      /\ \A c \in S : data'[c] = data[g[c]]
      /\ \A c \in Cells' : c \notin S /\ c \notin N => data'[c] = NULL
      /\ in \subseteq Data /\ whom # "array"
  BY DEF Rearranged
<1>2. /\ \A c \in N : data'[c] \in in
      /\ \A c, e \in N : data'[c] = data'[e] => c = e
      /\ \A d \in in : owner[d] = "caller" /\ \E c \in N : data'[c] = d
      /\ \A c \in S : data[g[c]] # NULL => data[g[c]] \notin out
      /\ \A c \in Cells : data[c] # NULL => data[c] \in out \/ \E e \in S : g[e] = c
      /\ owner' = Owners(in, out, whom)
  BY DEF Rearranged
<1>3. /\ \A c, e \in Cells : data[c] = data[e] /\ data[c] # NULL => c = e
      /\ \A d \in Data : owner[d] = "array" <=> \E c \in Cells : data[c] = d
      /\ \A c \in Cells : data[c] \in Data \cup {NULL}
      /\ NULL \notin Data
  BY TypeFacts, ArrayAssumption DEF IndInv, Once, OwnedBy
<1>4. \A c \in S : data'[c] \notin in
  <2>1. SUFFICES ASSUME NEW c \in S, data'[c] \in in PROVE FALSE
    OBVIOUS
  <2>2. g[c] \in Cells /\ data[g[c]] \in in /\ data[g[c]] \in Data
    BY <1>1, <2>1
  <2>. QED  BY <1>2, <1>3, <2>2
<1>5. ASSUME NEW c \in Cells', NEW e \in Cells', data'[c] = data'[e], data'[c] # NULL
      PROVE  c = e
  <2>1. c \in S \cup N /\ e \in S \cup N
    BY <1>1, <1>5
  <2>2. CASE c \in S /\ e \in S
    BY <1>1, <1>3, <1>5, <2>2
  <2>3. CASE c \in N /\ e \in N
    BY <1>2, <1>5, <2>3
  <2>4. ~(c \in S /\ e \in N) /\ ~(c \in N /\ e \in S)
    BY <1>2, <1>4, <1>5
  <2>. QED  BY <2>1, <2>2, <2>3, <2>4
<1>6. ASSUME NEW d \in Data
      PROVE  owner'[d] = "array" <=> \E c \in Cells' : data'[c] = d
  <2>1. owner'[d] = IF d \in in THEN "array" ELSE IF d \in out THEN whom ELSE owner[d]
    BY <1>2 DEF Owners
  <2>2. CASE d \in in
    BY <1>1, <1>2, <2>1, <2>2
  <2>3. CASE d \notin in /\ d \in out
    <3>1. \A c \in Cells' : data'[c] # d
      BY <1>1, <1>2, <1>3, <2>3
    <3>. QED  BY <1>1, <2>1, <2>3, <3>1
  <2>4. CASE d \notin in /\ d \notin out
    <3>1. ASSUME NEW c \in Cells, data[c] = d PROVE \E e \in Cells' : data'[e] = d
      BY <1>1, <1>2, <1>3, <2>4, <3>1
    <3>2. ASSUME NEW e \in Cells', data'[e] = d PROVE \E c \in Cells : data[c] = d
      BY <1>1, <1>2, <1>3, <2>4, <3>2
    <3>. QED  BY <1>3, <2>1, <2>4, <3>1, <3>2
  <2>. QED  BY <2>2, <2>3, <2>4
<1>. QED  BY <1>5, <1>6 DEF Once, OwnedBy

\* The items that stay keep their order: item i was item h[i].
KeptInOrder(h) ==
  /\ size' \in Nat /\ h \in [1 .. size' -> 1 .. size]
  /\ \A i, j \in 1 .. size' : i < j => h[i] < h[j]
  /\ \A i \in 1 .. size' : data'[start' + i - 1] = data[start + h[i] - 1]

LEMMA KeptOrdered ==
  ASSUME IndInv, NEW h, KeptInOrder(h), sorted' => sorted, cmp' = cmp
  PROVE  Ordered'
<1>1. SUFFICES ASSUME sorted' PROVE InOrder(cmp, Items)' /\ NoNulls'
  BY DEF Ordered, SortedInOrder
<1>2. /\ \A i \in 1 .. size : Items[i] # NULL /\ Items[i] = data[start + i - 1]
      /\ \A i, j \in 1 .. size : i < j => ~Comes(cmp, KeyOf[Items[j]], KeyOf[Items[i]])
  BY <1>1 DEF IndInv, Ordered, SortedInOrder, InOrder, NoNulls, Items
<1>3. \A i \in 1 .. size' : h[i] \in 1 .. size /\ Items'[i] = Items[h[i]]
  BY <1>2 DEF KeptInOrder, Items
<1>4. \A i, j \in 1 .. size' : i < j => h[i] < h[j]
  BY DEF KeptInOrder
<1>5. DOMAIN Items' = 1 .. size'
  BY DEF Items
<1>6. NoNulls'
  BY <1>2, <1>3 DEF NoNulls
<1>7. \A i, j \in 1 .. size' : i < j => ~Comes(cmp, KeyOf[Items'[j]], KeyOf[Items'[i]])
  BY <1>2, <1>3, <1>4
<1>. QED  BY <1>5, <1>6, <1>7 DEF InOrder, Comes

LEMMA NotOrdered ==
  ASSUME sorted' = FALSE
  PROVE  Ordered'
BY DEF Ordered, SortedInOrder

\* No cell, owner or flag changes.
LEMMA SameStep ==
  ASSUME IndInv, UNCHANGED <<cells, flags, sorted, cmp, owner>>,
         pc' = pc
  PROVE  IndInv'
<1>1. UNCHANGED <<alloc, start, size, data, auto, const, frozen, frees, hooked, sorted, cmp, owner>>
  BY DEF cells, flags
<1>. QED  BY <1>1 DEF IndInv, TypeOK, NotDead, Cells, RestEmpty, Once, OwnedBy, Ordered,
                      SortedInOrder, NoNulls, Items, InOrder, Comes

-----------------------------------------------------------------------------
(***************************************************************************)
(* Growing                                                                 *)
(***************************************************************************)
\* The least-number principle.
LEMMA LeastElement ==
  ASSUME NEW T \in SUBSET Nat, T # {}
  PROVE  \E n \in T : \A m \in T : n <= m
<1>. DEFINE R == {ss \in Nat \X Nat : ss[1] < ss[2]}
<1>1. R = OpToRel(<, Nat)
  BY DEF OpToRel
<1>2. IsWellFoundedOn(R, Nat)
  BY <1>1, NatLessThanWellFounded
<1>3. PICK x \in T : \A y \in T : <<y, x>> \notin R
  <2>. HIDE DEF R
  <2>. QED  BY <1>2, WFMin
<1>4. ASSUME NEW y \in T PROVE x <= y
  <2>1. <<y, x>> \in Nat \X Nat
    OBVIOUS
  <2>2. ~(y < x)
    BY <1>3, <2>1
  <2>. QED  BY <2>2
<1>. QED  BY <1>4

\* A size that n_array_grow may take is greater than what was asked for.
LEMMA GrownFits ==
  ASSUME TypeOK, NEW n \in Nat, Grown(n) <= MaxAlloc
  PROVE  Grown(n) \in Nat /\ Grown(n) > n /\ Grown(n) >= alloc
<1>. DEFINE sizes == {m \in alloc .. 2 * MaxAlloc : \E k \in 0 .. MaxAlloc : m = alloc * 2 ^ k /\ m > n}
<1>1. alloc \in Nat /\ MaxAlloc \in Nat
  BY TypeFacts
<1>2. sizes \in SUBSET Nat /\ \A m \in sizes : m >= alloc /\ m > n
  BY <1>1
<1>3. Grown(n) = IF sizes = {} THEN MaxAlloc + 1 ELSE CHOOSE m \in sizes : \A l \in sizes : m <= l
  BY DEF Grown
<1>. HIDE DEF sizes
<1>4. sizes # {}
  BY <1>1, <1>3
<1>5. \E m \in sizes : \A l \in sizes : m <= l
  BY <1>2, <1>4, LeastElement
<1>6. Grown(n) \in sizes
  BY <1>3, <1>4, <1>5
<1>. QED  BY <1>2, <1>6

LEMMA RoomFits ==
  ASSUME TypeOK, NEW n \in Nat, Room(n) <= MaxAlloc
  PROVE  Room(n) \in Nat /\ Room(n) >= alloc /\ size + n <= Room(n)
<1>1. alloc \in Nat /\ size \in Nat /\ start \in Nat /\ start + size <= alloc
  BY TypeFacts
<1>2. CASE size + n > alloc
  <2>1. Room(n) = Grown(alloc + n)
    BY <1>2 DEF Room
  <2>. QED  BY <1>1, <2>1, GrownFits
<1>3. CASE ~(size + n > alloc)
  BY <1>1, <1>3 DEF Room
<1>. QED  BY <1>2, <1>3

\* What Store leaves.
LEMMA Stores ==
  ASSUME TypeOK, NEW n \in Nat, NEW put, Store(n, put)
  PROVE  /\ alloc' = n /\ Cells' = 0 .. n - 1 /\ DOMAIN data' = Cells'
         /\ \A c \in Cells' : c \in DOMAIN put => data'[c] = put[c]
         /\ \A c \in Cells' : c \notin DOMAIN put /\ c \in Cells => data'[c] = data[c]
         /\ \A c \in Cells' : c \notin DOMAIN put /\ c \notin Cells => data'[c] = NULL
BY DEF Store, Cells

\* New data in the cells N, the rest as it was.
LEMMA StoredMemory ==
  ASSUME IndInv, NEW n \in Nat, n >= alloc, n <= MaxAlloc, NEW put, Store(n, put),
         DOMAIN put \subseteq 0 .. n - 1,
         NEW in \in SUBSET Data, \A d \in in : owner[d] = "caller",
         \A c \in DOMAIN put : put[c] \in in /\ (c \in Cells => data[c] = NULL),
         \A c, e \in DOMAIN put : put[c] = put[e] => c = e,
         \A d \in in : \E c \in DOMAIN put : put[c] = d,
         Takes(in)
  PROVE  /\ Once(data)' /\ OwnedBy' /\ Ordered'
         /\ data' \in [Cells' -> Data \cup {NULL}] /\ owner' \in [Data -> {"caller", "array", "freed"}]
         /\ \A c \in Cells' : c \notin DOMAIN put => data'[c] = IF c \in Cells THEN data[c] ELSE NULL
<1>. DEFINE N == DOMAIN put
            S == Cells \ N
            g == [c \in S |-> c]
<1>1. /\ alloc \in Nat /\ DOMAIN data = Cells /\ Cells = 0 .. alloc - 1
      /\ \A c \in Cells : data[c] \in Data \cup {NULL}
      /\ owner \in [Data -> {"caller", "array", "freed"}] /\ TypeOK
  BY TypeFacts DEF IndInv, Cells, TypeOK
<1>2. /\ Cells' = 0 .. n - 1 /\ DOMAIN data' = Cells'
      /\ \A c \in Cells' : c \in N => data'[c] = put[c]
      /\ \A c \in Cells' : c \notin N /\ c \in Cells => data'[c] = data[c]
      /\ \A c \in Cells' : c \notin N /\ c \notin Cells => data'[c] = NULL
  BY <1>1, Stores
<1>3. Cells \subseteq Cells' /\ N \subseteq Cells'
  BY <1>1, <1>2
<1>4. owner' = Owners(in, {}, "caller") /\ sorted' = FALSE
  BY DEF Takes
<1>5. /\ g \in [S -> Cells] /\ \A c, e \in S : g[c] = g[e] => c = e
      /\ \A c \in S : data'[c] = data[g[c]]
      /\ \A c \in S : data[g[c]] # NULL => data[g[c]] \notin {}
  BY <1>2, <1>3
<1>6. \A c \in Cells : data[c] # NULL => data[c] \in {} \/ \E e \in S : g[e] = c
  OBVIOUS
<1>7. /\ \A c \in N : data'[c] \in in
      /\ \A c, e \in N : data'[c] = data'[e] => c = e
      /\ \A d \in in : owner[d] = "caller" /\ \E c \in N : data'[c] = d
  BY <1>2, <1>3
<1>8. \A c \in Cells' : c \notin S /\ c \notin N => data'[c] = NULL
  BY <1>2
<1>9. S \subseteq Cells' /\ S \cap N = {}
  BY <1>3
<1>. HIDE DEF S, g
<1>10. Rearranged(S, g, N, in, {}, "caller")
  BY <1>3, <1>4, <1>5, <1>6, <1>7, <1>8, <1>9 DEF Rearranged
<1>11. Once(data)' /\ OwnedBy'
  BY <1>2, <1>10, RearrangedMemory
<1>12. data' \in [Cells' -> Data \cup {NULL}]
  <2>1. data' = [c \in Cells' |-> data'[c]]
    BY <1>2 DEF Store, Cells
  <2>2. \A c \in Cells' : data'[c] \in Data \cup {NULL}
    BY <1>1, <1>2
  <2>. QED  BY <2>1, <2>2
<1>13. owner' \in [Data -> {"caller", "array", "freed"}]
  BY <1>1, <1>4 DEF Owners
<1>. QED  BY <1>2, <1>4, <1>11, <1>12, <1>13, NotOrdered

LEMMA Within ==
  ASSUME NEW a \in Nat, NEW b \in Nat, NEW c \in Nat, a + b <= c
  PROVE  a \in 0 .. c /\ b \in 0 .. c
OBVIOUS

\* What has not happened to the rest of the state.
LEMMA TypedStep ==
  ASSUME TypeOK, alloc' \in 1 .. MaxAlloc, start' \in Nat, size' \in Nat, start' + size' <= alloc',
         data' \in [Cells' -> Data \cup {NULL}], owner' \in [Data -> {"caller", "array", "freed"}],
         UNCHANGED <<flags, cmp>>, sorted' \in BOOLEAN, pc' = pc, NotDead
  PROVE  TypeOK' /\ NotDead'
<1>1. /\ auto \in BOOLEAN /\ const \in BOOLEAN /\ frozen \in BOOLEAN /\ frees \in BOOLEAN
      /\ hooked \in Hooks /\ cmp \in {"up", "down"} /\ pc \in {"none", "idle", "dead"}
      /\ auto' = auto /\ const' = const /\ frozen' = frozen /\ frees' = frees
      /\ hooked' = hooked /\ cmp' = cmp
  BY DEF TypeOK, flags
<1>2. /\ auto' \in BOOLEAN /\ const' \in BOOLEAN /\ frozen' \in BOOLEAN /\ frees' \in BOOLEAN
      /\ hooked' \in Hooks /\ cmp' \in {"up", "down"} /\ pc' \in {"none", "idle", "dead"}
  BY <1>1, Zenon
<1>3. start' \in 0 .. alloc' /\ size' \in 0 .. alloc'
  <2>1. MaxAlloc \in Nat
    BY ArrayAssumption
  <2>2. alloc' \in Nat
    BY <2>1
  <2>. QED  BY <2>2, Within
<1>. QED  BY <1>2, <1>3, Zenon DEF TypeOK, NotDead

LEMMA PushStep ==
  ASSUME IndInv, Misuse = {}, NEW d \in Data, Push(d)
  PROVE  IndInv'
<1>1. /\ Writes("push", d) /\ Mine(<<d>>) /\ pc = "idle"
  BY DEF Push, Writes, Reads
<1>2. CASE size = alloc /\ const
  <2>1. Die
    BY <1>2 DEF Push, Avoids
  <2>. QED  BY <2>1, SameStep DEF Die, Return
<1>3. CASE ~(size = alloc /\ const)
  <2>. DEFINE n == Room(1)
              pos == start + size
              put == [c \in {pos} |-> d]
  <2>1. /\ n <= MaxAlloc /\ pos < n /\ Store(n, put)
        /\ size' = size + 1 /\ UNCHANGED start /\ Takes({d}) /\ Return(Ok)
    BY <1>3 DEF Push, Avoids
  <2>2. /\ alloc \in Nat /\ size \in Nat /\ start \in Nat /\ start + size <= alloc /\ alloc >= 1
        /\ TypeOK /\ RestEmpty /\ MaxAlloc \in Nat /\ pos \in Nat
    BY TypeFacts DEF IndInv
  <2>3. n \in Nat /\ n >= alloc
    BY <2>1, <2>2, RoomFits
  <2>4. DOMAIN put = {pos} /\ put[pos] = d
    OBVIOUS
  <2>5. owner[d] = "caller"
    BY <1>1 DEF Mine
  <2>6. pos \in Cells => data[pos] = NULL
    BY <2>2 DEF RestEmpty
  <2>. HIDE DEF put, n
  <2>7. /\ Once(data)' /\ OwnedBy' /\ Ordered'
        /\ data' \in [Cells' -> Data \cup {NULL}] /\ owner' \in [Data -> {"caller", "array", "freed"}]
        /\ \A c \in Cells' : c \notin DOMAIN put => data'[c] = IF c \in Cells THEN data[c] ELSE NULL
    <3>1. DOMAIN put \subseteq 0 .. n - 1
      BY <2>1, <2>2, <2>3, <2>4
    <3>2. \A c \in DOMAIN put : put[c] \in {d} /\ (c \in Cells => data[c] = NULL)
      BY <2>4, <2>6
    <3>3. \A c, e \in DOMAIN put : put[c] = put[e] => c = e
      BY <2>4
    <3>4. \A x \in {d} : \E c \in DOMAIN put : put[c] = x
      BY <2>4
    <3>. QED  BY <2>1, <2>3, <2>5, <3>1, <3>2, <3>3, <3>4, StoredMemory
  <2>8. alloc' = n /\ Cells' = 0 .. n - 1
    BY <2>1, <2>2, <2>3, Stores
  <2>9. TypeOK' /\ NotDead'
    <3>1. UNCHANGED <<flags, cmp>> /\ sorted' = FALSE /\ pc' = pc
      BY <2>1 DEF Takes, Return
    <3>2. start' + size' <= alloc' /\ size' \in Nat /\ start' \in Nat /\ alloc' \in 1 .. MaxAlloc
      BY <2>1, <2>2, <2>3, <2>8
    <3>. QED  BY <2>2, <2>7, <3>1, <3>2, TypedStep DEF IndInv
  <2>10. RestEmpty'
    <3>1. SUFFICES ASSUME NEW c \in Cells', c \notin start' .. start' + size' - 1 PROVE data'[c] = NULL
      BY DEF RestEmpty
    <3>2. start' = start /\ size' = size + 1 /\ size \in Nat /\ start \in Nat /\ c \in Int
      BY <2>1, <2>2, <2>3, <2>8
    <3>3. c # pos /\ c \notin start .. start + size - 1
      BY <3>1, <3>2
    <3>4. c \in Cells => data[c] = NULL
      BY <2>2, <3>3 DEF RestEmpty
    <3>. QED  BY <2>4, <2>7, <3>3, <3>4
  <2>. QED  BY <1>1, <2>1, <2>7, <2>9, <2>10 DEF IndInv, Return
<1>. QED  BY <1>2, <1>3

LEMMA ConcatStep ==
  ASSUME IndInv, Misuse = {}, NEW s \in Rows, Concat(s)
  PROVE  IndInv'
<1>1. /\ Writes("concat", s) /\ Mine(s) /\ pc = "idle" /\ start = 0
  BY DEF Concat, Writes, Reads, Avoids
<1>2. CASE size + Len(s) > alloc /\ const
  <2>1. Die
    BY <1>2 DEF Concat
  <2>. QED  BY <2>1, SameStep DEF Die, Return
<1>3. CASE ~(size + Len(s) > alloc /\ const)
  <2>. DEFINE n == Room(Len(s))
              end == start + size + Len(s)
              put == [c \in start + size .. end - 1 |-> s[c - start - size + 1]]
  <2>1. n <= MaxAlloc
    BY <1>3 DEF Concat
  <2>2. /\ alloc \in Nat /\ size \in Nat /\ start \in Nat /\ start + size <= alloc /\ alloc >= 1
        /\ TypeOK /\ RestEmpty /\ MaxAlloc \in Nat
    BY TypeFacts DEF IndInv
  <2>3. s \in Seq(Data) /\ Len(s) \in Nat /\ \A i \in 1 .. Len(s) : s[i] \in Data
    BY ArrayAssumption
  <2>4. n \in Nat /\ n >= alloc /\ end <= n
    BY <1>1, <2>1, <2>2, <2>3, RoomFits
  <2>5. /\ Store(n, put) /\ size' = end /\ UNCHANGED start /\ Takes(Range(s)) /\ Return(Ok)
    BY <1>3, <2>4 DEF Concat
  <2>6. DOMAIN put = size .. end - 1 /\ \A c \in size .. end - 1 : put[c] = s[c - size + 1]
    BY <1>1, <2>2, <2>3
  <2>7. \A c \in size .. end - 1 : c - size + 1 \in 1 .. Len(s) /\ c \in Nat /\ c >= size
    BY <1>1, <2>2, <2>3
  <2>8. \A i \in 1 .. Len(s) : owner[s[i]] = "caller" /\ \A j \in 1 .. Len(s) : s[i] = s[j] => i = j
    BY <1>1, <2>3 DEF Mine
  <2>9. Range(s) \in SUBSET Data /\ \A d \in Range(s) : \E i \in 1 .. Len(s) : d = s[i]
    BY <2>3 DEF Range
  <2>10. \A i \in 1 .. Len(s) : s[i] \in Range(s)
    BY <2>3 DEF Range
  <2>11. \A c \in Cells : c >= size => data[c] = NULL
    BY <1>1, <2>2 DEF RestEmpty, Cells
  <2>. HIDE DEF put, n
  <2>12. /\ Once(data)' /\ OwnedBy' /\ Ordered'
         /\ data' \in [Cells' -> Data \cup {NULL}] /\ owner' \in [Data -> {"caller", "array", "freed"}]
         /\ \A c \in Cells' : c \notin DOMAIN put => data'[c] = IF c \in Cells THEN data[c] ELSE NULL
    <3>1. DOMAIN put \subseteq 0 .. n - 1
      BY <1>1, <2>2, <2>3, <2>4, <2>6
    <3>2. \A c \in DOMAIN put : put[c] \in Range(s) /\ (c \in Cells => data[c] = NULL)
      BY <2>6, <2>7, <2>10, <2>11
    <3>3. \A c, e \in DOMAIN put : put[c] = put[e] => c = e
      <4>1. SUFFICES ASSUME NEW c \in size .. end - 1, NEW e \in size .. end - 1, put[c] = put[e]
                     PROVE  c = e
        BY <2>6
      <4>2. c - size + 1 = e - size + 1
        BY <2>6, <2>7, <2>8, <4>1
      <4>. QED  BY <2>2, <2>7, <4>2
    <3>4. \A d \in Range(s) : owner[d] = "caller" /\ \E c \in DOMAIN put : put[c] = d
      <4>1. SUFFICES ASSUME NEW d \in Range(s)
                     PROVE  owner[d] = "caller" /\ \E c \in DOMAIN put : put[c] = d
        OBVIOUS
      <4>2. PICK i \in 1 .. Len(s) : d = s[i]
        BY <2>9
      <4>3. size + i - 1 \in size .. end - 1 /\ (size + i - 1) - size + 1 = i
        BY <1>1, <2>2, <2>3
      <4>. QED  BY <2>6, <2>8, <4>2, <4>3
    <3>. QED  BY <2>1, <2>4, <2>5, <2>9, <3>1, <3>2, <3>3, <3>4, StoredMemory
  <2>13. alloc' = n /\ Cells' = 0 .. n - 1
    BY <2>2, <2>4, <2>5, Stores
  <2>14. TypeOK' /\ NotDead'
    <3>1. UNCHANGED <<flags, cmp>> /\ sorted' = FALSE /\ pc' = pc
      BY <2>5 DEF Takes, Return
    <3>2. start' + size' <= alloc' /\ size' \in Nat /\ start' \in Nat /\ alloc' \in 1 .. MaxAlloc
      BY <1>1, <2>1, <2>2, <2>3, <2>4, <2>5, <2>13
    <3>. QED  BY <2>2, <2>12, <3>1, <3>2, TypedStep DEF IndInv
  <2>15. RestEmpty'
    <3>1. SUFFICES ASSUME NEW c \in Cells', c \notin start' .. start' + size' - 1
                   PROVE  data'[c] = NULL
      BY DEF RestEmpty
    <3>2. c \in Nat /\ c >= end /\ end \in Nat /\ end >= size
      BY <1>1, <2>2, <2>3, <2>4, <2>5, <2>13, <3>1
    <3>3. c \notin DOMAIN put
      BY <2>2, <2>6, <3>2
    <3>. QED  BY <2>2, <2>11, <2>12, <3>1, <3>2, <3>3
  <2>. QED  BY <1>1, <2>5, <2>12, <2>14, <2>15 DEF IndInv, Return
<1>. QED  BY <1>2, <1>3

\* One new datum in an empty cell.
LEMMA OneStored ==
  ASSUME IndInv, NEW n \in Nat, n >= alloc, n <= MaxAlloc, NEW pos \in 0 .. n - 1, NEW d \in Data,
         owner[d] = "caller", pos \in Cells => data[pos] = NULL,
         Store(n, [c \in {pos} |-> d]), Takes({d})
  PROVE  /\ Once(data)' /\ OwnedBy' /\ Ordered' /\ alloc' = n /\ Cells' = 0 .. n - 1
         /\ data' \in [Cells' -> Data \cup {NULL}] /\ owner' \in [Data -> {"caller", "array", "freed"}]
         /\ \A c \in Cells' : c # pos => data'[c] = IF c \in Cells THEN data[c] ELSE NULL
<1>. DEFINE put == [c \in {pos} |-> d]
<1>1. DOMAIN put = {pos} /\ put[pos] = d
  OBVIOUS
<1>2. Store(n, put)
  OBVIOUS
<1>. HIDE DEF put
<1>3. /\ Once(data)' /\ OwnedBy' /\ Ordered'
      /\ data' \in [Cells' -> Data \cup {NULL}] /\ owner' \in [Data -> {"caller", "array", "freed"}]
      /\ \A c \in Cells' : c \notin DOMAIN put => data'[c] = IF c \in Cells THEN data[c] ELSE NULL
  <2>1. DOMAIN put \subseteq 0 .. n - 1
    BY <1>1
  <2>2. \A c \in DOMAIN put : put[c] \in {d} /\ (c \in Cells => data[c] = NULL)
    BY <1>1
  <2>3. \A c, e \in DOMAIN put : put[c] = put[e] => c = e
    BY <1>1
  <2>4. \A x \in {d} : \E c \in DOMAIN put : put[c] = x
    BY <1>1
  <2>. QED  BY <1>2, <2>1, <2>2, <2>3, <2>4, StoredMemory
<1>4. TypeOK
  BY DEF IndInv
<1>. QED  BY <1>1, <1>2, <1>3, <1>4, Stores

LEMMA UnshiftStep ==
  ASSUME IndInv, NEW d \in Data, Unshift(d)
  PROVE  IndInv'
<1>1. /\ Writes("unshift", d) /\ Mine(<<d>>) /\ pc = "idle"
  BY DEF Unshift, Writes, Reads
<1>2. owner[d] = "caller"
  BY <1>1 DEF Mine
<1>3. /\ alloc \in Nat /\ size \in Nat /\ start \in Nat /\ start + size <= alloc /\ alloc >= 1
      /\ TypeOK /\ RestEmpty /\ MaxAlloc \in Nat /\ alloc <= MaxAlloc /\ Cells = 0 .. alloc - 1
      /\ \A c \in Cells : data[c] \in Data \cup {NULL}
  BY TypeFacts DEF IndInv, Cells
<1>4. CASE start > 0
  <2>1. /\ Store(alloc, [c \in {start - 1} |-> d]) /\ start' = start - 1 /\ size' = size + 1
        /\ Takes({d}) /\ Return(Ok)
    BY <1>4 DEF Unshift
  <2>2. start - 1 \in 0 .. alloc - 1 /\ start - 1 \in Cells /\ start - 1 \notin start .. start + size - 1
    BY <1>3, <1>4
  <2>3. data[start - 1] = NULL
    BY <1>3, <2>2 DEF RestEmpty
  <2>4. /\ Once(data)' /\ OwnedBy' /\ Ordered' /\ alloc' = alloc /\ Cells' = 0 .. alloc - 1
        /\ data' \in [Cells' -> Data \cup {NULL}] /\ owner' \in [Data -> {"caller", "array", "freed"}]
        /\ \A c \in Cells' : c # start - 1 => data'[c] = IF c \in Cells THEN data[c] ELSE NULL
    <3>. DEFINE pos == start - 1
    <3>1. Store(alloc, [c \in {pos} |-> d]) /\ Takes({d})
      BY <2>1
    <3>2. pos \in 0 .. alloc - 1 /\ (pos \in Cells => data[pos] = NULL) /\ alloc >= alloc
      BY <1>3, <2>2, <2>3
    <3>3. pos = start - 1
      OBVIOUS
    <3>. HIDE DEF pos
    <3>4. /\ Once(data)' /\ OwnedBy' /\ Ordered' /\ alloc' = alloc /\ Cells' = 0 .. alloc - 1
          /\ data' \in [Cells' -> Data \cup {NULL}] /\ owner' \in [Data -> {"caller", "array", "freed"}]
          /\ \A c \in Cells' : c # pos => data'[c] = IF c \in Cells THEN data[c] ELSE NULL
      BY <1>2, <1>3, <3>1, <3>2, OneStored
    <3>. QED  BY <3>3, <3>4
  <2>5. TypeOK' /\ NotDead'
    <3>1. UNCHANGED <<flags, cmp>> /\ sorted' = FALSE /\ pc' = pc
      BY <2>1 DEF Takes, Return
    <3>2. start' + size' <= alloc' /\ size' \in Nat /\ start' \in Nat /\ alloc' \in 1 .. MaxAlloc
      BY <1>3, <1>4, <2>1, <2>4
    <3>. QED  BY <1>3, <2>4, <3>1, <3>2, TypedStep DEF IndInv
  <2>6. RestEmpty'
    <3>1. SUFFICES ASSUME NEW c \in Cells', c \notin start' .. start' + size' - 1
                   PROVE  data'[c] = NULL
      BY DEF RestEmpty
    <3>2. c \in Cells /\ c # start - 1 /\ c \notin start .. start + size - 1
      BY <1>3, <1>4, <2>1, <2>4, <3>1
    <3>. QED  BY <1>3, <2>4, <3>2 DEF RestEmpty
  <2>. QED  BY <1>1, <2>1, <2>4, <2>5, <2>6 DEF IndInv, Return
<1>5. CASE start = 0 /\ size = alloc /\ const
  <2>1. Die
    BY <1>5 DEF Unshift
  <2>. QED  BY <2>1, SameStep DEF Die, Return
<1>6. CASE start = 0 /\ ~(size = alloc /\ const)
  <2>. DEFINE n == Room(1)
              put == [c \in 0 .. size |-> IF c = 0 THEN d ELSE MovedUp(size)[c]]
              S == 1 .. size
              g == [c \in S |-> c - 1]
  <2>1. /\ n <= MaxAlloc /\ Store(n, put) /\ size' = size + 1 /\ UNCHANGED start
        /\ Takes({d}) /\ Return(Ok)
    BY <1>6 DEF Unshift
  <2>2. n \in Nat /\ n >= alloc /\ size + 1 <= n
    BY <1>3, <2>1, RoomFits
  <2>3. DOMAIN put = 0 .. size /\ put[0] = d /\ \A c \in 1 .. size : put[c] = data[c - 1]
    BY <1>3 DEF MovedUp
  <2>4. g \in [S -> Cells] /\ \A c \in S : g[c] = c - 1
    BY <1>3
  <2>. HIDE DEF put, n, g
  <2>5. /\ alloc' = n /\ Cells' = 0 .. n - 1 /\ DOMAIN data' = Cells'
        /\ \A c \in Cells' : c \in DOMAIN put => data'[c] = put[c]
        /\ \A c \in Cells' : c \notin DOMAIN put /\ c \in Cells => data'[c] = data[c]
        /\ \A c \in Cells' : c \notin DOMAIN put /\ c \notin Cells => data'[c] = NULL
    BY <1>3, <2>1, <2>2, Stores
  <2>6. data'[0] = d /\ 0 \in Cells' /\ \A c \in S : data'[c] = data[c - 1] /\ c \in Cells' /\ c # 0
    BY <1>3, <2>2, <2>3, <2>5
  <2>7. \A c \in Cells' : c # 0 /\ c \notin S => data'[c] = NULL
    <3>1. SUFFICES ASSUME NEW c \in Cells', c # 0, c \notin S PROVE data'[c] = NULL
      OBVIOUS
    <3>2. c \notin DOMAIN put /\ c \notin start .. start + size - 1
      BY <1>3, <1>6, <2>2, <2>3, <2>5, <3>1
    <3>. QED  BY <1>3, <2>5, <3>2 DEF RestEmpty
  <2>8. \A c \in Cells : data[c] # NULL => c + 1 \in S /\ g[c + 1] = c
    <3>1. SUFFICES ASSUME NEW c \in Cells, data[c] # NULL PROVE c + 1 \in S /\ g[c + 1] = c
      OBVIOUS
    <3>2. c \in start .. start + size - 1
      BY <1>3, <3>1 DEF RestEmpty
    <3>. QED  BY <1>3, <1>6, <2>4, <3>2
  <2>9. owner' = Owners({d}, {}, "caller") /\ sorted' = FALSE
    BY <2>1 DEF Takes
  <2>10. Rearranged(S, g, {0}, {d}, {}, "caller")
    <3>1. \A c, e \in S : g[c] = g[e] => c = e
      BY <1>3, <2>4
    <3>2. S \subseteq Cells' /\ {0} \subseteq Cells' /\ S \cap {0} = {}
      BY <2>6
    <3>3. \A c \in S : data'[c] = data[g[c]]
      BY <2>4, <2>6
    <3>4. \A c \in Cells' : c \notin S /\ c \notin {0} => data'[c] = NULL
      BY <2>7
    <3>5. \A c \in Cells : data[c] # NULL => data[c] \in {} \/ \E e \in S : g[e] = c
      BY <2>8
    <3>6. \A x \in {d} : owner[x] = "caller" /\ \E c \in {0} : data'[c] = x
      BY <1>2, <2>6
    <3>. QED  BY <2>4, <2>6, <2>9, <3>1, <3>2, <3>3, <3>4, <3>5, <3>6 DEF Rearranged
  <2>11. Once(data)' /\ OwnedBy'
    BY <2>5, <2>10, RearrangedMemory
  <2>12. data' \in [Cells' -> Data \cup {NULL}] /\ owner' \in [Data -> {"caller", "array", "freed"}]
    <3>1. data' = [c \in Cells' |-> data'[c]]
      BY <2>1, <2>5 DEF Store
    <3>2. \A c \in S : c - 1 \in Cells
      BY <1>3
    <3>3. \A c \in Cells' : data'[c] \in Data \cup {NULL}
      BY <1>3, <2>6, <2>7, <3>2
    <3>4. owner' \in [Data -> {"caller", "array", "freed"}]
      BY <1>3, <2>9 DEF Owners, TypeOK
    <3>. QED  BY <3>1, <3>3, <3>4
  <2>13. TypeOK' /\ NotDead'
    <3>1. UNCHANGED <<flags, cmp>> /\ pc' = pc
      BY <2>1 DEF Takes, Return
    <3>2. start' + size' <= alloc' /\ size' \in Nat /\ start' \in Nat /\ alloc' \in 1 .. MaxAlloc
      BY <1>3, <1>6, <2>1, <2>2, <2>5
    <3>. QED  BY <1>3, <2>9, <2>12, <3>1, <3>2, TypedStep DEF IndInv
  <2>14. RestEmpty'
    <3>1. SUFFICES ASSUME NEW c \in Cells', c \notin start' .. start' + size' - 1
                   PROVE  data'[c] = NULL
      BY DEF RestEmpty
    <3>2. c # 0 /\ c \notin S
      BY <1>3, <1>6, <2>1, <2>5, <3>1
    <3>. QED  BY <2>7, <3>2
  <2>. QED  BY <1>1, <2>1, <2>9, <2>11, <2>13, <2>14, NotOrdered DEF IndInv, Return
<1>. QED  BY <1>3, <1>4, <1>5, <1>6

LEMMA SetNthStep ==
  ASSUME IndInv, Misuse = {}, NEW i \in Places, NEW d \in Data, SetNth(i, d)
  PROVE  IndInv'
<1>. DEFINE pos == start + i
<1>1. /\ Writes("set_nth", <<i, d>>) /\ Mine(<<d>>) /\ pc = "idle"
      /\ i < size \/ (start = 0 /\ i > alloc)
  BY DEF SetNth, Writes, Reads, Avoids
<1>2. owner[d] = "caller"
  BY <1>1 DEF Mine
<1>3. /\ alloc \in Nat /\ size \in Nat /\ start \in Nat /\ start + size <= alloc /\ alloc >= 1
      /\ TypeOK /\ RestEmpty /\ MaxAlloc \in Nat /\ alloc <= MaxAlloc /\ Cells = 0 .. alloc - 1
      /\ (\A c \in Cells : data[c] \in Data \cup {NULL}) /\ i \in Nat
  BY TypeFacts, ArrayAssumption DEF IndInv, Cells
<1>4. CASE i < size
  <2>. DEFINE put == [c \in {pos} |-> d]
              S == Cells \ {pos}
              g == [c \in S |-> c]
  <2>1. pos < alloc /\ pos \in Cells /\ pos \in start .. start + size - 1
    BY <1>3, <1>4
  <2>2. /\ Store(alloc, put) /\ UNCHANGED <<start, size>> /\ owner' = Owners({d}, {data[pos]}, Freed)
        /\ sorted' = FALSE /\ UNCHANGED <<flags, cmp>> /\ Return(Ok)
    <3>1. ~(start + i > alloc) /\ ~(start + i = alloc)
      BY <1>3, <2>1
    <3>. QED  BY <3>1 DEF SetNth
  <2>3. DOMAIN put = {pos} /\ put[pos] = d
    OBVIOUS
  <2>4. g \in [S -> Cells] /\ (\A c \in S : g[c] = c) /\ pos \notin S
    OBVIOUS
  <2>. HIDE DEF put, pos
  <2>5. /\ alloc' = alloc /\ Cells' = Cells /\ DOMAIN data' = Cells'
        /\ data'[pos] = d /\ \A c \in S : data'[c] = data[c]
    BY <1>3, <2>1, <2>2, <2>3, Stores
  <2>. HIDE DEF g
  <2>6. Rearranged(S, g, {pos}, {d}, {data[pos]}, Freed)
    <3>1. \A c, e \in S : g[c] = g[e] => c = e
      BY <2>4
    <3>2. S \subseteq Cells' /\ {pos} \subseteq Cells' /\ S \cap {pos} = {}
      BY <2>1, <2>5
    <3>3. \A c \in S : data'[c] = data[g[c]]
      BY <2>4, <2>5
    <3>4. \A c \in S : data[g[c]] # NULL => data[g[c]] \notin {data[pos]}
      BY <1>3, <2>1, <2>4, TypeFacts DEF IndInv, Once
    <3>5. \A c \in Cells : data[c] # NULL => data[c] \in {data[pos]} \/ \E e \in S : g[e] = c
      BY <2>4
    <3>6. \A x \in {d} : owner[x] = "caller" /\ \E c \in {pos} : data'[c] = x
      BY <1>2, <2>5
    <3>7. \A c \in Cells' : c \notin S /\ c \notin {pos} => data'[c] = NULL
      BY <2>5
    <3>. QED  BY <2>2, <2>4, <2>5, <3>1, <3>2, <3>3, <3>4, <3>5, <3>6, <3>7 DEF Rearranged, Freed
  <2>7. Once(data)' /\ OwnedBy'
    BY <2>5, <2>6, RearrangedMemory
  <2>8. data' \in [Cells' -> Data \cup {NULL}] /\ owner' \in [Data -> {"caller", "array", "freed"}]
    <3>1. data' = [c \in Cells' |-> data'[c]]
      BY <2>2, <2>5 DEF Store
    <3>2. \A c \in Cells' : data'[c] \in Data \cup {NULL}
      BY <1>3, <2>5
    <3>3. owner' \in [Data -> {"caller", "array", "freed"}]
      BY <1>3, <2>2 DEF Owners, TypeOK, Freed
    <3>. QED  BY <3>1, <3>2, <3>3
  <2>9. TypeOK' /\ NotDead'
    <3>1. UNCHANGED <<flags, cmp>> /\ sorted' = FALSE /\ pc' = pc
      BY <2>2 DEF Return
    <3>2. start' + size' <= alloc' /\ size' \in Nat /\ start' \in Nat /\ alloc' \in 1 .. MaxAlloc
      BY <1>3, <2>2, <2>5
    <3>. QED  BY <1>3, <2>8, <3>1, <3>2, TypedStep DEF IndInv
  <2>10. RestEmpty'
    <3>1. SUFFICES ASSUME NEW c \in Cells', c \notin start' .. start' + size' - 1
                   PROVE  data'[c] = NULL
      BY DEF RestEmpty
    <3>2. c \in S
      BY <2>1, <2>2, <2>5, <3>1
    <3>. QED  BY <1>3, <2>2, <2>5, <3>1, <3>2 DEF RestEmpty
  <2>. QED  BY <1>1, <2>2, <2>7, <2>9, <2>10, NotOrdered DEF IndInv, Return
<1>5. CASE ~(i < size)
  <2>1. start = 0 /\ pos = i /\ pos > alloc /\ pos \in Nat
    BY <1>1, <1>3, <1>5
  <2>2. CASE const
    <3>1. Die
      BY <2>1, <2>2 DEF SetNth
    <3>. QED  BY <3>1, SameStep DEF Die, Return
  <2>3. CASE ~const
    <3>. DEFINE n == Grown(pos)
    <3>1. /\ n <= MaxAlloc /\ Store(n, [c \in {pos} |-> d]) /\ size' = pos + 1 /\ UNCHANGED start
          /\ Takes({d}) /\ Return(Ok)
      BY <2>1, <2>3 DEF SetNth, CanGrow
    <3>2. n \in Nat /\ n > pos /\ n >= alloc
      BY <1>3, <2>1, <3>1, GrownFits
    <3>. HIDE DEF n, pos
    <3>3. pos \in 0 .. n - 1 /\ pos \notin Cells
      BY <1>3, <2>1, <3>2
    <3>4. /\ Once(data)' /\ OwnedBy' /\ Ordered' /\ alloc' = n /\ Cells' = 0 .. n - 1
          /\ data' \in [Cells' -> Data \cup {NULL}] /\ owner' \in [Data -> {"caller", "array", "freed"}]
          /\ \A c \in Cells' : c # pos => data'[c] = IF c \in Cells THEN data[c] ELSE NULL
      BY <1>2, <3>1, <3>2, <3>3, OneStored
    <3>5. TypeOK' /\ NotDead'
      <4>1. UNCHANGED <<flags, cmp>> /\ sorted' = FALSE /\ pc' = pc
        BY <3>1 DEF Takes, Return
      <4>2. start' + size' <= alloc' /\ size' \in Nat /\ start' \in Nat /\ alloc' \in 1 .. MaxAlloc
        BY <1>3, <2>1, <3>1, <3>2, <3>4
      <4>. QED  BY <1>3, <3>4, <4>1, <4>2, TypedStep DEF IndInv
    <3>6. RestEmpty'
      <4>1. SUFFICES ASSUME NEW c \in Cells', c \notin start' .. start' + size' - 1
                     PROVE  data'[c] = NULL
        BY DEF RestEmpty
      <4>2. c # pos /\ c \notin Cells
        BY <1>3, <2>1, <3>1, <3>4, <4>1
      <4>. QED  BY <3>4, <4>2
    <3>. QED  BY <1>1, <3>1, <3>4, <3>5, <3>6 DEF IndInv, Return
  <2>. QED  BY <2>2, <2>3
<1>. QED  BY <1>4, <1>5

-----------------------------------------------------------------------------
(***************************************************************************)
(* Taking items out, and moving them                                       *)
(***************************************************************************)
\* Every cell of S gets what was in g of it, the others are empty; "out" goes
\* to whom.
Moved(S, g, out, whom) ==
  /\ S \subseteq Cells /\ g \in [S -> Cells] /\ \A c, e \in S : g[c] = g[e] => c = e
  /\ alloc' = alloc /\ data' = [c \in Cells |-> data'[c]]
  /\ \A c \in S : data'[c] = data[g[c]]
  /\ \A c \in Cells : c \notin S => data'[c] = NULL
  /\ whom \in {"caller", "freed"}
  /\ \A c \in S : data[g[c]] # NULL => data[g[c]] \notin out
  /\ \A c \in Cells : data[c] # NULL => data[c] \in out \/ \E e \in S : g[e] = c
  /\ owner' = Owners({}, out, whom)

LEMMA MovedStep ==
  ASSUME IndInv, NEW S, NEW g, NEW out, NEW whom, Moved(S, g, out, whom),
         UNCHANGED <<flags, cmp, pc>>, sorted' \in BOOLEAN, Ordered', RestEmpty',
         size' \in Nat, start' \in Nat, start' + size' <= alloc, pc # "none"
  PROVE  IndInv'
<1>1. /\ S \subseteq Cells /\ g \in [S -> Cells] /\ (\A c, e \in S : g[c] = g[e] => c = e)
      /\ alloc' = alloc /\ data' = [c \in Cells |-> data'[c]]
      /\ (\A c \in S : data'[c] = data[g[c]])
      /\ (\A c \in Cells : c \notin S => data'[c] = NULL)
      /\ whom \in {"caller", "freed"}
  BY DEF Moved
<1>2. /\ \A c \in S : data[g[c]] # NULL => data[g[c]] \notin out
      /\ \A c \in Cells : data[c] # NULL => data[c] \in out \/ \E e \in S : g[e] = c
      /\ owner' = Owners({}, out, whom)
  BY DEF Moved
<1>3. Cells' = Cells
  BY <1>1 DEF Cells
<1>4. Rearranged(S, g, {}, {}, out, whom)
  BY <1>1, <1>2, <1>3 DEF Rearranged
<1>5. Once(data)' /\ OwnedBy'
  BY <1>1, <1>3, <1>4, RearrangedMemory
<1>6. \A c \in Cells : data[c] \in Data \cup {NULL}
  BY TypeFacts DEF IndInv
<1>7. data' \in [Cells' -> Data \cup {NULL}]
  <2>1. \A c \in Cells : data'[c] \in Data \cup {NULL}
    BY <1>1, <1>6
  <2>. QED  BY <1>1, <1>3, <2>1
<1>8. owner' \in [Data -> {"caller", "array", "freed"}]
  BY <1>1, <1>2 DEF Owners, IndInv, TypeOK
<1>9. TypeOK' /\ NotDead'
  <2>1. alloc' \in 1 .. MaxAlloc /\ start' + size' <= alloc'
    BY <1>1 DEF IndInv, TypeOK
  <2>2. UNCHANGED <<flags, cmp>> /\ pc' = pc
    OBVIOUS
  <2>. QED  BY <1>7, <1>8, <2>1, <2>2, TypedStep DEF IndInv
<1>. QED  BY <1>5, <1>9 DEF IndInv

\* Facts about the cells that every step starts from.
LEMMA CellFacts ==
  ASSUME IndInv
  PROVE  /\ alloc \in Nat /\ size \in Nat /\ start \in Nat /\ start + size <= alloc /\ alloc >= 1
         /\ TypeOK /\ MaxAlloc \in Nat /\ alloc <= MaxAlloc /\ Cells = 0 .. alloc - 1
         /\ \A c \in Cells : data[c] \in Data \cup {NULL}
         /\ \A c \in Cells : c \notin start .. start + size - 1 => data[c] = NULL
         /\ \A c, e \in Cells : data[c] = data[e] /\ data[c] # NULL => c = e
         /\ DOMAIN data = Cells /\ data = [c \in Cells |-> data[c]] /\ NULL \notin Data
<1>1. TypeOK /\ RestEmpty /\ Once(data)
  BY DEF IndInv
<1>2. data = [c \in Cells |-> data[c]]
  BY <1>1 DEF TypeOK
<1>. QED  BY <1>1, <1>2, TypeFacts, ArrayAssumption DEF Once, RestEmpty, Cells

LEMMA PopStep ==
  ASSUME IndInv, Pop
  PROVE  IndInv'
<1>1. pc = "idle"
  BY DEF Pop, Writes, Reads
<1>2. CASE size = 0
  <2>1. Die
    BY <1>2 DEF Pop
  <2>. QED  BY <2>1, SameStep DEF Die, Return
<1>3. CASE size # 0
  <2>. DEFINE pos == start + size - 1
              put == [c \in {pos} |-> NULL]
              S == Cells \ {pos}
              g == [c \in S |-> c]
              h == [i \in 1 .. size - 1 |-> i]
  <2>1. /\ Store(alloc, put) /\ size' = size - 1 /\ UNCHANGED <<start, sorted>>
        /\ Gives({data[pos]}, "caller") /\ Return(Val(data[pos]))
    BY <1>3 DEF Pop
  <2>2. pos \in Cells
    BY <1>3, CellFacts
  <2>3. DOMAIN put = {pos} /\ put[pos] = NULL
    OBVIOUS
  <2>4. g \in [S -> Cells] /\ (\A c \in S : g[c] = c) /\ S \subseteq Cells
    OBVIOUS
  <2>5. h \in [1 .. size - 1 -> 1 .. size] /\ \A i \in 1 .. size - 1 : h[i] = i
    BY <1>3, CellFacts
  <2>. HIDE DEF put, g, h
  <2>6. /\ alloc' = alloc /\ Cells' = Cells /\ data' = [c \in Cells |-> data'[c]]
        /\ data'[pos] = NULL /\ \A c \in S : data'[c] = data[c]
    <3>1. Cells' = Cells /\ alloc' = alloc
      BY <2>1, CellFacts, Stores
    <3>2. data' = [c \in Cells |-> data'[c]]
      BY <2>1, CellFacts DEF Store
    <3>3. \A c \in Cells : c \in S => c \notin DOMAIN put
      BY <2>3
    <3>. QED  BY <2>1, <2>2, <2>3, <3>1, <3>2, <3>3, CellFacts, Stores
  <2>7. owner' = Owners({}, {data[pos]}, "caller") /\ UNCHANGED <<flags, cmp, pc>>
    BY <2>1 DEF Gives, Return
  <2>8. Moved(S, g, {data[pos]}, "caller")
    <3>1. \A c, e \in S : g[c] = g[e] => c = e
      BY <2>4
    <3>2. \A c \in S : data'[c] = data[g[c]]
      BY <2>4, <2>6
    <3>3. \A c \in S : data[g[c]] # NULL => data[g[c]] \notin {data[pos]}
      BY <2>2, <2>4, CellFacts
    <3>4. \A c \in Cells : data[c] # NULL => data[c] \in {data[pos]} \/ \E e \in S : g[e] = c
      BY <2>4
    <3>5. \A c \in Cells : c \notin S => data'[c] = NULL
      BY <2>6
    <3>. QED  BY <2>4, <2>6, <2>7, <3>1, <3>2, <3>3, <3>4, <3>5 DEF Moved
  <2>9. KeptInOrder(h)
    <3>1. \A i \in 1 .. size - 1 : start + i - 1 \in S
      BY <1>3, CellFacts
    <3>. QED  BY <1>3, <2>1, <2>5, <2>6, <3>1, CellFacts DEF KeptInOrder
  <2>10. Ordered'
    BY <2>1, <2>7, <2>9, KeptOrdered
  <2>11. RestEmpty'
    <3>1. SUFFICES ASSUME NEW c \in Cells', c \notin start' .. start' + size' - 1
                   PROVE  data'[c] = NULL
      BY DEF RestEmpty
    <3>2. c \in S => c \notin start .. start + size - 1
      BY <1>3, <2>1, <2>6, <3>1, CellFacts
    <3>. QED  BY <2>6, <3>1, <3>2, CellFacts
  <2>12. size' \in Nat /\ start' \in Nat /\ start' + size' <= alloc
    BY <1>3, <2>1, CellFacts
  <2>13. sorted' \in BOOLEAN
    BY <2>1 DEF IndInv, TypeOK
  <2>. QED  BY <1>1, <2>7, <2>8, <2>10, <2>11, <2>12, <2>13, MovedStep
<1>. QED  BY <1>2, <1>3

LEMMA ShiftStep ==
  ASSUME IndInv, Shift
  PROVE  IndInv'
<1>1. pc = "idle"
  BY DEF Shift, Writes, Reads
<1>2. CASE size = 0
  <2>1. Die
    BY <1>2 DEF Shift
  <2>. QED  BY <2>1, SameStep DEF Die, Return
<1>3. CASE size # 0
  <2>. DEFINE S == Cells \ {start}
              g == [c \in S |-> c]
              h == [i \in 1 .. size - 1 |-> i + 1]
  <2>1. /\ data' = [data EXCEPT ![start] = NULL] /\ start' = start + 1 /\ size' = size - 1
        /\ UNCHANGED <<alloc, sorted>> /\ Gives({data[start]}, "caller") /\ Return(Val(data[start]))
    BY <1>3 DEF Shift
  <2>2. start \in Cells
    BY <1>3, CellFacts
  <2>4. g \in [S -> Cells] /\ (\A c \in S : g[c] = c) /\ S \subseteq Cells
    OBVIOUS
  <2>5. h \in [1 .. size - 1 -> 1 .. size] /\ \A i \in 1 .. size - 1 : h[i] = i + 1
    BY <1>3, CellFacts
  <2>. HIDE DEF g, h
  <2>6. /\ alloc' = alloc /\ Cells' = Cells /\ data' = [c \in Cells |-> data'[c]]
        /\ data'[start] = NULL /\ \A c \in S : data'[c] = data[c]
    <3>1. Cells' = Cells
      BY <2>1 DEF Cells
    <3>. QED  BY <2>1, <2>2, <3>1, CellFacts
  <2>7. owner' = Owners({}, {data[start]}, "caller") /\ UNCHANGED <<flags, cmp, pc>>
    BY <2>1 DEF Gives, Return
  <2>8. Moved(S, g, {data[start]}, "caller")
    <3>1. \A c, e \in S : g[c] = g[e] => c = e
      BY <2>4
    <3>2. \A c \in S : data'[c] = data[g[c]]
      BY <2>4, <2>6
    <3>3. \A c \in S : data[g[c]] # NULL => data[g[c]] \notin {data[start]}
      BY <2>2, <2>4, CellFacts
    <3>4. \A c \in Cells : data[c] # NULL => data[c] \in {data[start]} \/ \E e \in S : g[e] = c
      BY <2>4
    <3>5. \A c \in Cells : c \notin S => data'[c] = NULL
      BY <2>6
    <3>. QED  BY <2>4, <2>6, <2>7, <3>1, <3>2, <3>3, <3>4, <3>5 DEF Moved
  <2>9. KeptInOrder(h)
    <3>1. \A i \in 1 .. size - 1 : start + i \in S /\ (start + 1) + i - 1 = start + i
                                   /\ start + (i + 1) - 1 = start + i
      BY <1>3, CellFacts
    <3>2. \A i \in 1 .. size - 1 : data'[start' + i - 1] = data[start + h[i] - 1]
      BY <2>1, <2>5, <2>6, <3>1
    <3>3. size' \in Nat /\ 1 .. size' = 1 .. size - 1
      BY <1>3, <2>1, CellFacts
    <3>4. \A i, j \in 1 .. size - 1 : i < j => h[i] < h[j]
      BY <2>5, CellFacts
    <3>. QED  BY <2>5, <3>2, <3>3, <3>4 DEF KeptInOrder
  <2>10. Ordered'
    BY <2>1, <2>7, <2>9, KeptOrdered
  <2>11. RestEmpty'
    <3>1. SUFFICES ASSUME NEW c \in Cells', c \notin start' .. start' + size' - 1
                   PROVE  data'[c] = NULL
      BY DEF RestEmpty
    <3>2. c \in S => c \notin start .. start + size - 1
      BY <1>3, <2>1, <2>6, <3>1, CellFacts
    <3>. QED  BY <2>6, <3>1, <3>2, CellFacts
  <2>12. size' \in Nat /\ start' \in Nat /\ start' + size' <= alloc
    BY <1>3, <2>1, CellFacts
  <2>13. sorted' \in BOOLEAN
    BY <2>1 DEF IndInv, TypeOK
  <2>. QED  BY <1>1, <2>7, <2>8, <2>10, <2>11, <2>12, <2>13, MovedStep
<1>. QED  BY <1>2, <1>3

LEMMA RemoveNthStep ==
  ASSUME IndInv, Misuse = {}, NEW i \in Places, RemoveNth(i)
  PROVE  IndInv'
<1>. DEFINE pos == start + i
<1>1. pc = "idle" /\ i \in Nat
  BY ArrayAssumption DEF RemoveNth, Writes, Reads
<1>2. CASE i >= size
  <2>1. Die
    BY <1>2 DEF RemoveNth
  <2>. QED  BY <2>1, SameStep DEF Die, Return
<1>3. CASE ~(i >= size)
  <2>. DEFINE h == [j \in 1 .. size - 1 |-> IF j <= i THEN j ELSE j + 1]
  <2>1. /\ pos # size \/ i = size - 1
        /\ data' = IF pos = size THEN [data EXCEPT ![pos] = NULL, ![alloc - 1] = NULL] ELSE MovedDown(pos)
        /\ size' = size - 1 /\ UNCHANGED <<alloc, start, sorted>>
        /\ Gives({data[pos]}, Freed) /\ Return(Ok)
    BY <1>3 DEF RemoveNth, Avoids
  <2>2. /\ pos \in Cells /\ alloc - 1 \in Cells /\ pos <= alloc - 1 /\ pos \in Nat
        /\ pos = size => \A c \in Cells : c > pos => data[c] = NULL
    <3>1. /\ alloc \in Nat /\ size \in Nat /\ start \in Nat /\ start + size <= alloc
          /\ Cells = 0 .. alloc - 1
          /\ \A c \in Cells : c \notin start .. start + size - 1 => data[c] = NULL
      BY CellFacts
    <3>2. /\ pos \in Nat /\ pos \in 0 .. alloc - 1 /\ alloc - 1 \in 0 .. alloc - 1 /\ pos <= alloc - 1
          /\ pos < start + size
      BY <1>1, <1>3, <3>1
    <3>3. ASSUME pos = size, NEW c \in Cells, c > pos PROVE data[c] = NULL
      <4>1. i = size - 1
        BY <2>1, <3>3
      <4>2. c \notin start .. start + size - 1
        BY <3>1, <3>3, <4>1
      <4>. QED  BY <3>1, <4>2
    <3>. QED  BY <3>1, <3>2, <3>3
  <2>3. h \in [1 .. size - 1 -> 1 .. size] /\ \A j \in 1 .. size - 1 : h[j] = IF j <= i THEN j ELSE j + 1
    BY <1>1, <1>3, CellFacts
  <2>4. owner' = Owners({}, {data[pos]}, Freed) /\ UNCHANGED <<flags, cmp, pc>> /\ Freed \in {"caller", "freed"}
    BY <2>1 DEF Gives, Return, Freed
  <2>5. alloc' = alloc /\ Cells' = Cells
    BY <2>1 DEF Cells
  <2>. HIDE DEF h
  <2>. DEFINE Cut ==
         /\ data' = [c \in Cells |-> data'[c]]
         /\ \A c \in Cells : c < pos => data'[c] = data[c]
         /\ \A c \in Cells : c >= pos /\ c # alloc - 1 => data'[c] = data[c + 1]
         /\ data'[alloc - 1] = NULL
  <2>6. Cut
    <3>1. CASE pos = size
      <4>1. data' = [data EXCEPT ![pos] = NULL, ![alloc - 1] = NULL]
        BY <2>1, <3>1
      <4>2. /\ data' = [c \in Cells |-> data'[c]] /\ data'[pos] = NULL /\ data'[alloc - 1] = NULL
            /\ \A c \in Cells : c # pos /\ c # alloc - 1 => data'[c] = data[c]
        BY <2>2, <4>1, CellFacts
      <4>3. \A c \in Cells : c < pos => c # pos /\ c # alloc - 1
        BY <2>2, CellFacts
      <4>4. \A c \in Cells : c >= pos /\ c # alloc - 1 => c + 1 \in Cells /\ c + 1 > pos
        BY <2>2, CellFacts
      <4>5. \A c \in Cells : c = pos \/ c < pos \/ c > pos
        BY <2>2, CellFacts
      <4>6. \A c \in Cells : c > pos => data[c] = NULL
        BY <2>2, <3>1
      <4>7. \A c \in Cells : c >= pos => data'[c] = NULL
        <5>1. SUFFICES ASSUME NEW c \in Cells, c >= pos PROVE data'[c] = NULL
          OBVIOUS
        <5>2. c = pos \/ c > pos
          BY <2>2, <4>5, <5>1, CellFacts
        <5>. QED  BY <4>2, <4>6, <5>2
      <4>. QED  BY <4>2, <4>3, <4>4, <4>6, <4>7
    <3>2. CASE pos # size
      <4>1. data' = [c \in Cells |-> IF c < pos THEN data[c] ELSE IF c = alloc - 1 THEN NULL ELSE data[c + 1]]
        BY <2>1, <3>2 DEF MovedDown
      <4>2. ~(alloc - 1 < pos) /\ \A c \in Cells : c >= pos => ~(c < pos)
        BY <2>2, CellFacts
      <4>. QED  BY <2>2, <4>1, <4>2
    <3>. QED  BY <3>1, <3>2
  <2>. DEFINE S == Cells \ {alloc - 1}
              g == [c \in S |-> IF c < pos THEN c ELSE c + 1]
  <2>7. /\ g \in [S -> Cells] /\ (\A c \in S : g[c] = IF c < pos THEN c ELSE c + 1)
        /\ S \subseteq Cells
    BY CellFacts
  <2>. HIDE DEF g, pos
  <2>8. Moved(S, g, {data[pos]}, Freed)
    <3>1. \A c, e \in S : g[c] = g[e] => c = e
      BY <2>2, <2>7, CellFacts
    <3>2. \A c \in S : data'[c] = data[g[c]]
      <4>1. \A c \in S : c < pos \/ c >= pos
        BY <2>2, CellFacts
      <4>2. \A c \in S : c >= pos => ~(c < pos)
        BY <2>2, CellFacts
      <4>. QED  BY <2>6, <2>7, <4>1, <4>2
    <3>3. \A c \in S : g[c] # pos
      BY <2>2, <2>7, CellFacts
    <3>4. \A c \in S : data[g[c]] # NULL => data[g[c]] \notin {data[pos]}
      BY <2>2, <2>7, <3>3, CellFacts
    <3>5. \A c \in Cells : data[c] # NULL => data[c] \in {data[pos]} \/ \E e \in S : g[e] = c
      <4>1. SUFFICES ASSUME NEW c \in Cells, c # pos PROVE \E e \in S : g[e] = c
        OBVIOUS
      <4>2. CASE c < pos
        <5>1. c \in S
          BY <2>2, <4>2, CellFacts
        <5>. QED  BY <2>7, <4>2, <5>1
      <4>3. CASE c > pos
        <5>1. c - 1 \in S /\ ~(c - 1 < pos) /\ (c - 1) + 1 = c
          BY <2>2, <4>3, CellFacts
        <5>. QED  BY <2>7, <5>1
      <4>. QED  BY <2>2, <4>1, <4>2, <4>3, CellFacts
    <3>6. \A c \in Cells : c \notin S => data'[c] = NULL
      BY <2>6
    <3>. QED  BY <2>4, <2>5, <2>6, <2>7, <3>1, <3>2, <3>4, <3>5, <3>6 DEF Moved
  <2>9. KeptInOrder(h)
    <3>1. size' \in Nat /\ 1 .. size' = 1 .. size - 1 /\ start' = start
      BY <1>1, <1>3, <2>1, CellFacts
    <3>2. \A k, j \in 1 .. size - 1 : k < j => h[k] < h[j]
      BY <1>1, <2>3, CellFacts
    <3>3. ASSUME NEW j \in 1 .. size - 1
          PROVE  data'[start + j - 1] = data[start + h[j] - 1]
      <4>1. start + j - 1 \in Cells /\ start + j - 1 # alloc - 1
        BY <1>3, CellFacts
      <4>2. CASE j <= i
        <5>1. start + j - 1 < pos /\ h[j] = j
          BY <1>1, <2>3, <4>2, CellFacts DEF pos
        <5>. QED  BY <2>6, <4>1, <5>1
      <4>3. CASE ~(j <= i)
        <5>1. h[j] = j + 1
          BY <2>3, <4>3
        <5>2. start + j - 1 >= pos /\ (start + j - 1) + 1 = start + (j + 1) - 1
          <6>1. j \in Nat /\ j >= i + 1 /\ start \in Nat
            BY <1>1, <4>3, CellFacts
          <6>. QED  BY <1>1, <6>1 DEF pos
        <5>. QED  BY <2>6, <4>1, <5>1, <5>2
      <4>. QED  BY <4>2, <4>3
    <3>. QED  BY <2>3, <3>1, <3>2, <3>3 DEF KeptInOrder
  <2>10. Ordered'
    BY <2>1, <2>4, <2>9, KeptOrdered
  <2>11. RestEmpty'
    <3>1. SUFFICES ASSUME NEW c \in Cells, c \notin start .. start + size - 1 - 1
                   PROVE  data'[c] = NULL
      BY <2>1, <2>5, CellFacts DEF RestEmpty
    <3>2. CASE c = alloc - 1
      BY <2>6, <3>2
    <3>3. CASE c # alloc - 1 /\ c < pos
      <4>1. c \notin start .. start + size - 1
        BY <1>1, <1>3, <3>1, <3>3, CellFacts DEF pos
      <4>. QED  BY <2>6, <3>3, <4>1, CellFacts
    <3>4. CASE c # alloc - 1 /\ c >= pos
      <4>1. c + 1 \in Cells /\ c + 1 \notin start .. start + size - 1
        BY <1>1, <1>3, <3>1, <3>4, CellFacts DEF pos
      <4>. QED  BY <2>6, <3>4, <4>1, CellFacts
    <3>. QED  BY <2>2, <3>2, <3>3, <3>4, CellFacts
  <2>12. size' \in Nat /\ start' \in Nat /\ start' + size' <= alloc
    BY <1>1, <1>3, <2>1, CellFacts
  <2>13. sorted' \in BOOLEAN
    BY <2>1 DEF IndInv, TypeOK
  <2>. QED  BY <1>1, <2>4, <2>8, <2>10, <2>11, <2>12, <2>13, MovedStep
<1>. QED  BY <1>2, <1>3

LEMMA CleanStep ==
  ASSUME IndInv, Clean
  PROVE  IndInv'
<1>. DEFINE g == [c \in {} |-> c]
            h == [i \in {} |-> i]
<1>1. pc = "idle" /\ UNCHANGED <<alloc, sorted>> /\ data' = None(alloc) /\ start' = 0 /\ size' = 0
      /\ owner' = Owners({}, Held, Freed) /\ UNCHANGED <<flags, cmp, pc>>
  BY DEF Clean, Writes, Reads, Gives, Return
<1>2. data' = [c \in Cells |-> NULL] /\ Cells' = Cells
  BY <1>1 DEF None, Cells
<1>3. \A c \in Cells : data[c] # NULL => data[c] \in Held
  BY DEF Held
<1>4. g \in [{} -> Cells] /\ h \in [1 .. 0 -> 1 .. size]
  <2>1. 1 .. 0 = {}
    OBVIOUS
  <2>. QED  BY <2>1
<1>. HIDE DEF g, h
<1>5. Moved({}, g, Held, Freed)
  <2>1. data' = [c \in Cells |-> data'[c]] /\ \A c \in Cells : data'[c] = NULL
    BY <1>2
  <2>. QED  BY <1>1, <1>3, <1>4, <2>1 DEF Moved, Freed
<1>6. KeptInOrder(h)
  BY <1>1, <1>4 DEF KeptInOrder
<1>7. Ordered'
  BY <1>1, <1>6, KeptOrdered
<1>8. RestEmpty'
  BY <1>2 DEF RestEmpty
<1>9. size' \in Nat /\ start' \in Nat /\ start' + size' <= alloc /\ sorted' \in BOOLEAN
  BY <1>1, CellFacts DEF TypeOK
<1>. QED  BY <1>1, <1>5, <1>7, <1>8, <1>9, MovedStep

LEMMA DupStep ==
  ASSUME IndInv, Dup
  PROVE  IndInv'
<1>. DEFINE S == 0 .. size - 1
            g == [c \in S |-> start + c]
            h == [i \in 1 .. size |-> i]
<1>1. /\ pc = "idle" /\ data' = [c \in Cells |-> IF c < size THEN Items[c + 1] ELSE NULL]
      /\ start' = 0 /\ sorted' = (sorted /\ size = 0)
      /\ UNCHANGED <<alloc, size, flags, cmp, owner, pc>>
  BY DEF Dup
<1>2. Cells' = Cells
  BY <1>1 DEF Cells
<1>3. S \subseteq Cells /\ g \in [S -> Cells] /\ (\A c \in S : g[c] = start + c)
  BY CellFacts
<1>4. \A c \in S : data'[c] = data[start + c]
  <2>1. SUFFICES ASSUME NEW c \in S PROVE data'[c] = data[start + c]
    OBVIOUS
  <2>2. c \in Cells /\ c < size /\ c + 1 \in 1 .. size /\ start + (c + 1) - 1 = start + c
    BY <1>3, CellFacts
  <2>. QED  BY <1>1, <2>2 DEF Items
<1>5. h \in [1 .. size -> 1 .. size] /\ \A i \in 1 .. size : h[i] = i
  OBVIOUS
<1>. HIDE DEF g, h
<1>6. Moved(S, g, {}, "caller")
  <2>1. \A c, e \in S : g[c] = g[e] => c = e
    BY <1>3, CellFacts
  <2>2. \A c \in S : data'[c] = data[g[c]]
    BY <1>3, <1>4
  <2>3. \A c \in Cells : c \notin S => data'[c] = NULL
    <3>1. \A c \in Cells : c \notin S => ~(c < size)
      BY CellFacts
    <3>. QED  BY <1>1, <3>1
  <2>4. \A c \in Cells : data[c] # NULL => \E e \in S : g[e] = c
    <3>1. SUFFICES ASSUME NEW c \in Cells, data[c] # NULL PROVE \E e \in S : g[e] = c
      OBVIOUS
    <3>2. c \in start .. start + size - 1
      BY <3>1, CellFacts
    <3>3. c - start \in S /\ start + (c - start) = c
      BY <3>2, CellFacts
    <3>. QED  BY <1>3, <3>3
  <2>5. owner' = Owners({}, {}, "caller")
    BY <1>1 DEF Owners, IndInv, TypeOK
  <2>6. data' = [c \in Cells |-> data'[c]]
    BY <1>1
  <2>. QED  BY <1>1, <1>3, <2>1, <2>2, <2>3, <2>4, <2>5, <2>6 DEF Moved
<1>7. KeptInOrder(h)
  <2>1. \A i \in 1 .. size : i - 1 \in S /\ 0 + i - 1 = i - 1 /\ start + (i - 1) = start + i - 1
    BY CellFacts
  <2>2. \A i \in 1 .. size : data'[start' + i - 1] = data[start + h[i] - 1]
    BY <1>1, <1>4, <1>5, <2>1
  <2>. QED  BY <1>1, <1>5, <2>2, CellFacts DEF KeptInOrder
<1>8. sorted' \in BOOLEAN /\ (sorted' => sorted)
  BY <1>1
<1>9. Ordered'
  BY <1>1, <1>7, <1>8, KeptOrdered
<1>10. RestEmpty'
  <2>1. SUFFICES ASSUME NEW c \in Cells, c \notin 0 .. 0 + size - 1 PROVE data'[c] = NULL
    BY <1>1, <1>2 DEF RestEmpty
  <2>2. ~(c < size)
    BY <2>1, CellFacts
  <2>. QED  BY <1>1, <2>2
<1>11. size' \in Nat /\ start' \in Nat /\ start' + size' <= alloc
  BY <1>1, CellFacts
<1>. QED  BY <1>1, <1>6, <1>8, <1>9, <1>10, <1>11, MovedStep

-----------------------------------------------------------------------------
(***************************************************************************)
(* Calls that leave the cells alone                                        *)
(***************************************************************************)
LEMMA NothingHeld ==
  ASSUME IndInv, size = 0
  PROVE  (\A d \in Data : owner[d] # "array") /\ Held = {}
<1>1. \A c \in Cells : data[c] = NULL
  BY CellFacts
<1>. QED  BY <1>1, CellFacts DEF IndInv, OwnedBy, Held

\* An array with no item.
LEMMA EmptyArray ==
  ASSUME alloc' \in 1 .. MaxAlloc, start' = 0, size' = 0, data' = None(alloc'), sorted' = FALSE,
         pc' \in {"none", "idle"}, owner' \in [Data -> {"caller", "array", "freed"}],
         \A d \in Data : owner'[d] # "array",
         auto' \in BOOLEAN, const' \in BOOLEAN, frozen' \in BOOLEAN, frees' \in BOOLEAN,
         hooked' \in Hooks, cmp' \in {"up", "down"}
  PROVE  IndInv'
<1>1. alloc' \in Nat /\ alloc' >= 1
  BY ArrayAssumption
<1>2. Cells' = 0 .. alloc' - 1 /\ data' = [c \in Cells' |-> NULL]
  BY DEF Cells, None
<1>3. data' \in [Cells' -> Data \cup {NULL}] /\ \A c \in Cells' : data'[c] = NULL
  BY <1>2
<1>4. start' \in 0 .. alloc' /\ size' \in 0 .. alloc' /\ start' + size' <= alloc'
  BY <1>1
<1>5. TypeOK'
  <2>1. sorted' \in BOOLEAN /\ pc' \in {"none", "idle", "dead"}
    OBVIOUS
  <2>. QED  BY <1>3, <1>4, <2>1, Zenon DEF TypeOK
<1>6. RestEmpty' /\ OwnedBy' /\ Once(data)'
  BY <1>2, <1>3, ArrayAssumption DEF RestEmpty, OwnedBy, Once
<1>. QED  BY <1>5, <1>6, NotOrdered DEF IndInv, NotDead

LEMMA NewStep ==
  ASSUME IndInv, NEW n \in InitSizes, New(n)
  PROVE  IndInv'
<1>1. pc = "none" /\ size = 0 /\ TypeOK
  BY DEF New, Made, IndInv
<1>2. \A d \in Data : owner[d] # "array"
  BY <1>1, NothingHeld
<1>3. /\ pc' = "idle" /\ start' = 0 /\ size' = 0 /\ alloc' = n /\ data' = None(n)
      /\ sorted' = FALSE /\ cmp' = "up" /\ UNCHANGED <<owner, hooked>>
  BY DEF New, Made
<1>4. auto' \in BOOLEAN /\ const' \in BOOLEAN /\ frozen' \in BOOLEAN /\ frees' \in BOOLEAN
  BY DEF New, Made
<1>5. n \in 1 .. MaxAlloc
  BY ArrayAssumption
<1>6. hooked' \in Hooks /\ cmp' \in {"up", "down"} /\ owner' \in [Data -> {"caller", "array", "freed"}]
  BY <1>1, <1>3 DEF TypeOK
<1>. QED  BY <1>2, <1>3, <1>4, <1>5, <1>6, EmptyArray

LEMMA FreeStep ==
  ASSUME IndInv, Free
  PROVE  IndInv'
<1>1. /\ pc' = "none" /\ start' = 0 /\ size' = 0 /\ alloc' = 1 /\ data' = None(1)
      /\ sorted' = FALSE /\ owner' = Owners({}, Held, Freed)
      /\ frees' = frees /\ hooked' = hooked /\ cmp' = cmp
  BY DEF Free
<1>2. auto' \in BOOLEAN /\ const' \in BOOLEAN /\ frozen' \in BOOLEAN
  BY DEF Free
<1>3. frees' \in BOOLEAN
  BY <1>1 DEF IndInv, TypeOK
<1>4. hooked' \in Hooks /\ cmp' \in {"up", "down"} /\ 1 \in 1 .. MaxAlloc
  BY <1>1, CellFacts DEF IndInv, TypeOK
<1>5. \A d \in Data : owner[d] = "array" => d \in Held
  BY ArrayAssumption DEF IndInv, OwnedBy, Held
<1>6. owner' \in [Data -> {"caller", "array", "freed"}] /\ \A d \in Data : owner'[d] # "array"
  BY <1>1, <1>5 DEF Owners, Freed, IndInv, TypeOK
<1>. QED  BY <1>1, <1>2, <1>3, <1>4, <1>6, EmptyArray

\* Only flags, or who owns what is not in the array, change.
LEMMA CellsStay ==
  ASSUME IndInv, UNCHANGED <<cells, sorted, pc>>,
         cmp' \in {"up", "down"}, cmp' = cmp \/ ~sorted,
         auto' \in BOOLEAN, const' \in BOOLEAN, frozen' \in BOOLEAN, frees' \in BOOLEAN,
         hooked' \in Hooks, owner' \in [Data -> {"caller", "array", "freed"}],
         \A d \in Data : owner'[d] = "array" <=> owner[d] = "array"
  PROVE  IndInv'
<1>1. UNCHANGED <<alloc, start, size, data>>
  BY DEF cells
<1>2. Cells' = Cells /\ Items' = Items
  BY <1>1 DEF Cells, Items
<1>3. RestEmpty' /\ OwnedBy' /\ Once(data)'
  BY <1>1, <1>2 DEF IndInv, RestEmpty, OwnedBy, Once
<1>4. Ordered'
  BY <1>1, <1>2 DEF IndInv, Ordered, SortedInOrder, NoNulls, InOrder, Comes
<1>5. /\ alloc \in 1 .. MaxAlloc /\ start \in 0 .. alloc /\ size \in 0 .. alloc /\ start + size <= alloc
      /\ data \in [Cells -> Data \cup {NULL}] /\ sorted \in BOOLEAN /\ pc \in {"none", "idle", "dead"}
  BY DEF IndInv, TypeOK
<1>6. TypeOK'
  <2>1. /\ alloc' \in 1 .. MaxAlloc /\ start' \in 0 .. alloc' /\ size' \in 0 .. alloc'
        /\ start' + size' <= alloc' /\ data' \in [Cells' -> Data \cup {NULL}]
        /\ pc' \in {"none", "idle", "dead"}
    BY <1>1, <1>2, <1>5
  <2>2. sorted' \in BOOLEAN
    BY <1>5
  <2>. QED  BY <2>1, <2>2, Zenon DEF TypeOK
<1>. QED  BY <1>1, <1>3, <1>4, <1>6 DEF IndInv, NotDead

LEMMA FlagSteps ==
  ASSUME IndInv, Ctl \/ (\E b \in Hooks : SetHook(b)) \/ (\E b \in BOOLEAN : SetFreefn(b))
                     \/ (\E d \in Data : Renew(d)) \/ (\E dir \in {"up", "down"} : SetCmp(dir))
  PROVE  IndInv'
<1>1. /\ auto \in BOOLEAN /\ const \in BOOLEAN /\ frozen \in BOOLEAN /\ frees \in BOOLEAN
      /\ hooked \in Hooks /\ cmp \in {"up", "down"} /\ owner \in [Data -> {"caller", "array", "freed"}]
  BY DEF IndInv, TypeOK
<1>2. CASE Ctl
  <2>1. /\ UNCHANGED <<cells, sorted, pc>> /\ UNCHANGED <<frees, hooked, cmp, owner>>
    BY <1>2 DEF Ctl
  <2>2. auto' \in BOOLEAN /\ const' \in BOOLEAN /\ frozen' \in BOOLEAN
    BY <1>1, <1>2 DEF Ctl
  <2>3. frees' \in BOOLEAN
    BY <1>1, <2>1
  <2>. QED  BY <1>1, <2>1, <2>2, <2>3, CellsStay
<1>3. ASSUME NEW b \in Hooks, SetHook(b) PROVE IndInv'
  <2>1. UNCHANGED <<cells, sorted, pc>> /\ UNCHANGED <<auto, const, frozen, frees, cmp, owner>> /\ hooked' = b
    BY <1>3 DEF SetHook
  <2>2. auto' \in BOOLEAN /\ const' \in BOOLEAN /\ frozen' \in BOOLEAN /\ frees' \in BOOLEAN
    BY <1>1, <2>1
  <2>. QED  BY <1>1, <2>1, <2>2, CellsStay
<1>4. ASSUME NEW b \in BOOLEAN, SetFreefn(b) PROVE IndInv'
  <2>1. UNCHANGED <<cells, sorted, pc>> /\ UNCHANGED <<auto, const, frozen, hooked, cmp, owner>> /\ frees' = b
    BY <1>4 DEF SetFreefn
  <2>2. auto' \in BOOLEAN /\ const' \in BOOLEAN /\ frozen' \in BOOLEAN /\ frees' \in BOOLEAN
    BY <1>1, <2>1
  <2>. QED  BY <1>1, <2>1, <2>2, CellsStay
<1>5. ASSUME NEW d \in Data, Renew(d) PROVE IndInv'
  <2>1. UNCHANGED <<cells, sorted, pc>> /\ UNCHANGED <<auto, const, frozen, frees, hooked, cmp>>
        /\ owner[d] = "freed" /\ owner' = [owner EXCEPT ![d] = "caller"]
    BY <1>5 DEF Renew, flags
  <2>2. auto' \in BOOLEAN /\ const' \in BOOLEAN /\ frozen' \in BOOLEAN /\ frees' \in BOOLEAN
    BY <1>1, <2>1
  <2>3. owner' \in [Data -> {"caller", "array", "freed"}]
        /\ \A e \in Data : owner'[e] = "array" <=> owner[e] = "array"
    BY <1>1, <2>1
  <2>. QED  BY <1>1, <2>1, <2>2, <2>3, CellsStay
<1>6. ASSUME NEW dir \in {"up", "down"}, SetCmp(dir) PROVE IndInv'
  <2>1. UNCHANGED <<alloc, start, size, data, auto, const, frozen, frees, hooked, owner, pc>>
        /\ sorted' = FALSE /\ cmp' = dir
    BY <1>6 DEF SetCmp, cells, flags
  <2>2. Cells' = Cells
    BY <2>1 DEF Cells
  <2>3. RestEmpty' /\ OwnedBy' /\ Once(data)'
    BY <2>1, <2>2 DEF IndInv, RestEmpty, OwnedBy, Once
  <2>4. TypeOK'
    <3>1. /\ alloc' \in 1 .. MaxAlloc /\ start' \in 0 .. alloc' /\ size' \in 0 .. alloc'
          /\ start' + size' <= alloc' /\ data' \in [Cells' -> Data \cup {NULL}]
          /\ pc' \in {"none", "idle", "dead"} /\ cmp' \in {"up", "down"} /\ hooked' \in Hooks
          /\ owner' \in [Data -> {"caller", "array", "freed"}]
      BY <2>1, <2>2 DEF IndInv, TypeOK
    <3>2. auto' \in BOOLEAN /\ const' \in BOOLEAN /\ frozen' \in BOOLEAN /\ frees' \in BOOLEAN
          /\ sorted' \in BOOLEAN
      BY <1>1, <2>1
    <3>. QED  BY <3>1, <3>2, Zenon DEF TypeOK
  <2>. QED  BY <2>1, <2>3, <2>4, NotOrdered DEF IndInv, NotDead
<1>. QED  BY <1>2, <1>3, <1>4, <1>5, <1>6

-----------------------------------------------------------------------------
(***************************************************************************)
(* Places in an order                                                      *)
(***************************************************************************)
TotalOrder(I, R) ==
  /\ \A i, j, k \in I : <<i, j>> \in R /\ <<j, k>> \in R => <<i, k>> \in R
  /\ \A i \in I : <<i, i>> \notin R
  /\ \A i, j \in I : i = j \/ <<i, j>> \in R \/ <<j, i>> \in R

UpTo(I, R, i) == {j \in I : j = i \/ <<j, i>> \in R}
Place(I, R, i) == Cardinality(UpTo(I, R, i))

LEMMA Placed ==
  ASSUME NEW I, IsFiniteSet(I), NEW R, TotalOrder(I, R)
  PROVE  /\ Cardinality(I) \in Nat
         /\ \A i \in I : Place(I, R, i) \in 1 .. Cardinality(I)
         /\ \A i, j \in I : <<i, j>> \in R => Place(I, R, i) < Place(I, R, j)
         /\ \A i, j \in I : Place(I, R, i) = Place(I, R, j) => i = j
         /\ \A r \in 1 .. Cardinality(I) : \E i \in I : Place(I, R, i) = r
<1>. DEFINE n == Cardinality(I)
<1>1. n \in Nat
  BY FS_CardinalityType
<1>2. ASSUME NEW i \in I PROVE IsFiniteSet(UpTo(I, R, i)) /\ Place(I, R, i) \in 1 .. n
  <2>1. UpTo(I, R, i) \in SUBSET I /\ i \in UpTo(I, R, i)
    BY DEF UpTo
  <2>2. IsFiniteSet(UpTo(I, R, i)) /\ Cardinality(UpTo(I, R, i)) <= n
    BY <2>1, FS_Subset
  <2>3. Cardinality(UpTo(I, R, i)) \in Nat /\ Cardinality(UpTo(I, R, i)) # 0
    BY <2>1, <2>2, FS_EmptySet, FS_CardinalityType
  <2>. QED  BY <1>1, <2>2, <2>3 DEF Place
<1>3. ASSUME NEW i \in I, NEW j \in I, <<i, j>> \in R PROVE Place(I, R, i) < Place(I, R, j)
  <2>1. UpTo(I, R, i) \in SUBSET UpTo(I, R, j)
    BY <1>3 DEF UpTo, TotalOrder
  <2>2. j \in UpTo(I, R, j) /\ j \notin UpTo(I, R, i)
    BY <1>3 DEF UpTo, TotalOrder
  <2>3. /\ Cardinality(UpTo(I, R, i)) <= Cardinality(UpTo(I, R, j))
        /\ Cardinality(UpTo(I, R, j)) = Cardinality(UpTo(I, R, i)) => UpTo(I, R, j) = UpTo(I, R, i)
    BY <1>2, <2>1, FS_Subset
  <2>4. Cardinality(UpTo(I, R, i)) \in Nat /\ Cardinality(UpTo(I, R, j)) \in Nat
    BY <1>2, FS_CardinalityType
  <2>. QED  BY <2>2, <2>3, <2>4 DEF Place
<1>4. \A i, j \in I : Place(I, R, i) = Place(I, R, j) => i = j
  <2>1. SUFFICES ASSUME NEW i \in I, NEW j \in I, Place(I, R, i) = Place(I, R, j), i # j PROVE FALSE
    OBVIOUS
  <2>2. <<i, j>> \in R \/ <<j, i>> \in R
    BY <2>1 DEF TotalOrder
  <2>3. Place(I, R, i) < Place(I, R, j) \/ Place(I, R, j) < Place(I, R, i)
    BY <1>3, <2>2
  <2>4. Place(I, R, i) \in Nat /\ Place(I, R, j) \in Nat
    BY <1>1, <1>2
  <2>. QED  BY <2>1, <2>3, <2>4
<1>. DEFINE f == [i \in I |-> Place(I, R, i)]
<1>5. f \in Injection(I, 1 .. n)
  BY <1>2, <1>4 DEF Injection, IsInjective
<1>6. IsFiniteSet(1 .. n) /\ Cardinality(1 .. n) = n
  BY <1>1, FS_Interval
<1>7. f \in Surjection(I, 1 .. n)
  <2>. HIDE DEF f
  <2>. QED  BY <1>5, <1>6, FS_Injection
<1>8. ASSUME NEW r \in 1 .. n PROVE \E i \in I : Place(I, R, i) = r
  BY <1>7 DEF Surjection
<1>. QED  BY <1>1, <1>2, <1>3, <1>4, <1>8

\* p lists I in the order R.
Lists(p, I, R) ==
  /\ p \in [1 .. Cardinality(I) -> I]
  /\ \A r \in 1 .. Cardinality(I) : Place(I, R, p[r]) = r
  /\ \A r, q \in 1 .. Cardinality(I) : p[r] = p[q] => r = q
  /\ \A r, q \in 1 .. Cardinality(I) : r < q => <<p[r], p[q]>> \in R
  /\ \A i \in I : \E r \in 1 .. Cardinality(I) : p[r] = i

Listed(I, R) == [r \in 1 .. Cardinality(I) |-> CHOOSE i \in I : Place(I, R, i) = r]

LEMMA IsListed ==
  ASSUME NEW I, IsFiniteSet(I), NEW R, TotalOrder(I, R)
  PROVE  Cardinality(I) \in Nat /\ Lists(Listed(I, R), I, R)
<1>. DEFINE n == Cardinality(I)
            p == Listed(I, R)
<1>1. n \in Nat /\ \A i \in I : Place(I, R, i) \in 1 .. n
  BY Placed
<1>2. \A r \in 1 .. n : \E i \in I : Place(I, R, i) = r
  BY Placed
<1>3. \A r \in 1 .. n : p[r] = CHOOSE i \in I : Place(I, R, i) = r
  BY DEF Listed
<1>4. \A r \in 1 .. n : p[r] \in I /\ Place(I, R, p[r]) = r
  BY <1>2, <1>3
<1>5. p \in [1 .. n -> I]
  BY <1>4 DEF Listed
<1>. HIDE DEF p
<1>6. \A r, q \in 1 .. n : p[r] = p[q] => r = q
  BY <1>4
<1>7. ASSUME NEW r \in 1 .. n, NEW q \in 1 .. n, r < q PROVE <<p[r], p[q]>> \in R
  <2>1. p[r] \in I /\ p[q] \in I /\ Place(I, R, p[r]) = r /\ Place(I, R, p[q]) = q
    BY <1>4
  <2>2. p[r] # p[q]
    BY <1>7, <2>1
  <2>3. ~(<<p[q], p[r]>> \in R)
    <3>1. <<p[q], p[r]>> \in R => Place(I, R, p[q]) < Place(I, R, p[r])
      BY <2>1, Placed
    <3>. QED  BY <1>1, <1>7, <2>1, <3>1
  <2>. QED  BY <2>1, <2>2, <2>3 DEF TotalOrder
<1>8. ASSUME NEW i \in I PROVE \E r \in 1 .. n : p[r] = i
  <2>. DEFINE r == Place(I, R, i)
  <2>1. r \in 1 .. n
    BY <1>1
  <2>2. p[r] \in I /\ Place(I, R, p[r]) = Place(I, R, i)
    BY <1>4, <2>1
  <2>3. \A j \in I : Place(I, R, j) = Place(I, R, i) => j = i
    BY Placed
  <2>. QED  BY <2>1, <2>2, <2>3
<1>. QED  BY <1>1, <1>4, <1>5, <1>6, <1>7, <1>8 DEF Lists, p

Less == {ij \in Nat \X Nat : ij[1] < ij[2]}

LEMMA LessIsTotal ==
  ASSUME NEW I \in SUBSET Nat
  PROVE  TotalOrder(I, Less) /\ \A i, j \in I : <<i, j>> \in Less <=> i < j
<1>1. \A i, j \in I : <<i, j>> \in Less <=> i < j
  BY DEF Less
<1>2. \A i, j, k \in I : i < j /\ j < k => i < k
  OBVIOUS
<1>3. \A i, j \in I : i = j \/ i < j \/ j < i
  OBVIOUS
<1>4. \A i \in I : ~(i < i)
  OBVIOUS
<1>. QED  BY <1>1, <1>2, <1>3, <1>4 DEF TotalOrder

\* Only lists the positions of I in their order.
LEMMA OnlyIs ==
  ASSUME NEW I \in SUBSET Nat, IsFiniteSet(I), NEW s
  PROVE  Only(s, I) = [r \in 1 .. Cardinality(I) |-> s[Listed(I, Less)[r]]]
<1>1. ASSUME NEW i \in I PROVE RankIn(I, i) = Place(I, Less, i)
  <2>1. \A j \in I : j <= i <=> (j = i \/ <<j, i>> \in Less)
    BY LessIsTotal
  <2>. QED  BY <2>1 DEF RankIn, Place, UpTo
<1>2. \A r \in 1 .. Cardinality(I) :
        (CHOOSE i \in I : RankIn(I, i) = r) = (CHOOSE i \in I : Place(I, Less, i) = r)
  BY <1>1
<1>3. ASSUME NEW r \in 1 .. Cardinality(I)
      PROVE  s[CHOOSE i \in I : RankIn(I, i) = r] = s[Listed(I, Less)[r]]
  <2>1. Listed(I, Less)[r] = CHOOSE i \in I : Place(I, Less, i) = r
    BY DEF Listed
  <2>. QED  BY <1>2, <2>1
<1>. QED  BY <1>3, Zenon DEF Only

-----------------------------------------------------------------------------
(***************************************************************************)
(* Sorting                                                                 *)
(***************************************************************************)
\* Item i comes before item j in a stable sort.
Stably(dir) ==
  {ij \in Nat \X Nat :
     \/ Comes(dir, KeyOf[Items[ij[1]]], KeyOf[Items[ij[2]]])
     \/ ij[1] < ij[2] /\ KeyOf[Items[ij[1]]] = KeyOf[Items[ij[2]]]}

LEMMA ItemFacts ==
  ASSUME IndInv
  PROVE  /\ DOMAIN Items = 1 .. size
         /\ \A i \in 1 .. size : /\ start + i - 1 \in Cells /\ Items[i] = data[start + i - 1]
                                 /\ Items[i] # NULL => KeyOf[Items[i]] \in Nat
<1>1. \A i \in 1 .. size : start + i - 1 \in Cells
  BY CellFacts
<1>2. \A c \in Cells : data[c] # NULL => data[c] \in Data /\ KeyOf[data[c]] \in Nat
  BY CellFacts, ArrayAssumption
<1>. QED  BY <1>1, <1>2 DEF Items

LEMMA StablyTotal ==
  ASSUME IndInv, NoNulls, NEW dir \in {"up", "down"}
  PROVE  /\ TotalOrder(1 .. size, Stably(dir))
         /\ \A i, j \in 1 .. size :
              <<i, j>> \in Stably(dir) <=>
                \/ Comes(dir, KeyOf[Items[i]], KeyOf[Items[j]])
                \/ i < j /\ KeyOf[Items[i]] = KeyOf[Items[j]]
<1>. DEFINE K == [i \in 1 .. size |-> KeyOf[Items[i]]]
<1>1. \A i \in 1 .. size : i \in Nat /\ K[i] \in Nat /\ K[i] = KeyOf[Items[i]]
  BY ItemFacts, CellFacts DEF NoNulls
<1>2. ASSUME NEW i \in 1 .. size, NEW j \in 1 .. size
      PROVE  <<i, j>> \in Stably(dir) <=> Comes(dir, K[i], K[j]) \/ (i < j /\ K[i] = K[j])
  <2>1. i \in Nat /\ j \in Nat
    BY <1>1
  <2>2. <<i, j>> \in Nat \X Nat /\ <<i, j>>[1] = i /\ <<i, j>>[2] = j
    BY <2>1
  <2>. QED  BY <1>1, <2>2 DEF Stably
<1>. HIDE DEF K
<1>3. \A a, b \in Nat : Comes(dir, a, b) <=> IF dir = "up" THEN a < b ELSE b < a
  BY DEF Comes
<1>. DEFINE Bef(i, j) == Comes(dir, K[i], K[j]) \/ (i < j /\ K[i] = K[j])
<1>4. ASSUME NEW i \in 1 .. size, NEW j \in 1 .. size, NEW k \in 1 .. size, Bef(i, j), Bef(j, k)
      PROVE  Bef(i, k)
  <2>1. K[i] \in Nat /\ K[j] \in Nat /\ K[k] \in Nat /\ i \in Nat /\ j \in Nat /\ k \in Nat
    BY <1>1
  <2>2. CASE dir = "up"
    BY <1>4, <2>1, <2>2 DEF Comes
  <2>3. CASE dir # "up"
    BY <1>4, <2>1, <2>3 DEF Comes
  <2>. QED  BY <2>2, <2>3
<1>5. ASSUME NEW i \in 1 .. size PROVE ~Bef(i, i)
  BY <1>1 DEF Comes
<1>6. ASSUME NEW i \in 1 .. size, NEW j \in 1 .. size PROVE i = j \/ Bef(i, j) \/ Bef(j, i)
  <2>1. K[i] \in Nat /\ K[j] \in Nat /\ i \in Nat /\ j \in Nat
    BY <1>1
  <2>2. K[i] < K[j] \/ K[j] < K[i] \/ (K[i] = K[j] /\ (i < j \/ j < i \/ i = j))
    BY <2>1
  <2>. QED  BY <2>2 DEF Comes
<1>7. TotalOrder(1 .. size, Stably(dir))
  BY <1>2, <1>4, <1>5, <1>6 DEF TotalOrder
<1>. QED  BY <1>1, <1>2, <1>7

LEMMA SameDistance ==
  ASSUME NEW s \in Nat, NEW x \in Nat, NEW y \in Nat, s + x - 1 = s + y - 1
  PROVE  x = y
OBVIOUS

LEMMA ArrangedIs ==
  ASSUME IndInv, NoNulls, NEW dir \in {"up", "down"}
  PROVE  LET p == Listed(1 .. size, Stably(dir)) IN
         /\ Lists(p, 1 .. size, Stably(dir)) /\ Cardinality(1 .. size) = size
         /\ Arranged(dir) = [r \in 1 .. size |-> Items[p[r]]]
<1>. DEFINE R == Stably(dir)
            p == Listed(1 .. size, R)
<1>1. size \in Nat
  BY CellFacts
<1>2. IsFiniteSet(1 .. size) /\ Cardinality(1 .. size) = size
  BY <1>1, FS_Interval
<1>3. TotalOrder(1 .. size, R)
  BY StablyTotal
<1>4. Lists(p, 1 .. size, R)
  BY <1>2, <1>3, IsListed
<1>5. ASSUME NEW i \in 1 .. size PROVE Rank(dir, i) = Place(1 .. size, R, i)
  <2>. DEFINE B == {j \in 1 .. size : \/ Comes(dir, KeyOf[Items[j]], KeyOf[Items[i]])
                                      \/ j < i /\ KeyOf[Items[j]] = KeyOf[Items[i]]}
  <2>1. Rank(dir, i) = 1 + Cardinality(B)
    BY DEF Rank
  <2>2. \A j \in 1 .. size : j \in B <=> <<j, i>> \in R
    BY StablyTotal
  <2>3. <<i, i>> \notin R
    BY <1>3 DEF TotalOrder
  <2>. HIDE DEF B
  <2>4. B \subseteq 1 .. size
    BY DEF B
  <2>5. IsFiniteSet(B) /\ i \notin B
    BY <1>2, <2>2, <2>3, <2>4, FS_Subset
  <2>6. UpTo(1 .. size, R, i) = B \cup {i}
    BY <2>2, <2>4 DEF UpTo
  <2>7. Cardinality(B \cup {i}) = Cardinality(B) + 1 /\ Cardinality(B) \in Nat
    BY <2>5, FS_AddElement, FS_CardinalityType
  <2>8. Place(1 .. size, R, i) = Cardinality(B \cup {i})
    BY <2>6 DEF Place
  <2>. HIDE DEF R
  <2>. QED  BY <2>1, <2>7, <2>8
<1>6. ASSUME NEW r \in 1 .. size
      PROVE  Items[CHOOSE i \in 1 .. size : Rank(dir, i) = r] = Items[p[r]]
  <2>1. p[r] = CHOOSE i \in 1 .. size : Place(1 .. size, R, i) = r
    BY <1>2 DEF Listed
  <2>2. (CHOOSE i \in 1 .. size : Rank(dir, i) = r) = (CHOOSE i \in 1 .. size : Place(1 .. size, R, i) = r)
    BY <1>5
  <2>. QED  BY <2>1, <2>2
<1>7. Arranged(dir) = [r \in 1 .. size |-> Items[p[r]]]
  <2>. HIDE DEF p
  <2>. QED  BY <1>6, Zenon DEF Arranged
<1>. QED  BY <1>2, <1>4, <1>7

\* The items of an array are put in order where they are.
LEMMA ArrangeStep ==
  ASSUME IndInv, NoNulls, NEW dir \in {"up", "down"}, data' = WithItems(Arranged(dir)),
         sorted' = FALSE \/ (sorted' = TRUE /\ dir = cmp),
         UNCHANGED <<alloc, start, size, flags, cmp, owner, pc>>, pc = "idle"
  PROVE  IndInv'
<1>. DEFINE I == 1 .. size
            p == Listed(I, Stably(dir))
            g == [c \in Cells |-> IF c \in start .. start + size - 1
                                  THEN start + p[c - start + 1] - 1 ELSE c]
<1>1. Lists(p, I, Stably(dir)) /\ Cardinality(I) = size /\ Arranged(dir) = [r \in I |-> Items[p[r]]]
  BY ArrangedIs
<1>. HIDE DEF p
<1>2. /\ p \in [I -> I] /\ (\A r, q \in I : p[r] = p[q] => r = q)
      /\ (\A r, q \in I : r < q => <<p[r], p[q]>> \in Stably(dir))
      /\ (\A i \in I : \E r \in I : p[r] = i)
  BY <1>1 DEF Lists
<1>3. Cells' = Cells
  BY DEF Cells
<1>4. \A c \in Cells : c \in start .. start + size - 1 =>
        /\ c - start + 1 \in I /\ p[c - start + 1] \in I
        /\ g[c] = start + p[c - start + 1] - 1 /\ g[c] \in start .. start + size - 1 /\ g[c] \in Cells
        /\ data'[c] = data[g[c]]
  <2>1. SUFFICES ASSUME NEW c \in Cells, c \in start .. start + size - 1
                 PROVE /\ c - start + 1 \in I /\ p[c - start + 1] \in I
                       /\ g[c] = start + p[c - start + 1] - 1 /\ g[c] \in start .. start + size - 1
                       /\ g[c] \in Cells /\ data'[c] = data[g[c]]
    OBVIOUS
  <2>2. c - start + 1 \in I
    BY <2>1, CellFacts
  <2>3. p[c - start + 1] \in I
    BY <1>2, <2>2
  <2>4. g[c] = start + p[c - start + 1] - 1
    BY <2>1
  <2>5. g[c] \in start .. start + size - 1 /\ g[c] \in Cells
    <3>1. /\ size \in Nat /\ start \in Nat /\ alloc \in Nat /\ start + size <= alloc
          /\ Cells = 0 .. alloc - 1
      BY CellFacts
    <3>2. PICK x \in 1 .. size : x = p[c - start + 1]
      BY <2>3
    <3>3. start + x - 1 \in start .. start + size - 1 /\ start + x - 1 \in 0 .. alloc - 1
      BY <3>1
    <3>. QED  BY <2>4, <3>1, <3>2, <3>3
  <2>6. data'[c] = Arranged(dir)[c - start + 1]
    BY <2>1 DEF WithItems
  <2>7. data'[c] = Items[p[c - start + 1]]
    BY <1>1, <2>2, <2>6
  <2>. QED  BY <2>2, <2>3, <2>4, <2>5, <2>7, ItemFacts
<1>5. \A c \in Cells : c \notin start .. start + size - 1 => g[c] = c /\ data'[c] = data[c]
  BY DEF WithItems
<1>6. data' = [c \in Cells |-> data'[c]]
  BY DEF WithItems
<1>7. g \in [Cells -> Cells]
  <2>1. \A c \in Cells : g[c] \in Cells
    BY <1>4, <1>5
  <2>. QED  BY <2>1
<1>. HIDE DEF g
<1>8. \A c, e \in Cells : g[c] = g[e] => c = e
  <2>1. SUFFICES ASSUME NEW c \in Cells, NEW e \in Cells, g[c] = g[e] PROVE c = e
    OBVIOUS
  <2>2. CASE c \in start .. start + size - 1 /\ e \in start .. start + size - 1
    <3>1. p[c - start + 1] = p[e - start + 1]
      <4>1. start \in Nat /\ I \in SUBSET Nat
        BY CellFacts
      <4>2. PICK x \in I : x = p[c - start + 1]
        BY <1>4, <2>2
      <4>3. PICK y \in I : y = p[e - start + 1]
        BY <1>4, <2>2
      <4>4. g[c] = start + x - 1
        BY <1>4, <2>2, <4>2
      <4>5. g[e] = start + y - 1
        BY <1>4, <2>2, <4>3
      <4>6. x = y
        BY <2>1, <4>1, <4>4, <4>5, SameDistance
      <4>. QED  BY <4>2, <4>3, <4>6
    <3>2. c - start + 1 = e - start + 1
      BY <1>2, <1>4, <2>2, <3>1
    <3>. QED  BY <3>2, CellFacts
  <2>3. CASE ~(c \in start .. start + size - 1) \/ ~(e \in start .. start + size - 1)
    BY <1>4, <1>5, <2>1, <2>3
  <2>. QED  BY <2>2, <2>3
<1>9. \A c \in Cells : \E e \in Cells : g[e] = c
  <2>1. SUFFICES ASSUME NEW c \in Cells, c \in start .. start + size - 1 PROVE \E e \in Cells : g[e] = c
    BY <1>5
  <2>2. c - start + 1 \in I
    BY <2>1, CellFacts
  <2>3. PICK r \in I : p[r] = c - start + 1
    BY <1>2, <2>2
  <2>4. start + r - 1 \in Cells /\ start + r - 1 \in start .. start + size - 1
        /\ (start + r - 1) - start + 1 = r
    BY CellFacts
  <2>5. g[start + r - 1] = start + p[r] - 1
    BY <1>4, <2>4
  <2>6. start + p[r] - 1 = c
    BY <2>3, CellFacts
  <2>. QED  BY <2>4, <2>5, <2>6
<1>10. Moved(Cells, g, {}, "caller")
  <2>1. \A c \in Cells : data'[c] = data[g[c]]
    BY <1>4, <1>5
  <2>2. owner' = Owners({}, {}, "caller")
    BY DEF Owners, IndInv, TypeOK
  <2>. QED  BY <1>6, <1>7, <1>8, <1>9, <2>1, <2>2 DEF Moved
<1>11. RestEmpty'
  <2>1. SUFFICES ASSUME NEW c \in Cells, c \notin start .. start + size - 1 PROVE data'[c] = NULL
    BY <1>3 DEF RestEmpty
  <2>. QED  BY <1>5, <2>1, CellFacts
<1>12. Ordered'
  <2>1. CASE sorted' = FALSE
    BY <2>1, NotOrdered
  <2>2. CASE sorted' = TRUE /\ dir = cmp
    <3>1. DOMAIN Items' = I /\ \A r \in I : Items'[r] = Items[p[r]] /\ p[r] \in I
      <4>1. ASSUME NEW r \in I PROVE Items'[r] = Items[p[r]] /\ p[r] \in I
        <5>1. start + r - 1 \in Cells /\ start + r - 1 \in start .. start + size - 1
              /\ (start + r - 1) - start + 1 = r
          BY CellFacts
        <5>2. data'[start + r - 1] = data[start + p[r] - 1] /\ p[r] \in I
          BY <1>4, <5>1
        <5>3. Items'[r] = data'[start + r - 1]
          BY DEF Items
        <5>. QED  BY <5>2, <5>3, ItemFacts
      <4>. QED  BY <4>1 DEF Items
    <3>2. NoNulls'
      BY <3>1 DEF NoNulls
    <3>3. ASSUME NEW r \in I, NEW q \in I, r < q
          PROVE  ~Comes(cmp, KeyOf[Items'[q]], KeyOf[Items'[r]])
      <4>1. <<p[r], p[q]>> \in Stably(dir) /\ p[r] \in I /\ p[q] \in I
        BY <1>2, <3>1, <3>3
      <4>2. \/ Comes(dir, KeyOf[Items[p[r]]], KeyOf[Items[p[q]]])
            \/ KeyOf[Items[p[r]]] = KeyOf[Items[p[q]]]
        BY <4>1, StablyTotal
      <4>3. KeyOf[Items[p[r]]] \in Nat /\ KeyOf[Items[p[q]]] \in Nat
        BY <4>1, ItemFacts DEF NoNulls
      <4>4. ~Comes(dir, KeyOf[Items[p[q]]], KeyOf[Items[p[r]]])
        BY <4>2, <4>3 DEF Comes
      <4>. QED  BY <2>2, <3>1, <4>4
    <3>4. InOrder(cmp', Items')
      BY <3>1, <3>3 DEF InOrder, Comes
    <3>. QED  BY <3>2, <3>4 DEF Ordered, SortedInOrder
  <2>. QED  BY <2>1, <2>2
<1>13. size' \in Nat /\ start' \in Nat /\ start' + size' <= alloc /\ sorted' \in BOOLEAN
  BY CellFacts
<1>. QED  BY <1>10, <1>11, <1>12, <1>13, MovedStep

LEMMA SortStep ==
  ASSUME IndInv, NEW dir \in {"up", "down"}, Sort(dir)
  PROVE  IndInv'
<1>1. /\ pc = "idle" /\ NoNulls /\ pc' = pc
      /\ UNCHANGED <<alloc, start, size, flags, cmp, owner>>
  BY DEF Sort, Reads, Return
<1>2. CASE auto /\ KnownSorted(dir)
  <2>1. UNCHANGED <<cells, flags, sorted, cmp, owner>>
    BY <1>1, <1>2 DEF Sort, cells
  <2>. QED  BY <1>1, <2>1, SameStep
<1>3. CASE ~(auto /\ KnownSorted(dir))
  <2>1. data' = WithItems(Arranged(dir)) /\ sorted' = (dir = cmp)
    BY <1>3 DEF Sort, SetsSorted
  <2>2. sorted' = FALSE \/ (sorted' = TRUE /\ dir = cmp)
    BY <2>1, Zenon
  <2>. QED  BY <1>1, <2>1, <2>2, ArrangeStep
<1>. QED  BY <1>2, <1>3

LEMMA SearchStep ==
  ASSUME IndInv, NEW name, NEW k, Search(name, k)
  PROVE  IndInv'
<1>1. /\ pc = "idle" /\ NoNulls /\ pc' = pc /\ sorted' = (sorted \/ auto)
      /\ data' = WithItems(IF auto /\ ~sorted THEN Arranged(cmp) ELSE Items)
      /\ UNCHANGED <<alloc, start, size, flags, cmp, owner>>
  BY DEF Search, Reads, Return
<1>2. sorted \in BOOLEAN /\ auto \in BOOLEAN /\ cmp \in {"up", "down"}
  BY DEF IndInv, TypeOK
<1>3. CASE auto /\ ~sorted
  <2>1. data' = WithItems(Arranged(cmp))
    BY <1>1, <1>3
  <2>2. sorted' = TRUE
    BY <1>1, <1>3
  <2>. QED  BY <1>1, <1>2, <2>1, <2>2, ArrangeStep
<1>4. CASE ~(auto /\ ~sorted)
  <2>1. data' = WithItems(Items)
    BY <1>1, <1>4
  <2>2. sorted' = sorted
    BY <1>1, <1>2, <1>4, Zenon
  <2>3. ASSUME NEW c \in Cells
        PROVE  data[c] = IF c \in start .. start + size - 1 THEN Items[c - start + 1] ELSE data[c]
    <3>1. c \in start .. start + size - 1 => c - start + 1 \in 1 .. size /\ start + (c - start + 1) - 1 = c
      BY CellFacts
    <3>. QED  BY <3>1, ItemFacts
  <2>4. data' = data
    BY <2>1, <2>3, CellFacts DEF WithItems
  <2>. QED  BY <1>1, <2>2, <2>4, SameStep DEF cells
<1>. QED  BY <1>3, <1>4

LEMMA ReverseStep ==
  ASSUME IndInv, Misuse = {}, Reverse_
  PROVE  IndInv'
<1>. DEFINE g == [c \in Cells |-> IF c \in start .. size - 1 THEN start + size - 1 - c ELSE c]
<1>1. /\ pc = "idle" /\ start = 0 /\ ~sorted /\ pc' = pc
      /\ data' = [c \in Cells |-> IF c \in start .. size - 1 THEN data[start + size - 1 - c] ELSE data[c]]
      /\ UNCHANGED <<alloc, start, size, flags, sorted, cmp, owner>>
  BY DEF Reverse_, Writes, Reads, Avoids, Return
<1>2. /\ \A c \in Cells : g[c] = IF c \in 0 .. size - 1 THEN size - 1 - c ELSE c
      /\ \A c \in Cells : data'[c] = data[g[c]]
  <2>1. \A c \in Cells : 0 + size - 1 - c = size - 1 - c
    BY CellFacts
  <2>. QED  BY <1>1, <2>1, CellFacts
<1>3. \A c \in 0 .. size - 1 : size - 1 - c \in 0 .. size - 1 /\ size - 1 - (size - 1 - c) = c /\ c \in Cells
  BY <1>1, CellFacts
<1>4. g \in [Cells -> Cells]
  <2>1. \A c \in Cells : g[c] \in Cells
    BY <1>2, <1>3
  <2>. QED  BY <2>1
<1>. HIDE DEF g
<1>5. \A c \in Cells : g[c] \in Cells /\ g[g[c]] = c
  <2>1. SUFFICES ASSUME NEW c \in Cells PROVE g[c] \in Cells /\ g[g[c]] = c
    OBVIOUS
  <2>2. CASE c \in 0 .. size - 1
    BY <1>2, <1>3, <2>2
  <2>3. CASE c \notin 0 .. size - 1
    BY <1>2, <2>3
  <2>. QED  BY <2>2, <2>3
<1>6. Moved(Cells, g, {}, "caller")
  <2>1. owner' = Owners({}, {}, "caller")
    BY <1>1 DEF Owners, IndInv, TypeOK
  <2>2. data' = [c \in Cells |-> data'[c]]
    BY <1>1
  <2>3. \A c, e \in Cells : g[c] = g[e] => c = e
    BY <1>5
  <2>4. \A c \in Cells : \E e \in Cells : g[e] = c
    BY <1>5
  <2>. QED  BY <1>1, <1>2, <1>4, <2>1, <2>2, <2>3, <2>4 DEF Moved
<1>7. RestEmpty'
  <2>1. Cells' = Cells
    BY <1>1 DEF Cells
  <2>2. SUFFICES ASSUME NEW c \in Cells, c \notin 0 .. 0 + size - 1 PROVE data'[c] = NULL
    BY <1>1, <2>1 DEF RestEmpty
  <2>3. c \notin 0 .. size - 1 /\ c \notin start .. start + size - 1
    BY <1>1, <2>2, CellFacts
  <2>. QED  BY <1>2, <2>3, CellFacts
<1>8. sorted' = FALSE /\ sorted' \in BOOLEAN
  BY <1>1 DEF IndInv, TypeOK
<1>9. size' \in Nat /\ start' \in Nat /\ start' + size' <= alloc
  BY <1>1, CellFacts
<1>. QED  BY <1>1, <1>6, <1>7, <1>8, <1>9, NotOrdered, MovedStep

-----------------------------------------------------------------------------
(***************************************************************************)
(* Taking out some items, by comparison                                    *)
(***************************************************************************)
\* Of the positions in I, those up to n come first.
LEMMA FirstOnes ==
  ASSUME NEW I \in SUBSET Nat, IsFiniteSet(I), NEW n \in Nat
  PROVE  LET F == {i \in I : i <= n}
             p == Listed(I, Less)
         IN  /\ Cardinality(F) \in Nat /\ Cardinality(F) <= Cardinality(I)
             /\ \A r \in 1 .. Cardinality(I) : p[r] <= n <=> r <= Cardinality(F)
<1>. DEFINE F == {i \in I : i <= n}
            p == Listed(I, Less)
            m == Cardinality(I)
            q == Cardinality(F)
<1>1. TotalOrder(I, Less) /\ \A i, j \in I : <<i, j>> \in Less <=> i < j
  BY LessIsTotal
<1>2. m \in Nat /\ Lists(p, I, Less)
  BY <1>1, IsListed
<1>3. F \in SUBSET I /\ IsFiniteSet(F) /\ q <= m /\ q \in Nat
  <2>1. F \in SUBSET I
    OBVIOUS
  <2>2. IsFiniteSet(F) /\ q <= m
    BY <2>1, FS_Subset
  <2>. QED  BY <2>1, <2>2, FS_CardinalityType
<1>4. ASSUME NEW r \in 1 .. m PROVE p[r] <= n <=> r <= q
  <2>1. p[r] \in I /\ p[r] \in Nat /\ Place(I, Less, p[r]) = r
    BY <1>2 DEF Lists
  <2>2. CASE p[r] <= n
    <3>1. UpTo(I, Less, p[r]) \in SUBSET F
      <4>1. SUFFICES ASSUME NEW j \in UpTo(I, Less, p[r]) PROVE j \in F
        OBVIOUS
      <4>2. j \in I /\ j \in Nat /\ (j = p[r] \/ j < p[r])
        BY <1>1, <2>1, <4>1 DEF UpTo
      <4>. QED  BY <2>1, <2>2, <4>2
    <3>2. Cardinality(UpTo(I, Less, p[r])) <= q
      <4>. HIDE DEF F
      <4>. QED  BY <1>3, <3>1, FS_Subset
    <3>. QED  BY <2>1, <2>2, <3>2 DEF Place
  <2>3. CASE ~(p[r] <= n)
    <3>1. F \cup {p[r]} \in SUBSET UpTo(I, Less, p[r])
      <4>1. SUFFICES ASSUME NEW j \in F PROVE j \in UpTo(I, Less, p[r])
        BY <2>1 DEF UpTo
      <4>2. j \in I /\ j \in Nat /\ j < p[r]
        BY <2>1, <2>3
      <4>. QED  BY <1>1, <2>1, <4>2 DEF UpTo
    <3>2. p[r] \notin F
      BY <2>3
    <3>. HIDE DEF F
    <3>3. Cardinality(F \cup {p[r]}) = q + 1
      BY <1>3, <3>2, FS_AddElement
    <3>4. IsFiniteSet(UpTo(I, Less, p[r]))
      <4>1. UpTo(I, Less, p[r]) \in SUBSET I
        BY DEF UpTo
      <4>. QED  BY <4>1, FS_Subset
    <3>5. q + 1 <= r
      BY <2>1, <3>1, <3>3, <3>4, FS_Subset DEF Place
    <3>6. ~(r <= q)
      BY <1>3, <3>5
    <3>. QED  BY <2>3, <3>6
  <2>. QED  BY <2>2, <2>3
<1>. QED  BY <1>3, <1>4

\* The cells from the first item on, those of them that stay when what
\* compares equal to k leaves, and what leaves.
FromStart == [i \in 1 .. alloc - start |-> data[start + i - 1]]
Staying(k) == {i \in DOMAIN FromStart : ~Has(k, FromStart[i])}
Leaving(k) == {d \in Held : Has(k, d)}

LEMMA LeavingCount ==
  ASSUME IndInv, NEW k
  PROVE  /\ Staying(k) \in SUBSET Nat /\ IsFiniteSet(Staying(k))
         /\ Staying(k) \subseteq 1 .. alloc - start
         /\ {i \in Staying(k) : i <= size} = {i \in 1 .. size : ~Has(k, Items[i])}
         /\ size - Cardinality(Leaving(k)) = Cardinality({i \in Staying(k) : i <= size})
         /\ Cardinality({i \in Staying(k) : i <= size}) \in 0 .. size
<1>. DEFINE from == FromStart
            kept == Staying(k)
            gone == Leaving(k)
            F == {i \in kept : i <= size}
            P == {i \in 1 .. size : Has(k, from[i])}
<1>1. DOMAIN from = 1 .. alloc - start /\ alloc - start \in Nat /\ size \in Nat
      /\ \A i \in 1 .. alloc - start : from[i] = data[start + i - 1] /\ start + i - 1 \in Cells
  BY CellFacts DEF FromStart
<1>2. kept \in SUBSET Nat /\ IsFiniteSet(kept) /\ kept \subseteq 1 .. alloc - start
  <2>1. IsFiniteSet(1 .. alloc - start)
    BY <1>1, FS_Interval
  <2>2. kept \in SUBSET (1 .. alloc - start)
    BY <1>1 DEF Staying
  <2>3. IsFiniteSet(kept)
    <3>. HIDE DEF kept
    <3>. QED  BY <2>1, <2>2, FS_Subset
  <2>. QED  BY <1>1, <2>2, <2>3
<1>3. \A i \in kept : ~Has(k, from[i])
  BY DEF Staying
<1>4. \A i \in 1 .. alloc - start : i \in kept \/ (Has(k, from[i]) /\ i \in 1 .. size)
  <2>1. SUFFICES ASSUME NEW i \in 1 .. alloc - start, Has(k, from[i]) PROVE i \in 1 .. size
    BY <1>1 DEF Staying
  <2>2. data[start + i - 1] # NULL /\ start + i - 1 \in Cells
    BY <1>1, <2>1 DEF Has
  <2>3. start + i - 1 \in start .. start + size - 1
    BY <2>2, CellFacts
  <2>. QED  BY <2>3, CellFacts
<1>5. {i \in kept : i <= size} = {i \in 1 .. size : ~Has(k, Items[i])}
  <2>1. \A i \in 1 .. size : i \in 1 .. alloc - start /\ from[i] = Items[i] /\ i <= size
    BY <1>1, CellFacts, ItemFacts
  <2>2. ASSUME NEW i \in 1 .. size PROVE i \in kept <=> ~Has(k, Items[i])
    BY <1>3, <1>4, <2>1
  <2>3. ASSUME NEW i \in kept, i <= size PROVE i \in 1 .. size
    BY <1>1, <1>2, <2>3
  <2>. QED  BY <2>1, <2>2, <2>3
<1>6. IsFiniteSet(1 .. size) /\ Cardinality(1 .. size) = size
  BY <1>1, FS_Interval
<1>7. F \in SUBSET (1 .. size) /\ P \in SUBSET (1 .. size) /\ F \cap P = {}
  <2>1. ASSUME NEW i \in kept, i <= size PROVE i \in 1 .. size
    <3>1. i \in 1 .. alloc - start
      BY <1>2
    <3>. QED  BY <1>1, <2>1, <3>1
  <2>2. ASSUME NEW i \in F, i \in P PROVE FALSE
    BY <1>3, <2>2
  <2>. QED  BY <2>1, <2>2
<1>8. F \cup P = 1 .. size
  <2>1. ASSUME NEW i \in 1 .. size PROVE i \in F \/ i \in P
    <3>1. i \in 1 .. alloc - start /\ i <= size
      BY CellFacts
    <3>. QED  BY <1>4, <3>1
  <2>. QED  BY <1>7, <2>1
<1>9. IsFiniteSet(F) /\ IsFiniteSet(P)
  <2>. HIDE DEF F, P
  <2>. QED  BY <1>6, <1>7, FS_Subset
<1>10. Cardinality(F \cup P) = Cardinality(F) + Cardinality(P)
  <2>1. Cardinality(F \cup P) = Cardinality(F) + Cardinality(P) - Cardinality(F \cap P)
    <3>. HIDE DEF F, P
    <3>. QED  BY <1>9, FS_Union
  <2>2. Cardinality(F \cap P) = 0
    <3>. HIDE DEF F, P
    <3>. QED  BY <1>7, FS_EmptySet
  <2>3. Cardinality(F) \in Nat /\ Cardinality(P) \in Nat
    <3>. HIDE DEF F, P
    <3>. QED  BY <1>9, FS_CardinalityType
  <2>. HIDE DEF F, P
  <2>. QED  BY <2>1, <2>2, <2>3
<1>11. Cardinality(P) = Cardinality(gone)
  <2>. DEFINE b == [i \in P |-> from[i]]
  <2>1. \A i \in P : from[i] \in gone
    <3>1. SUFFICES ASSUME NEW i \in P PROVE from[i] \in gone
      OBVIOUS
    <3>2. i \in 1 .. alloc - start
      BY CellFacts
    <3>. QED  BY <1>1, <3>2 DEF Leaving, Held, Has
  <2>2. \A i, j \in P : from[i] = from[j] => i = j
    <3>1. SUFFICES ASSUME NEW i \in P, NEW j \in P, from[i] = from[j] PROVE i = j
      OBVIOUS
    <3>2. i \in 1 .. alloc - start /\ j \in 1 .. alloc - start /\ i \in Nat /\ j \in Nat
      BY CellFacts
    <3>3. data[start + i - 1] = data[start + j - 1] /\ data[start + i - 1] # NULL
      BY <1>1, <3>1, <3>2 DEF Has
    <3>4. start + i - 1 = start + j - 1
      BY <1>1, <3>2, <3>3, CellFacts
    <3>. QED  BY <3>2, <3>4, CellFacts
  <2>3. \A d \in gone : \E i \in P : from[i] = d
    <3>1. SUFFICES ASSUME NEW d \in gone PROVE \E i \in P : from[i] = d
      OBVIOUS
    <3>2. PICK c \in Cells : data[c] = d /\ d # NULL /\ Has(k, d)
      BY DEF Leaving, Held
    <3>3. c \in start .. start + size - 1
      BY <3>2, CellFacts
    <3>4. c - start + 1 \in 1 .. size /\ start + (c - start + 1) - 1 = c
          /\ c - start + 1 \in 1 .. alloc - start
      BY <3>3, CellFacts
    <3>5. from[c - start + 1] = d
      BY <1>1, <3>2, <3>4
    <3>. QED  BY <3>2, <3>4, <3>5
  <2>. HIDE DEF P, gone
  <2>4. b \in Injection(P, gone) /\ b \in Surjection(P, gone)
    BY <2>1, <2>2, <2>3 DEF Injection, Surjection, IsInjective
  <2>. HIDE DEF b
  <2>5. b \in Bijection(P, gone)
    BY <2>4 DEF Bijection
  <2>6. ExistsBijection(P, gone)
    BY <2>5 DEF ExistsBijection
  <2>. QED  BY <1>9, <2>6, FS_Bijection
<1>12. Cardinality(P) \in Nat
  BY <1>9, FS_CardinalityType
<1>. HIDE DEF F, P, gone
<1>13. Cardinality(F) + Cardinality(P) = size
  BY <1>6, <1>8, <1>10
<1>14. Cardinality(F) \in Nat
  <2>. HIDE DEF F
  <2>. QED  BY <1>9, FS_CardinalityType
<1>15. size - Cardinality(gone) = Cardinality(F) /\ Cardinality(F) \in 0 .. size
  BY <1>1, <1>11, <1>12, <1>13, <1>14
<1>. QED  BY <1>2, <1>5, <1>15 DEF F, gone

LEMMA RemoveExStep ==
  ASSUME IndInv, NEW k, RemoveEx(k)
  PROVE  IndInv'
<1>. DEFINE from == [i \in 1 .. alloc - start |-> data[start + i - 1]]
            kept == {i \in DOMAIN from : ~Has(k, from[i])}
            gone == {d \in Held : Has(k, d)}
<1>1. pc = "idle" /\ pc' = pc
  BY DEF RemoveEx, Writes, Reads, Return
<1>2. CASE size = 0
  <2>1. UNCHANGED <<cells, flags, sorted, cmp, owner>>
    BY <1>2 DEF RemoveEx
  <2>. QED  BY <1>1, <2>1, SameStep
<1>3. CASE size # 0
  <2>. DEFINE p == Listed(kept, Less)
              m == Cardinality(kept)
              F == {i \in kept : i <= size}
              P == {i \in 1 .. size : Has(k, from[i])}
              S == {c \in Cells : c < start \/ c - start < m}
              g == [c \in S |-> IF c < start THEN c ELSE start + p[c - start + 1] - 1]
              h == [r \in 1 .. Cardinality(F) |-> p[r]]
  <2>1. /\ data' = [c \in Cells |-> IF c < start THEN data[c]
                                    ELSE IF c - start < m THEN Only(from, kept)[c - start + 1] ELSE NULL]
        /\ size' = size - Cardinality(gone) /\ UNCHANGED <<alloc, start, sorted>>
        /\ owner' = Owners({}, gone, Freed) /\ UNCHANGED <<flags, cmp>>
    BY <1>3 DEF RemoveEx, Gives
  <2>2. DOMAIN from = 1 .. alloc - start /\ alloc - start \in Nat /\ size \in Nat
        /\ \A i \in 1 .. alloc - start : from[i] = data[start + i - 1] /\ start + i - 1 \in Cells
    BY CellFacts
  <2>3. kept \in SUBSET Nat /\ IsFiniteSet(kept) /\ kept \subseteq 1 .. alloc - start
    <3>1. IsFiniteSet(1 .. alloc - start)
      BY <2>2, FS_Interval
    <3>2. kept \in SUBSET (1 .. alloc - start)
      BY <2>2
    <3>3. IsFiniteSet(kept)
      <4>. HIDE DEF kept
      <4>. QED  BY <3>1, <3>2, FS_Subset
    <3>. QED  BY <2>2, <3>2, <3>3
  <2>4. \A i \in kept : ~Has(k, from[i])
    OBVIOUS
  <2>5. \A i \in 1 .. alloc - start : i \in kept \/ (Has(k, from[i]) /\ i \in 1 .. size)
    <3>1. SUFFICES ASSUME NEW i \in 1 .. alloc - start, Has(k, from[i]) PROVE i \in 1 .. size
      BY <2>2
    <3>2. data[start + i - 1] # NULL /\ start + i - 1 \in Cells
      BY <2>2, <3>1 DEF Has
    <3>3. start + i - 1 \in start .. start + size - 1
      BY <3>2, CellFacts
    <3>. QED  BY <3>3, CellFacts
  <2>. HIDE DEF from, kept
  <2>6. /\ m \in Nat /\ Lists(p, kept, Less)
        /\ Only(from, kept) = [r \in 1 .. m |-> from[p[r]]]
        /\ \A i, j \in kept : <<i, j>> \in Less <=> i < j
    BY <2>3, LessIsTotal, IsListed, OnlyIs
  <2>7. /\ Cardinality(F) \in Nat /\ Cardinality(F) <= m
        /\ \A r \in 1 .. m : p[r] <= size <=> r <= Cardinality(F)
    BY <2>2, <2>3, FirstOnes
  <2>8. size' = Cardinality(F) /\ Cardinality(F) <= size
    <3>1. kept = Staying(k) /\ gone = Leaving(k)
      BY DEF kept, from, Staying, FromStart, Leaving
    <3>2. /\ size - Cardinality(Leaving(k)) = Cardinality({i \in Staying(k) : i <= size})
          /\ Cardinality({i \in Staying(k) : i <= size}) \in 0 .. size
      BY LeavingCount
    <3>. HIDE DEF gone
    <3>. QED  BY <2>1, <2>2, <3>1, <3>2
  <2>. HIDE DEF p, m, F
  <2>9. \A r \in 1 .. m : p[r] \in kept /\ p[r] \in 1 .. alloc - start /\ p[r] \in Nat
                          /\ start + p[r] - 1 \in Cells /\ from[p[r]] = data[start + p[r] - 1]
    BY <2>2, <2>3, <2>6 DEF Lists, m
  <2>10. \A c \in Cells : ~(c < start) /\ c - start < m =>
           /\ c - start + 1 \in 1 .. m
           /\ data'[c] = data[start + p[c - start + 1] - 1]
    <3>1. SUFFICES ASSUME NEW c \in Cells, ~(c < start), c - start < m
                   PROVE /\ c - start + 1 \in 1 .. m
                         /\ data'[c] = data[start + p[c - start + 1] - 1]
      OBVIOUS
    <3>2. c - start + 1 \in 1 .. m
      BY <2>6, <3>1, CellFacts
    <3>3. data'[c] = Only(from, kept)[c - start + 1]
      BY <2>1, <3>1
    <3>. QED  BY <2>6, <2>9, <3>2, <3>3
  <2>11. /\ S \subseteq Cells
         /\ \A c \in S : c < start => g[c] = c /\ data'[c] = data[c] /\ data[c] = NULL
         /\ \A c \in S : ~(c < start) => /\ g[c] = start + p[c - start + 1] - 1 /\ c - start + 1 \in 1 .. m
                                         /\ g[c] \in Cells /\ data'[c] = data[g[c]]
    <3>1. \A c \in Cells : c < start => data[c] = NULL
      BY CellFacts
    <3>. QED  BY <2>1, <2>9, <2>10, <3>1
  <2>12. g \in [S -> Cells]
    <3>1. \A c \in S : g[c] \in Cells
      BY <2>11
    <3>. QED  BY <3>1
  <2>. HIDE DEF g, gone
  <2>13. Moved(S, g, gone, Freed)
    <3>1. \A c, e \in S : g[c] = g[e] => c = e
      <4>1. SUFFICES ASSUME NEW c \in S, NEW e \in S, g[c] = g[e] PROVE c = e
        OBVIOUS
      <4>2. CASE c < start /\ e < start
        BY <2>11, <4>1, <4>2
      <4>3. CASE ~(c < start) /\ ~(e < start)
        <5>1. p[c - start + 1] = p[e - start + 1]
          <6>1. p[c - start + 1] \in Nat /\ p[e - start + 1] \in Nat /\ start \in Nat
            BY <2>9, <2>11, <4>3, CellFacts
          <6>. QED  BY <2>11, <4>1, <4>3, <6>1
        <5>2. c - start + 1 = e - start + 1
          BY <2>6, <2>11, <4>3, <5>1 DEF Lists, m
        <5>. QED  BY <5>2, CellFacts
      <4>4. \A x, y \in S : x < start /\ ~(y < start) => g[x] # g[y]
        <5>1. SUFFICES ASSUME NEW x \in S, NEW y \in S, x < start, ~(y < start) PROVE g[x] # g[y]
          OBVIOUS
        <5>2. g[x] = x /\ g[y] = start + p[y - start + 1] - 1 /\ p[y - start + 1] \in 1 .. alloc - start
          BY <2>9, <2>11, <5>1
        <5>. QED  BY <5>1, <5>2, CellFacts
      <4>. QED  BY <4>1, <4>2, <4>3, <4>4
    <3>2. \A c \in S : data'[c] = data[g[c]]
      BY <2>11
    <3>3. \A c \in Cells : c \notin S => data'[c] = NULL
      BY <2>1
    <3>4. \A c \in S : data[g[c]] # NULL => data[g[c]] \notin gone
      <4>1. SUFFICES ASSUME NEW c \in S, data[g[c]] # NULL PROVE ~Has(k, data[g[c]])
        BY DEF gone
      <4>2. ~(c < start)
        BY <2>11, <4>1
      <4>. QED  BY <2>4, <2>9, <2>11, <4>2
    <3>5. \A c \in Cells : data[c] # NULL => data[c] \in gone \/ \E e \in S : g[e] = c
      <4>1. SUFFICES ASSUME NEW c \in Cells, data[c] # NULL, data[c] \notin gone
                     PROVE  \E e \in S : g[e] = c
        OBVIOUS
      <4>2. ~Has(k, data[c])
        BY <4>1 DEF gone, Held
      <4>3. c - start + 1 \in 1 .. alloc - start /\ start + (c - start + 1) - 1 = c
        BY <4>1, CellFacts
      <4>4. c - start + 1 \in kept
        BY <2>2, <2>5, <4>2, <4>3
      <4>5. PICK r \in 1 .. m : p[r] = c - start + 1
        BY <2>6, <4>4 DEF Lists, m
      <4>6. r <= alloc - start
        <5>1. m <= alloc - start
          <6>1. IsFiniteSet(1 .. alloc - start) /\ Cardinality(1 .. alloc - start) = alloc - start
            BY <2>2, FS_Interval
          <6>. QED  BY <2>3, <6>1, FS_Subset DEF m
        <5>. QED  BY <2>2, <2>6, <5>1
      <4>7. start + r - 1 \in S /\ ~(start + r - 1 < start) /\ (start + r - 1) - start + 1 = r
        BY <2>6, <4>6, CellFacts
      <4>8. g[start + r - 1] = start + p[r] - 1
        BY <2>11, <4>7
      <4>9. g[start + r - 1] = c
        BY <4>3, <4>5, <4>8
      <4>. QED  BY <4>7, <4>9
    <3>6. data' = [c \in Cells |-> data'[c]] /\ Freed \in {"caller", "freed"}
      BY <2>1 DEF Freed
    <3>. QED  BY <2>1, <2>11, <2>12, <3>1, <3>2, <3>3, <3>4, <3>5, <3>6 DEF Moved
  <2>14. KeptInOrder(h)
    <3>1. \A r \in 1 .. Cardinality(F) : r \in 1 .. m
      BY <2>6, <2>7
    <3>2. h \in [1 .. Cardinality(F) -> 1 .. size] /\ \A r \in 1 .. Cardinality(F) : h[r] = p[r]
      <4>1. \A r \in 1 .. Cardinality(F) : p[r] \in 1 .. size
        BY <2>2, <2>7, <2>9, <3>1
      <4>. QED  BY <4>1
    <3>. HIDE DEF h
    <3>3. \A r, q \in 1 .. Cardinality(F) : r < q => h[r] < h[q]
      BY <2>6, <2>9, <3>1, <3>2 DEF Lists, m
    <3>4. ASSUME NEW r \in 1 .. Cardinality(F)
          PROVE  data'[start + r - 1] = data[start + h[r] - 1]
      <4>1. r \in 1 .. m /\ h[r] \in 1 .. size
        BY <3>1, <3>2
      <4>2. Cardinality(F) <= size
        BY <2>8
      <4>3. start + r - 1 \in Cells /\ ~(start + r - 1 < start) /\ (start + r - 1) - start < m
            /\ (start + r - 1) - start + 1 = r
        BY <2>6, <2>7, <4>1, <4>2, CellFacts
      <4>. QED  BY <2>10, <3>2, <4>3
    <3>. QED  BY <2>1, <2>7, <2>8, <3>2, <3>3, <3>4 DEF KeptInOrder
  <2>15. Ordered'
    BY <2>1, <2>14, KeptOrdered
  <2>16. RestEmpty'
    <3>1. Cells' = Cells
      BY <2>1 DEF Cells
    <3>2. SUFFICES ASSUME NEW c \in Cells, c \notin start .. start + Cardinality(F) - 1
                   PROVE  data'[c] = NULL
      BY <2>1, <2>8, <3>1 DEF RestEmpty
    <3>3. CASE c < start
      BY <2>1, <3>3, CellFacts
    <3>4. CASE ~(c < start) /\ ~(c - start < m)
      BY <2>1, <3>4
    <3>5. CASE ~(c < start) /\ c - start < m
      <4>1. c - start + 1 \in 1 .. m /\ data'[c] = data[start + p[c - start + 1] - 1]
        BY <2>10, <3>5
      <4>2. ~(c - start + 1 <= Cardinality(F))
        BY <2>7, <3>2, <3>5, CellFacts
      <4>3. ~(p[c - start + 1] <= size) /\ p[c - start + 1] \in Nat /\ start + p[c - start + 1] - 1 \in Cells
        BY <2>7, <2>9, <4>1, <4>2
      <4>4. start + p[c - start + 1] - 1 \notin start .. start + size - 1
        BY <4>3, CellFacts
      <4>5. \A a \in Cells : a \notin start .. start + size - 1 => data[a] = NULL
        BY CellFacts
      <4>6. data[start + p[c - start + 1] - 1] = NULL
        BY <4>3, <4>4, <4>5
      <4>. QED  BY <4>1, <4>6
    <3>. QED  BY <3>3, <3>4, <3>5
  <2>17. size' \in Nat /\ start' \in Nat /\ start' + size' <= alloc
    BY <2>1, <2>7, <2>8, CellFacts
  <2>18. sorted' \in BOOLEAN
    BY <2>1 DEF IndInv, TypeOK
  <2>. QED  BY <1>1, <2>1, <2>13, <2>15, <2>16, <2>17, <2>18, MovedStep
<1>. QED  BY <1>2, <1>3

LEMMA UniqStep ==
  ASSUME IndInv, Misuse = {}, Uniq
  PROVE  IndInv'
<1>. DEFINE kept == {i \in 1 .. size : i > 1 => KeyOf[Items[i]] # KeyOf[Items[i - 1]]}
            gone == {Items[i] : i \in (1 .. size) \ kept}
            m == Cardinality(kept)
            p == Listed(kept, Less)
            S == {c \in Cells : c < m}
            g == [c \in S |-> p[c + 1] - 1]
<1>1. pc = "idle" /\ pc' = pc /\ (start = 0 \/ size < 2)
      /\ sorted' = sorted /\ start' = start /\ alloc' = alloc /\ UNCHANGED <<flags, cmp>>
      /\ size' = m /\ owner' = Owners({}, gone, Freed)
      /\ data' = [c \in Cells |-> IF start = 0 /\ c < m THEN Only(Items, kept)[c + 1]
                                  ELSE IF start = 0 THEN NULL ELSE data[c]]
  <2>1. ~(start > 0 /\ size > 1)
    BY CellFacts DEF Uniq, Avoids
  <2>. QED  BY <2>1 DEF Uniq, Writes, Reads, Avoids, Return, Gives
<1>2. IsFiniteSet(1 .. size) /\ Cardinality(1 .. size) = size /\ size \in Nat
  <2>1. size \in Nat
    BY CellFacts
  <2>. QED  BY <2>1, FS_Interval
<1>3. kept \in SUBSET (1 .. size) /\ kept \in SUBSET Nat /\ (size > 0 => 1 \in kept)
  BY <1>2
<1>4. \A i \in (1 .. size) \ kept : Items[i] \in gone
  OBVIOUS
<1>5. \A d \in gone : \E i \in (1 .. size) \ kept : d = Items[i]
  OBVIOUS
<1>. HIDE DEF kept, gone
<1>6. IsFiniteSet(kept) /\ m \in Nat /\ m <= size
  <2>1. IsFiniteSet(kept) /\ m <= size
    BY <1>2, <1>3, FS_Subset
  <2>. QED  BY <2>1, FS_CardinalityType
<1>7. CASE start # 0
  <2>1. kept = 1 .. size
    <3>1. size = 0 \/ size = 1
      BY <1>1, <1>2, <1>7
    <3>2. \A i \in 1 .. size : i = 1 /\ size > 0
      BY <3>1
    <3>3. \A i \in 1 .. size : i \in kept
      BY <1>3, <3>2
    <3>. QED  BY <1>3, <3>3
  <2>2. size' = size
    BY <1>1, <1>2, <2>1
  <2>3. gone = {}
    BY <1>5, <2>1
  <2>4. owner' = owner
    BY <1>1, <2>3 DEF Owners, IndInv, TypeOK
  <2>5. data' = data
    <3>1. data' = [c \in Cells |-> data[c]]
      BY <1>1, <1>7
    <3>. QED  BY <3>1, CellFacts
  <2>. QED  BY <1>1, <2>2, <2>4, <2>5, SameStep DEF cells
<1>8. CASE start = 0
  <2>1. /\ Lists(p, kept, Less)
        /\ Only(Items, kept) = [r \in 1 .. m |-> Items[p[r]]]
        /\ \A i, j \in kept : <<i, j>> \in Less <=> i < j
    BY <1>3, <1>6, LessIsTotal, IsListed, OnlyIs
  <2>. HIDE DEF p, m
  <2>2. \A r \in 1 .. m : p[r] \in kept /\ p[r] \in 1 .. size /\ p[r] \in Nat /\ p[r] - 1 \in Cells
                          /\ Items[p[r]] = data[p[r] - 1]
    <3>1. \A r \in 1 .. m : p[r] \in kept /\ p[r] \in 1 .. size
      BY <1>3, <2>1 DEF Lists, m
    <3>2. \A i \in 1 .. size : i \in Nat /\ i - 1 \in Cells /\ Items[i] = data[i - 1]
      <4>1. \A i \in 1 .. size : start + i - 1 = i - 1
        BY <1>8, CellFacts
      <4>. QED  BY <4>1, ItemFacts
    <3>. QED  BY <3>1, <3>2
  <2>3. \A c \in Cells : c < m => c + 1 \in 1 .. m /\ data'[c] = data[p[c + 1] - 1]
    <3>1. SUFFICES ASSUME NEW c \in Cells, c < m PROVE c + 1 \in 1 .. m /\ data'[c] = data[p[c + 1] - 1]
      OBVIOUS
    <3>2. c + 1 \in 1 .. m
      BY <1>6, <3>1, CellFacts
    <3>3. data'[c] = Only(Items, kept)[c + 1]
      BY <1>1, <1>8, <3>1
    <3>. QED  BY <2>1, <2>2, <3>2, <3>3
  <2>4. \A c \in Cells : ~(c < m) => data'[c] = NULL
    BY <1>1, <1>8
  <2>5. S \subseteq Cells /\ g \in [S -> Cells]
        /\ \A c \in S : g[c] = p[c + 1] - 1 /\ c + 1 \in 1 .. m /\ data'[c] = data[g[c]]
    BY <2>2, <2>3
  <2>6. \A c \in Cells : c \notin S => data'[c] = NULL
    BY <2>4
  <2>7. \A r \in 1 .. m : r \in Nat /\ (r - 1 \in S)
    <3>1. SUFFICES ASSUME NEW r \in 1 .. m PROVE r \in Nat /\ r - 1 \in Cells /\ r - 1 < m
      OBVIOUS
    <3>. QED  BY <1>6, CellFacts
  <2>. HIDE DEF g
  <2>8. Moved(S, g, gone, Freed)
    <3>1. ASSUME NEW c \in S, NEW e \in S, g[c] = g[e] PROVE c = e
      <4>1. p[c + 1] = p[e + 1]
        BY <2>2, <2>5, <3>1
      <4>2. c + 1 = e + 1
        BY <2>1, <2>5, <4>1 DEF Lists, m
      <4>. QED  BY <4>2, CellFacts
    <3>2. ASSUME NEW c \in S, data[g[c]] # NULL PROVE data[g[c]] \notin gone
      <4>1. SUFFICES ASSUME NEW i \in (1 .. size) \ kept, data[g[c]] = Items[i] PROVE FALSE
        BY <1>5
      <4>2. i - 1 \in Cells /\ Items[i] = data[i - 1] /\ i \in Nat
        <5>1. start + i - 1 = i - 1 /\ i \in Nat
          BY <1>8
        <5>. QED  BY <5>1, ItemFacts
      <4>3. g[c] = i - 1
        BY <2>5, <3>2, <4>1, <4>2, CellFacts
      <4>4. p[c + 1] \in kept /\ p[c + 1] \in Nat /\ g[c] = p[c + 1] - 1
        BY <2>2, <2>5
      <4>5. p[c + 1] = i
        BY <4>2, <4>3, <4>4
      <4>. QED  BY <4>1, <4>4, <4>5
    <3>3. ASSUME NEW c \in Cells, data[c] # NULL PROVE data[c] \in gone \/ \E e \in S : g[e] = c
      <4>1. c + 1 \in 1 .. size /\ start + (c + 1) - 1 = c
        BY <1>8, <3>3, CellFacts
      <4>2. Items[c + 1] = data[c]
        BY <4>1, ItemFacts
      <4>3. CASE c + 1 \in kept
        <5>1. PICK r \in 1 .. m : p[r] = c + 1
          BY <2>1, <4>3 DEF Lists, m
        <5>2. g[r - 1] = p[(r - 1) + 1] - 1 /\ (r - 1) + 1 = r
          BY <2>5, <2>7
        <5>3. g[r - 1] = c
          BY <5>1, <5>2, CellFacts
        <5>. QED  BY <2>7, <5>3
      <4>. QED  BY <1>4, <4>1, <4>2, <4>3
    <3>4. data' = [c \in Cells |-> data'[c]] /\ Freed \in {"caller", "freed"}
      BY <1>1 DEF Freed
    <3>. QED  BY <1>1, <2>5, <2>6, <3>1, <3>2, <3>3, <3>4 DEF Moved
  <2>9. KeptInOrder([r \in 1 .. m |-> p[r]])
    <3>. DEFINE h == [r \in 1 .. m |-> p[r]]
    <3>1. h \in [1 .. m -> 1 .. size] /\ \A r \in 1 .. m : h[r] = p[r]
      BY <2>2
    <3>. HIDE DEF h
    <3>2. \A r, q \in 1 .. m : r < q => h[r] < h[q]
      BY <2>1, <2>2, <3>1 DEF Lists, m
    <3>3. ASSUME NEW r \in 1 .. m PROVE data'[start' + r - 1] = data[start + h[r] - 1]
      <4>1. r - 1 \in S /\ (r - 1) + 1 = r /\ start' + r - 1 = r - 1
        BY <1>1, <1>8, <2>7
      <4>2. data'[r - 1] = data[p[(r - 1) + 1] - 1]
        BY <2>5, <4>1
      <4>3. start + h[r] - 1 = p[r] - 1
        BY <1>8, <2>2, <3>1
      <4>. QED  BY <4>1, <4>2, <4>3
    <3>4. size' = m
      BY <1>1 DEF m
    <3>5. KeptInOrder(h)
      BY <1>6, <3>1, <3>2, <3>3, <3>4 DEF KeptInOrder
    <3>. QED  BY <3>5 DEF h
  <2>10. Ordered'
    BY <1>1, <2>9, KeptOrdered
  <2>11. RestEmpty'
    <3>1. Cells' = Cells /\ start' = 0 /\ size' = m
      BY <1>1, <1>8 DEF Cells, m
    <3>2. \A c \in Cells : c \notin 0 .. 0 + m - 1 => ~(c < m)
      BY <1>6, CellFacts
    <3>. QED  BY <2>4, <3>1, <3>2 DEF RestEmpty
  <2>12. size' \in Nat /\ start' \in Nat /\ start' + size' <= alloc
    BY <1>1, <1>6, <1>8, CellFacts DEF m
  <2>13. sorted' \in BOOLEAN
    BY <1>1 DEF IndInv, TypeOK
  <2>. QED  BY <1>1, <2>8, <2>10, <2>11, <2>12, <2>13, MovedStep
<1>. QED  BY <1>7, <1>8

\* The inline n_array_nth reads a cell of the block, or the function refuses.
LEMMA NthReads ==
  ASSUME Misuse = {}, NEW i \in Places, Nth(i)
  PROVE  /\ UNCHANGED <<cells, flags, sorted, cmp, owner>> /\ pc' = pc /\ call' = <<"nth", i>>
         /\ \/ i >= size /\ res' = Refused
            \/ start + i < alloc /\ res' = Val(data[start + i])
<1>1. Reads("nth", i) /\ Avoids("inline nth")
  BY DEF Nth, Avoids
<1>2. CASE i >= size /\ Die
  BY <1>1, <1>2 DEF Reads, Die, Return
<1>3. CASE /\ start + i < alloc
           /\ Return(Val(data[start + i])) /\ UNCHANGED <<cells, flags, sorted, cmp, owner>>
  BY <1>1, <1>3 DEF Reads, Return
<1>. QED  BY <1>1, <1>2, <1>3 DEF Nth

\* A call that only looks at the array, or that n_die ends.
LEMMA ReadSteps ==
  ASSUME Misuse = {}, IndInv,
         (\E i \in Places : Nth(i)) \/ (\E s \in Rows : Eq(s))
           \/ (\E name \in {"map", "map_arg"} : Map(name))
  PROVE  IndInv'
<1>1. ASSUME NEW i \in Places, Nth(i) PROVE IndInv'
  <2>1. UNCHANGED <<cells, flags, sorted, cmp, owner>> /\ pc' = pc
    BY <1>1, NthReads
  <2>. QED  BY <2>1, SameStep
<1>2. ASSUME NEW s \in Rows, Eq(s) PROVE IndInv'
  <2>1. UNCHANGED <<cells, flags, sorted, cmp, owner>> /\ pc' = pc
    BY <1>2 DEF Eq, Return
  <2>. QED  BY <2>1, SameStep
<1>3. ASSUME NEW name \in {"map", "map_arg"}, Map(name) PROVE IndInv'
  <2>1. UNCHANGED <<cells, flags, sorted, cmp, owner>> /\ pc' = pc
    BY <1>3 DEF Map, Return
  <2>. QED  BY <2>1, SameStep
<1>. QED  BY <1>1, <1>2, <1>3

-----------------------------------------------------------------------------
(***************************************************************************)
(* The invariant holds of the specification                                *)
(***************************************************************************)
LEMMA InitHolds ==
  ASSUME Init
  PROVE  IndInv
<1>1. /\ alloc = 1 /\ start = 0 /\ size = 0 /\ data = None(1) /\ sorted = FALSE /\ pc = "none"
      /\ owner = [d \in Data |-> "caller"] /\ hooked = FALSE /\ cmp = "up"
  BY DEF Init
<1>2. auto \in BOOLEAN /\ const \in BOOLEAN /\ frozen \in BOOLEAN /\ frees \in BOOLEAN /\ sorted \in BOOLEAN
  BY DEF Init
<1>3. Cells = 0 .. 0 /\ data = [c \in Cells |-> NULL]
  BY <1>1 DEF Cells, None
<1>4. data \in [Cells -> Data \cup {NULL}] /\ \A c \in Cells : data[c] = NULL
  BY <1>3
<1>5. /\ alloc \in 1 .. MaxAlloc /\ start \in 0 .. alloc /\ size \in 0 .. alloc /\ start + size <= alloc
      /\ hooked \in Hooks /\ cmp \in {"up", "down"} /\ pc \in {"none", "idle", "dead"}
      /\ owner \in [Data -> {"caller", "array", "freed"}]
  <2>1. MaxAlloc \in Nat /\ MaxAlloc >= 1
    <3>1. MaxAlloc \in Nat \ {0}
      BY ArrayAssumption
    <3>. QED  BY <3>1
  <2>2. alloc \in 1 .. MaxAlloc /\ start \in 0 .. alloc /\ size \in 0 .. alloc /\ start + size <= alloc
    BY <1>1, <2>1
  <2>3. hooked \in Hooks
    BY <1>1, ArrayAssumption, Zenon
  <2>4. owner \in [Data -> {"caller", "array", "freed"}]
    BY <1>1
  <2>. QED  BY <1>1, <2>2, <2>3, <2>4
<1>6. TypeOK
  BY <1>2, <1>4, <1>5, Zenon DEF TypeOK
<1>7. RestEmpty /\ OwnedBy /\ Once(data)
  BY <1>1, <1>3, <1>4, ArrayAssumption DEF RestEmpty, OwnedBy, Once
<1>8. Ordered
  BY <1>1 DEF Ordered, SortedInOrder
<1>. QED  BY <1>1, <1>6, <1>7, <1>8 DEF IndInv, NotDead

\* One case for each action.
LEMMA NextKeeps ==
  ASSUME Misuse = {}, IndInv, [Next]_vars
  PROVE  IndInv'
<1>1. CASE UNCHANGED vars
  <2>1. UNCHANGED <<cells, flags, sorted, cmp, owner>> /\ pc' = pc
    BY <1>1 DEF vars
  <2>. QED  BY <2>1, SameStep
<1>2. ASSUME NEW n \in InitSizes, New(n) PROVE IndInv'
  BY <1>2, NewStep
<1>3. CASE Free
  BY <1>3, FreeStep
<1>4. CASE Dup
  BY <1>4, DupStep
<1>5. CASE Ctl \/ (\E b \in Hooks : SetHook(b)) \/ (\E b \in BOOLEAN : SetFreefn(b))
  BY <1>5, FlagSteps
<1>6. ASSUME NEW d \in Data, Push(d) PROVE IndInv'
  BY <1>6, PushStep
<1>7. ASSUME NEW d \in Data, Unshift(d) PROVE IndInv'
  BY <1>7, UnshiftStep
<1>8. ASSUME NEW d \in Data, Renew(d) PROVE IndInv'
  BY <1>8, FlagSteps
<1>9. ASSUME NEW d \in Data, NEW i \in Places, SetNth(i, d) PROVE IndInv'
  BY <1>9, SetNthStep
<1>10. ASSUME NEW s \in Rows, Concat(s) PROVE IndInv'
  BY <1>10, ConcatStep
<1>11. CASE \/ \E i \in Places : Nth(i)
            \/ \E s \in Rows : Eq(s)
            \/ \E name \in {"map", "map_arg"} : Map(name)
  BY <1>11, ReadSteps
<1>12. ASSUME NEW i \in Places, RemoveNth(i) PROVE IndInv'
  BY <1>12, RemoveNthStep
<1>13. ASSUME NEW k \in Keys, RemoveEx(k) PROVE IndInv'
  BY <1>13, RemoveExStep
<1>14. ASSUME NEW k \in Keys, Search("lookup", k) \/ Search("index", k) PROVE IndInv'
  BY <1>14, SearchStep
<1>15. ASSUME NEW dir \in {"up", "down"}, Sort(dir) PROVE IndInv'
  BY <1>15, SortStep
<1>16. ASSUME NEW dir \in {"up", "down"}, SetCmp(dir) PROVE IndInv'
  BY <1>16, FlagSteps
<1>17. CASE Pop
  BY <1>17, PopStep
<1>18. CASE Shift
  BY <1>18, ShiftStep
<1>19. CASE Clean
  BY <1>19, CleanStep
<1>20. CASE Reverse_
  BY <1>20, ReverseStep
<1>21. CASE Uniq
  BY <1>21, UniqStep
<1>. QED
  BY <1>1, <1>2, <1>3, <1>4, <1>5, <1>6, <1>7, <1>8, <1>9, <1>10, <1>11, <1>12, <1>13, <1>14,
     <1>15, <1>16, <1>17, <1>18, <1>19, <1>20, <1>21, Zenon DEF Next

\* Whatever calls a caller makes, avoiding those that Misuse names, the cells
\* around the items are empty, no pointer is in two cells, a pointer is in a
\* cell as long as the array owns it, and an array flagged as sorted
\* (TN_ARRAY_INTERNAL_ISSORTED) has its items in order and none of them NULL.
THEOREM Inductive ==
  ASSUME Misuse = {}
  PROVE  Spec => []IndInv
<1>1. Init => IndInv
  BY InitHolds
<1>2. IndInv /\ [Next]_vars => IndInv'
  BY NextKeeps
<1>. QED  BY <1>1, <1>2, PTL DEF Spec

LEMMA EachOnce ==
  ASSUME IndInv
  PROVE  OwnedOnce
<1>1. SUFFICES ASSUME NEW d \in Data
               PROVE  Cardinality({c \in Cells : data[c] = d}) = (IF owner[d] = "array" THEN 1 ELSE 0)
  BY DEF OwnedOnce
<1>2. \A c, e \in Cells : data[c] = d /\ data[e] = d => c = e
  BY CellFacts
<1>3. owner[d] = "array" <=> \E c \in Cells : data[c] = d
  BY DEF IndInv, OwnedBy
<1>4. CASE owner[d] = "array"
  <2>1. PICK c \in Cells : data[c] = d
    BY <1>3, <1>4
  <2>2. {e \in Cells : data[e] = d} = {c}
    BY <1>2, <2>1
  <2>. QED  BY <1>4, <2>2, FS_Singleton
<1>5. CASE owner[d] # "array"
  <2>1. {e \in Cells : data[e] = d} = {}
    BY <1>3, <1>5
  <2>. QED  BY <1>5, <2>1, FS_EmptySet
<1>. QED  BY <1>4, <1>5

\* n_array_push, n_array_shift, n_array_remove_ex and the others never leave
\* the block, however far the start was moved on, leave nothing behind around
\* the items, and neither lose a pointer nor free or give back one twice.
THEOREM MemoryIsOK ==
  ASSUME Misuse = {}
  PROVE  Spec => []MemoryOK
<1>1. IndInv => MemoryOK
  BY EachOnce DEF MemoryOK, IndInv
<1>. QED  BY <1>1, Inductive, PTL

\* TN_ARRAY_INTERNAL_ISSORTED, which n_array_bsearch of an autosorted array
\* trusts, is not set on items out of order, whatever was removed, copied or
\* sorted by another function since it was set.
THEOREM FlagIsRight ==
  ASSUME Misuse = {}
  PROVE  Spec => []SortedInOrder
<1>1. IndInv => SortedInOrder
  BY DEF IndInv, Ordered
<1>. QED  BY <1>1, Inductive, PTL

-----------------------------------------------------------------------------
(***************************************************************************)
(* Searching: n_array_bsearch                                              *)
(***************************************************************************)
\* What the search finds of the bounds b.
IsFinder(s, k, f) == f = [b \in Bounds(s) |-> Turn(s, k, f, b)]

\* The loop of bsearch_voidp_arr stops when its bounds meet.
LEMMA TurnEnds ==
  ASSUME NEW s, NEW k, NEW l, NEW r, NEW f, l >= r
  PROVE  Turn(s, k, f, <<l, r>>) = -1
<1>1. <<l, r>>[1] = l /\ <<l, r>>[2] = r
  OBVIOUS
<1>. QED  BY <1>1 DEF Turn

Middle(a, b) == (a + b) \div 2

\* The cell a turn looks at lies between its bounds.
LEMMA MiddleIs ==
  ASSUME NEW s, Len(s) \in Nat, NEW l \in 0 .. Len(s), NEW r \in 0 .. Len(s), ~(l >= r)
  PROVE  /\ Middle(l, r) \in Nat /\ l <= Middle(l, r) /\ Middle(l, r) < r
         /\ Middle(l, r) + 1 \in 1 .. Len(s)
         /\ <<l, Middle(l, r)>> \in Bounds(s) /\ <<Middle(l, r) + 1, r>> \in Bounds(s)
<1>1. Middle(l, r) \in Int /\ l <= Middle(l, r) /\ Middle(l, r) < r
  BY DEF Middle
<1>. QED  BY <1>1 DEF Bounds

\* The bounds come closer in each turn: there is a function that finds.
LEMMA FinderExists ==
  ASSUME NEW s, Len(s) \in Nat, NEW k
  PROVE  \E f \in [Bounds(s) -> Int] : IsFinder(s, k, f)
<1> DEFINE n == Len(s)
           Up(f, m) == \A b \in Bounds(s) : b[2] - b[1] < m => f[b] = Turn(s, k, f, b)
           Next1(f) == [b \in Bounds(s) |-> Turn(s, k, f, b)]
           Bad == {m \in Nat : ~\E f \in [Bounds(s) -> Int] : Up(f, m)}
<1>1. ASSUME NEW b \in Bounds(s)
      PROVE  \E l, r \in 0 .. n : b = <<l, r>> /\ b[1] = l /\ b[2] = r
  BY DEF Bounds
<1>2. ASSUME NEW f \in [Bounds(s) -> Int] PROVE Next1(f) \in [Bounds(s) -> Int]
  <2>1. ASSUME NEW b \in Bounds(s) PROVE Turn(s, k, f, b) \in Int
    <3>1. PICK l \in 0 .. n, r \in 0 .. n : b = <<l, r>>
      BY <1>1
    <3>2. CASE l >= r
      BY <3>1, <3>2, TurnEnds
    <3>3. CASE ~(l >= r)
      <4> DEFINE i == Middle(l, r)
      <4>2. i \in Nat /\ <<l, i>> \in Bounds(s) /\ <<i + 1, r>> \in Bounds(s)
        BY <3>3, MiddleIs
      <4>3. f[<<l, i>>] \in Int /\ f[<<i + 1, r>>] \in Int
        BY <4>2
      <4>4. Turn(s, k, f, <<l, r>>) \in {-1, i, f[<<l, i>>], f[<<i + 1, r>>]}
        <5>. <<l, r>>[1] = l /\ <<l, r>>[2] = r
          OBVIOUS
        <5>1. Turn(s, k, f, <<l, r>>) =
                IF KeyOf[s[i + 1]] = k THEN i
                ELSE IF Comes(cmp, k, KeyOf[s[i + 1]]) THEN f[<<l, i>>] ELSE f[<<i + 1, r>>]
          BY <3>3 DEF Turn, Middle
        <5>. QED  BY <5>1
      <4>. QED  BY <3>1, <4>2, <4>3, <4>4
    <3>. QED  BY <3>2, <3>3
  <2>. QED  BY <2>1
<1>3. ASSUME NEW m \in Nat, NEW f \in [Bounds(s) -> Int], Up(f, m)
      PROVE  Up(Next1(f), m + 1)
  <2> DEFINE g == Next1(f)
  <2>1. ASSUME NEW b \in Bounds(s), b[2] - b[1] < m + 1
        PROVE  Turn(s, k, g, b) = Turn(s, k, f, b)
    <3>1. PICK l \in 0 .. n, r \in 0 .. n : b = <<l, r>> /\ b[1] = l /\ b[2] = r
      BY <1>1
    <3>2. CASE l >= r
      BY <3>1, <3>2, TurnEnds
    <3>3. CASE ~(l >= r)
      <4> DEFINE i == Middle(l, r)
      <4>2. /\ i \in Nat /\ l <= i /\ i < r /\ <<l, i>> \in Bounds(s) /\ <<i + 1, r>> \in Bounds(s)
        BY <3>3, MiddleIs
      <4>3. r - l < m + 1
        BY <2>1, <3>1
      <4>4. i - l < m /\ r - (i + 1) < m
        BY <4>2, <4>3
      <4>5. <<l, i>>[2] - <<l, i>>[1] < m /\ <<i + 1, r>>[2] - <<i + 1, r>>[1] < m
        BY <4>4
      <4>6. f[<<l, i>>] = Turn(s, k, f, <<l, i>>) /\ f[<<i + 1, r>>] = Turn(s, k, f, <<i + 1, r>>)
        BY <1>3, <4>2, <4>5
      <4>7. g[<<l, i>>] = f[<<l, i>>] /\ g[<<i + 1, r>>] = f[<<i + 1, r>>]
        BY <4>2, <4>6
      <4>. HIDE DEF g
      <4>8. Turn(s, k, g, <<l, r>>) = Turn(s, k, f, <<l, r>>)
        <5>. <<l, r>>[1] = l /\ <<l, r>>[2] = r
          OBVIOUS
        <5>1. ASSUME NEW e
              PROVE  Turn(s, k, e, <<l, r>>) =
                       IF KeyOf[s[i + 1]] = k THEN i
                       ELSE IF Comes(cmp, k, KeyOf[s[i + 1]]) THEN e[<<l, i>>] ELSE e[<<i + 1, r>>]
          BY <3>3 DEF Turn, Middle
        <5>. QED  BY <4>7, <5>1
      <4>. QED  BY <3>1, <4>8
    <3>. QED  BY <3>2, <3>3
  <2>. QED  BY <2>1
<1>4. ASSUME NEW m \in Nat PROVE \E f \in [Bounds(s) -> Int] : Up(f, m)
  <2>1. SUFFICES ASSUME Bad # {} PROVE FALSE
    OBVIOUS
  <2>2. PICK c \in Bad : \A d \in Bad : c <= d
    <3>1. Bad \in SUBSET Nat
      OBVIOUS
    <3>. HIDE DEF Bad
    <3>. QED  BY <2>1, <3>1, LeastElement
  <2>3. c # 0
    <3>1. SUFFICES \E f \in [Bounds(s) -> Int] : Up(f, 0)
      OBVIOUS
    <3> DEFINE g == [b \in Bounds(s) |-> -1]
    <3>2. ASSUME NEW b \in Bounds(s), b[2] - b[1] < 0 PROVE Turn(s, k, g, b) = -1
      <4>1. PICK l \in 0 .. n, r \in 0 .. n : b = <<l, r>> /\ b[1] = l /\ b[2] = r
        BY <1>1
      <4>2. l >= r
        BY <3>2, <4>1
      <4>. QED  BY <4>1, <4>2, TurnEnds
    <3>3. g \in [Bounds(s) -> Int] /\ Up(g, 0)
      BY <3>2
    <3>. QED  BY <3>3
  <2>4. c - 1 \in Nat /\ ~(c <= c - 1) /\ (c - 1) + 1 = c /\ c \in Nat
    BY <2>3
  <2>5. c - 1 \notin Bad
    <3>. HIDE DEF Bad
    <3>. QED  BY <2>2, <2>4
  <2>6. PICK f \in [Bounds(s) -> Int] : Up(f, c - 1)
    BY <2>4, <2>5
  <2>7. Up(Next1(f), (c - 1) + 1) /\ Next1(f) \in [Bounds(s) -> Int]
    <3>. HIDE DEF Up, Next1
    <3>. QED  BY <1>2, <1>3, <2>4, <2>6
  <2>. HIDE DEF Up, Next1
  <2>. QED  BY <2>2, <2>4, <2>7
<1>5. PICK f \in [Bounds(s) -> Int] : Up(f, n + 1)
  <2>. HIDE DEF Up
  <2>. QED  BY <1>4
<1>6. ASSUME NEW b \in Bounds(s) PROVE f[b] = Turn(s, k, f, b)
  <2>1. PICK l \in 0 .. n, r \in 0 .. n : b[1] = l /\ b[2] = r
    BY <1>1
  <2>2. b[2] - b[1] < n + 1
    BY <2>1
  <2>. QED  BY <1>5, <2>2
<1>7. f = [b \in Bounds(s) |-> f[b]]
  OBVIOUS
<1>. QED  BY <1>6, <1>7 DEF IsFinder

Finder(s, k) == CHOOSE f : IsFinder(s, k, f)

\* The recursive function of Bsearch exists: find is what its turns say.
LEMMA FinderIs ==
  ASSUME NEW s, Len(s) \in Nat, NEW k
  PROVE  \E f : IsFinder(s, k, f) /\ Bsearch(s, k) = f[<<0, Len(s)>>]
<1>1. IsFinder(s, k, Finder(s, k))
  BY FinderExists DEF Finder
<1>2. Bsearch(s, k) = Finder(s, k)[<<0, Len(s)>>]
  BY DEF Bsearch, Finder, IsFinder
<1>. QED  BY <1>1, <1>2

\* n_array_bsearch finds an item that compares equal where there is one.
LEMMA BsearchIs ==
  ASSUME NEW s \in Seq(Data), cmp \in {"up", "down"}, InOrder(cmp, s), NEW k \in Nat
  PROVE  \/ Bsearch(s, k) = -1 /\ \A i \in 1 .. Len(s) : KeyOf[s[i]] # k
         \/ Bsearch(s, k) \in 0 .. Len(s) - 1 /\ KeyOf[s[Bsearch(s, k) + 1]] = k
<1>0. PICK find : IsFinder(s, k, find) /\ Bsearch(s, k) = find[<<0, Len(s)>>]
  <2>1. Len(s) \in Nat
    OBVIOUS
  <2>. QED  BY <2>1, FinderIs
<1> DEFINE n == Len(s)
           K == [i \in 1 .. n |-> KeyOf[s[i]]]
           Right(v) == \/ v = -1 /\ \A i \in 1 .. n : K[i] # k
                       \/ v \in 0 .. n - 1 /\ K[v + 1] = k
           Outside(l, r) == /\ \A i \in 1 .. n : i <= l => Comes(cmp, K[i], k)
                            /\ \A i \in 1 .. n : i > r => Comes(cmp, k, K[i])
           Bad == {m \in Nat : \E l, r \in 0 .. n :
                      l <= r /\ r - l = m /\ Outside(l, r) /\ ~Right(find[<<l, r>>])}
<1>1. /\ n \in Nat /\ \A i \in 1 .. n : K[i] \in Nat
      /\ \A i \in 1 .. n : K[i] = KeyOf[s[i]]
      /\ \A i, j \in 1 .. n : i < j => ~Comes(cmp, K[j], K[i])
  BY ArrayAssumption DEF InOrder
<1>2. ASSUME Bad # {} PROVE FALSE
  <2>1. PICK m \in Bad : \A o \in Bad : m <= o
    <3>1. Bad \in SUBSET Nat
      OBVIOUS
    <3>. HIDE DEF Bad
    <3>. QED  BY <1>2, <3>1, LeastElement
  <2>2. PICK l \in 0 .. n, r \in 0 .. n :
          m \in Nat /\ l <= r /\ r - l = m /\ Outside(l, r) /\ ~Right(find[<<l, r>>])
    BY <2>1
  <2>3. find[<<l, r>>] = Turn(s, k, find, <<l, r>>)
    <3>1. <<l, r>> \in Bounds(s)
      BY DEF Bounds
    <3>. QED  BY <1>0, <3>1 DEF IsFinder
  <2>4. <<l, r>>[1] = l /\ <<l, r>>[2] = r
    OBVIOUS
  <2>5. CASE l >= r
    <3>1. find[<<l, r>>] = -1
      BY <2>3, <2>5, TurnEnds
    <3>2. ASSUME NEW i \in 1 .. n PROVE K[i] # k
      <4>1. (i <= l \/ i > r) /\ K[i] \in Nat
        BY <1>1, <2>5
      <4>. QED  BY <2>2, <4>1 DEF Comes
    <3>. QED  BY <2>2, <3>1, <3>2
  <2>6. CASE ~(l >= r)
    <3> DEFINE i == Middle(l, r)
    <3>1. /\ i \in Nat /\ l <= i /\ i < r /\ i + 1 \in 1 .. n /\ i \in 0 .. n /\ i + 1 \in 0 .. n
      BY <1>1, <2>6, MiddleIs DEF Bounds
    <3>2. find[<<l, r>>] = IF K[i + 1] = k THEN i
                           ELSE IF Comes(cmp, k, K[i + 1]) THEN find[<<l, i>>] ELSE find[<<i + 1, r>>]
      <4>1. Turn(s, k, find, <<l, r>>) =
              IF KeyOf[s[i + 1]] = k THEN i
              ELSE IF Comes(cmp, k, KeyOf[s[i + 1]]) THEN find[<<l, i>>] ELSE find[<<i + 1, r>>]
        BY <2>4, <2>6 DEF Turn, Middle
      <4>2. K[i + 1] = KeyOf[s[i + 1]]
        BY <1>1, <3>1
      <4>. QED  BY <2>3, <4>1, <4>2
    <3>. HIDE DEF i, K
    <3>3. K[i + 1] # k
      <4>1. SUFFICES ASSUME K[i + 1] = k PROVE Right(i)
        BY <2>2, <3>2
      <4>. QED  BY <1>1, <3>1, <4>1
    <3>4. CASE Comes(cmp, k, K[i + 1])
      <4>1. find[<<l, r>>] = find[<<l, i>>]
        BY <3>2, <3>3, <3>4
      <4>2. Outside(l, i)
        <5>1. ASSUME NEW j \in 1 .. n, j > i PROVE Comes(cmp, k, K[j])
          <6>1. CASE j = i + 1
            BY <3>4, <6>1
          <6>2. CASE j # i + 1
            <7>1. i + 1 < j
              BY <3>1, <5>1, <6>2
            <7>2. ~Comes(cmp, K[j], K[i + 1]) /\ K[j] \in Nat /\ K[i + 1] \in Nat
              BY <1>1, <3>1, <7>1
            <7>. QED  BY <3>4, <7>2 DEF Comes
          <6>. QED  BY <6>1, <6>2
        <5>. QED  BY <2>2, <5>1
      <4>3. i - l \in Nat /\ i - l < m
        BY <2>2, <3>1
      <4>4. i - l \in Bad
        <5>1. l <= i /\ i - l = i - l /\ Outside(l, i) /\ ~Right(find[<<l, i>>])
          BY <2>2, <3>1, <4>1, <4>2
        <5>. HIDE DEF Outside, Right
        <5>. QED  BY <3>1, <4>3, <5>1
      <4>. HIDE DEF Bad
      <4>. QED  BY <2>1, <2>2, <4>3, <4>4
    <3>5. CASE ~Comes(cmp, k, K[i + 1])
      <4>1. find[<<l, r>>] = find[<<i + 1, r>>]
        BY <3>2, <3>3, <3>5
      <4>2. Outside(i + 1, r)
        <5>1. ASSUME NEW j \in 1 .. n, j <= i + 1 PROVE Comes(cmp, K[j], k)
          <6>1. CASE j = i + 1
            <7>1. K[i + 1] \in Nat
              BY <1>1, <3>1
            <7>. QED  BY <3>3, <3>5, <6>1, <7>1 DEF Comes
          <6>2. CASE j # i + 1
            <7>1. j < i + 1
              BY <3>1, <5>1, <6>2
            <7>2. ~Comes(cmp, K[i + 1], K[j]) /\ K[j] \in Nat /\ K[i + 1] \in Nat
              BY <1>1, <3>1, <7>1
            <7>. QED  BY <3>3, <3>5, <7>2 DEF Comes
          <6>. QED  BY <6>1, <6>2
        <5>. QED  BY <2>2, <5>1
      <4>3. r - (i + 1) \in Nat /\ r - (i + 1) < m
        BY <2>2, <3>1
      <4>4. r - (i + 1) \in Bad
        <5>1. i + 1 <= r /\ Outside(i + 1, r) /\ ~Right(find[<<i + 1, r>>])
          BY <2>2, <3>1, <4>1, <4>2
        <5>. HIDE DEF Outside, Right
        <5>. QED  BY <3>1, <4>3, <5>1
      <4>. HIDE DEF Bad
      <4>. QED  BY <2>1, <2>2, <4>3, <4>4
    <3>. QED  BY <3>4, <3>5
  <2>. QED  BY <2>5, <2>6
<1>3. Outside(0, n)
  BY <1>1
<1>4. Right(find[<<0, n>>])
  <2>1. SUFFICES ASSUME ~Right(find[<<0, n>>]) PROVE n \in Bad
    BY <1>2
  <2>2. 0 \in 0 .. n /\ n \in 0 .. n /\ 0 <= n /\ n - 0 = n /\ n \in Nat
    BY <1>1
  <2>. HIDE DEF Outside, Right
  <2>. QED  BY <1>3, <2>1, <2>2
<1>5. Bsearch(s, k) = find[<<0, n>>]
  BY <1>0
<1>6. Right(Bsearch(s, k))
  <2>. HIDE DEF Right
  <2>. QED  BY <1>4, <1>5
<1>7. ASSUME NEW v, Right(v)
      PROVE  \/ v = -1 /\ \A i \in 1 .. n : KeyOf[s[i]] # k
             \/ v \in 0 .. n - 1 /\ KeyOf[s[v + 1]] = k
  <2>1. CASE v = -1 /\ \A i \in 1 .. n : K[i] # k
    BY <2>1
  <2>2. CASE v \in 0 .. n - 1 /\ K[v + 1] = k
    <3>1. v + 1 \in 1 .. n
      BY <1>1, <2>2
    <3>. QED  BY <2>2, <3>1
  <2>. QED  BY <1>7, <2>1, <2>2
<1>. QED
  <2>. HIDE DEF Right
  <2>. QED  BY <1>6, <1>7

\* n_array_bsearch_idx gives the first of them.
LEMMA FirstIs ==
  ASSUME NEW s \in Seq(Data), cmp \in {"up", "down"}, InOrder(cmp, s), NEW k \in Nat
  PROVE  \/ First(s, k) = -1 /\ \A i \in 1 .. Len(s) : KeyOf[s[i]] # k
         \/ /\ First(s, k) \in 0 .. Len(s) - 1 /\ KeyOf[s[First(s, k) + 1]] = k
            /\ \A j \in 1 .. Len(s) : KeyOf[s[j]] = k => First(s, k) + 1 <= j
<1> DEFINE n == Len(s)
           found == Bsearch(s, k)
           Same(i) == \A j \in i .. found : KeyOf[s[j + 1]] = k
           Begins(i) == i > 0 => KeyOf[s[i]] # k
<1>1. CASE found = -1
  <2>1. First(s, k) = -1
    BY <1>1 DEF First
  <2>. QED  BY <1>1, <2>1, BsearchIs
<1>2. CASE found # -1
  <2>1. n \in Nat /\ found \in 0 .. n - 1 /\ KeyOf[s[found + 1]] = k
    BY <1>2, BsearchIs
  <2>2. First(s, k) = CHOOSE i \in 0 .. found : Same(i) /\ Begins(i)
    BY <1>2 DEF First
  <2>. HIDE DEF found
  <2>3. \E i \in 0 .. found : Same(i) /\ Begins(i)
    <3> DEFINE T == {i \in 0 .. found : Same(i)}
    <3>1. T \in SUBSET Nat /\ found \in T
      BY <2>1
    <3>2. PICK i \in T : \A j \in T : i <= j
      <4>. HIDE DEF T
      <4>. QED  BY <3>1, LeastElement
    <3>3. ASSUME i > 0, KeyOf[s[i]] = k PROVE FALSE
      <4>1. i \in Nat /\ i - 1 \in 0 .. found /\ ~(i <= i - 1)
        BY <2>1, <3>2, <3>3
      <4>2. ASSUME NEW j \in (i - 1) .. found PROVE KeyOf[s[j + 1]] = k
        <5>1. j = i - 1 \/ j \in i .. found
          BY <2>1, <4>1
        <5>2. (i - 1) + 1 = i
          BY <4>1
        <5>. QED  BY <3>2, <3>3, <5>1, <5>2
      <4>3. i - 1 \in T
        BY <4>1, <4>2
      <4>. HIDE DEF T
      <4>. QED  BY <3>2, <4>1, <4>3
    <3>. QED  BY <3>2, <3>3
  <2>4. PICK i \in 0 .. found : First(s, k) = i /\ Same(i) /\ Begins(i)
    <3>. HIDE DEF Same, Begins
    <3>. QED  BY <2>2, <2>3
  <2>5. i \in Nat /\ i \in 0 .. n - 1 /\ KeyOf[s[i + 1]] = k
    BY <2>1, <2>4
  <2>6. ASSUME NEW j \in 1 .. n, KeyOf[s[j]] = k PROVE i + 1 <= j
    <3>1. SUFFICES ASSUME j < i + 1 PROVE FALSE
      BY <2>5
    <3>2. i > 0 /\ j <= i /\ i \in 1 .. n /\ KeyOf[s[i]] # k /\ j # i
      BY <2>1, <2>4, <2>5, <2>6, <3>1
    <3>3. j < i /\ i < i + 1 /\ i + 1 \in 1 .. n /\ DOMAIN s = 1 .. n
      BY <2>1, <2>5, <3>2
    <3>4. /\ ~Comes(cmp, KeyOf[s[i]], KeyOf[s[j]])
          /\ ~Comes(cmp, KeyOf[s[i + 1]], KeyOf[s[i]])
      BY <3>2, <3>3 DEF InOrder
    <3>5. ~Comes(cmp, KeyOf[s[i]], k) /\ ~Comes(cmp, k, KeyOf[s[i]])
      BY <2>5, <2>6, <3>4
    <3>6. KeyOf[s[i]] \in Nat
      BY <3>2, <3>3, ArrayAssumption
    <3>. QED  BY <3>2, <3>5, <3>6 DEF Comes
  <2>. QED  BY <2>4, <2>5, <2>6
<1>. QED  BY <1>1, <1>2

-----------------------------------------------------------------------------
(***************************************************************************)
(* The array is a sequence                                                 *)
(***************************************************************************)
ItemsOK ==
  /\ Items \in Seq(Data \cup {NULL}) /\ Len(Items) = size /\ DOMAIN Items = 1 .. size
  /\ alloc \in Nat /\ size \in Nat /\ start \in Nat /\ start + size <= alloc /\ alloc >= 1
  /\ \A i \in 1 .. size : start + i - 1 \in Cells /\ Items[i] = data[start + i - 1]

\* The items are a sequence of data, as ItemSeq takes them.
LEMMA ItemsAreOK == IndInv => ItemsOK
<1>1. SUFFICES ASSUME IndInv PROVE ItemsOK
  OBVIOUS
<1>2. /\ alloc \in Nat /\ size \in Nat /\ start \in Nat /\ start + size <= alloc /\ alloc >= 1
      /\ \A c \in Cells : data[c] \in Data \cup {NULL}
  BY <1>1, CellFacts
<1>3. /\ DOMAIN Items = 1 .. size
      /\ \A i \in 1 .. size : start + i - 1 \in Cells /\ Items[i] = data[start + i - 1]
  BY <1>1, ItemFacts
<1>4. Items \in Seq(Data \cup {NULL})
  <2>1. \A i \in 1 .. size : data[start + i - 1] \in Data \cup {NULL}
    BY <1>2, <1>3
  <2>. QED  BY <1>2, <2>1 DEF Items
<1>5. Len(Items) = size
  BY <1>2, <1>3, <1>4
<1>. QED  BY <1>2, <1>3, <1>4, <1>5 DEF ItemsOK

LEMMA ItemsAreOKNext == IndInv' => ItemsOK'
BY ItemsAreOK, PTL

\* Where the items of the array are found after a step.
LEMMA ItemsAre ==
  ASSUME ItemsOK', NEW D, NEW s \in Seq(D), Len(s) = size',
         \A i \in 1 .. size' : data'[start' + i - 1] = s[i]
  PROVE  Items' = s
<1>1. Items' \in Seq(Data \cup {NULL}) /\ Len(Items') = Len(s) /\ size' \in Nat
  BY DEF ItemsOK
<1>2. \A i \in 1 .. Len(s) : Items'[i] = s[i]
  BY DEF ItemsOK
<1>. QED  BY <1>1, <1>2, SeqEqual

\* A call that leaves the cells alone leaves the items alone.
LEMMA SameItems ==
  ASSUME UNCHANGED cells
  PROVE  Items' = Items /\ Cells' = Cells
BY DEF cells, Items, Cells

\* What a call answers, and when it may go on, is what ItemSeq says:
\* one lemma for each test the calls share.
LEMMA HasRoomIs ==
  ASSUME ItemsOK, NEW n \in Int
  PROVE  Order!HasRoom(n) <=> (const => size + n <= alloc)
BY DEF ItemsOK, Order!HasRoom

LEMMA LooksIs ==
  ASSUME UNCHANGED <<cells, const, frozen, hooked>>, NEW name, NEW arg, call' = <<name, arg>>
  PROVE  Order!Looks(name, arg)
<1>1. Items' = Items /\ alloc' = alloc
  BY SameItems DEF cells
<1>. QED  BY <1>1 DEF Order!Looks, Order!Called

LEMMA DieIs ==
  ASSUME Die, NEW name, NEW arg, call' = <<name, arg>>
  PROVE  Order!Looks(name, arg) /\ res' = Order!Refused
<1>1. UNCHANGED <<cells, const, frozen, hooked>> /\ res' = Refused
  BY DEF Die, flags, Return
<1>. QED  BY <1>1, LooksIs DEF Refused, Order!Refused, Val, Order!Val

LEMMA WritesIs ==
  ASSUME NEW name, NEW arg, Writes(name, arg), UNCHANGED flags, const => alloc' = alloc
  PROVE  Order!Writes(name, arg)
BY DEF Writes, Reads, flags, Order!Writes, Order!Called

LEMMA WelcomeIs ==
  ASSUME ItemsOK, NEW d
  PROVE  Order!Welcome(d) <=> (const => size + 1 <= alloc)
BY HasRoomIs DEF Order!Welcome

-----------------------------------------------------------------------------
(***************************************************************************)
(* n_array_push, n_array_unshift, n_array_concat, n_array_set_nth          *)
(***************************************************************************)
\* An item is in the cell at its place, and is a datum or NULL.
LEMMA ItemAt ==
  ASSUME ItemsOK, NEW i \in 1 .. size
  PROVE  /\ Items[i] = data[start + i - 1] /\ Items[i] \in Data \cup {NULL}
         /\ start + i - 1 \in Cells /\ start \in Nat /\ size \in Nat
BY DEF ItemsOK

\* A sequence with one item more.
LEMMA OneAppended ==
  ASSUME NEW S, NEW q \in Seq(S), NEW d \in S
  PROVE  /\ Append(q, d) \in Seq(S) /\ Len(Append(q, d)) = Len(q) + 1
         /\ \A i \in 1 .. Len(q) + 1 : Append(q, d)[i] = IF i <= Len(q) THEN q[i] ELSE d
<1>1. Len(q) \in Nat
  OBVIOUS
<1>2. ASSUME NEW i \in 1 .. Len(q) + 1 PROVE Append(q, d)[i] = IF i <= Len(q) THEN q[i] ELSE d
  <2>1. i <= Len(q) => i \in 1 .. Len(q)
    BY <1>1
  <2>2. ~(i <= Len(q)) => i = Len(q) + 1
    BY <1>1
  <2>. QED  BY <2>1, <2>2, AppendProperties
<1>. QED  BY <1>2, AppendProperties

LEMMA PushRefined ==
  ASSUME Misuse = {}, IndInv, IndInv', NEW d \in Data, Push(d)
  PROVE  Order!Refuse \/ Order!Push(d)
<1>1. ItemsOK /\ ItemsOK' /\ Writes("push", d) /\ call' = <<"push", d>>
  BY ItemsAreOK, ItemsAreOKNext DEF Push, Writes, Reads
<1>2. CASE size = alloc /\ const
  <2>1. Die
    BY <1>2 DEF Push, Avoids
  <2>2. Order!Looks("push", d) /\ res' = Order!Refused
    BY <1>1, <2>1, DieIs
  <2>3. ~Order!Welcome(d)
    BY <1>1, <1>2, WelcomeIs DEF ItemsOK
  <2>. QED  BY <2>2, <2>3 DEF Order!Refuse
<1>3. CASE ~(size = alloc /\ const)
  <2> DEFINE put == [c \in {start + size} |-> d]
  <2>1. /\ Room(1) <= MaxAlloc /\ start + size < Room(1) /\ Store(Room(1), put)
        /\ size' = size + 1 /\ start' = start /\ Takes({d}) /\ Return(Ok)
    BY <1>3 DEF Push, Avoids
  <2>2. TypeOK /\ Room(1) \in Nat
    BY <2>1, RoomFits DEF IndInv
  <2>3. /\ alloc' = Room(1) /\ Cells' = 0 .. Room(1) - 1
        /\ \A c \in Cells' : c \in DOMAIN put => data'[c] = put[c]
        /\ \A c \in Cells' : c \notin DOMAIN put /\ c \in Cells => data'[c] = data[c]
    BY <2>1, <2>2, Stores
  <2>4. DOMAIN put = {start + size} /\ put[start + size] = d
    OBVIOUS
  <2>. HIDE DEF put
  <2>5. const => alloc' = alloc /\ size + 1 <= alloc
    BY <1>1, <1>3, <2>3 DEF ItemsOK, Room
  <2>6. Items' = Append(Items, d)
    <3> DEFINE s == Append(Items, d)
    <3>1. /\ s \in Seq(Data \cup {NULL}) /\ Len(s) = size'
          /\ \A i \in 1 .. size' : s[i] = IF i <= size THEN Items[i] ELSE d
      <4>1. Items \in Seq(Data \cup {NULL}) /\ Len(Items) = size /\ d \in Data \cup {NULL}
        BY <1>1 DEF ItemsOK
      <4>2. /\ s \in Seq(Data \cup {NULL}) /\ Len(s) = size + 1
            /\ \A i \in 1 .. size + 1 : s[i] = IF i <= size THEN Items[i] ELSE d
        BY <4>1, OneAppended
      <4>. QED  BY <2>1, <4>2
    <3>. HIDE DEF s
    <3>2. ASSUME NEW i \in 1 .. size' PROVE data'[start' + i - 1] = s[i]
      <4>1. start + i - 1 \in Cells' /\ start' = start
        BY <1>1, <2>1 DEF ItemsOK
      <4>2. CASE i <= size
        <5>1. i \in 1 .. size
          BY <2>1, <4>2
        <5>2. start + i - 1 \in Cells /\ Items[i] = data[start + i - 1] /\ start \in Nat /\ size \in Nat
          BY <1>1, <5>1, ItemAt
        <5>3. start + i - 1 # start + size
          BY <5>1, <5>2
        <5>. QED  BY <2>3, <2>4, <3>1, <4>1, <4>2, <5>2, <5>3
      <4>3. CASE ~(i <= size)
        <5>1. start \in Nat /\ size \in Nat
          BY <1>1 DEF ItemsOK
        <5>2. i = size + 1
          BY <2>1, <4>3, <5>1
        <5>3. start + i - 1 = start + size
          BY <5>1, <5>2
        <5>. QED  BY <2>3, <2>4, <3>1, <4>1, <4>3, <5>3
      <4>. QED  BY <4>2, <4>3
    <3>3. Items' = s
      BY <1>1, <3>1, <3>2, ItemsAre
    <3>. QED  BY <3>3 DEF s
  <2>7. Order!Writes("push", d) /\ Order!Welcome(d) /\ res' = Order!Ok
    BY <1>1, <2>1, <2>5, WritesIs, WelcomeIs DEF Takes, Return, Ok, Order!Ok
  <2>. QED  BY <2>6, <2>7 DEF Order!Push
<1>. QED  BY <1>2, <1>3

\* n_array_unshift puts one item before the others.
LEMMA UnshiftRefined ==
  ASSUME IndInv, IndInv', NEW d \in Data, Unshift(d)
  PROVE  Order!Refuse \/ Order!Unshift(d)
<1>1. ItemsOK /\ ItemsOK' /\ Writes("unshift", d) /\ call' = <<"unshift", d>> /\ TypeOK
  BY ItemsAreOK, ItemsAreOKNext DEF Unshift, Writes, Reads, IndInv
<1>2. ASSUME size' = size + 1, data'[start'] = d,
             \A i \in 1 .. size : data'[start' + i] = data[start + i - 1]
      PROVE  Items' = <<d>> \o Items
  <2> DEFINE s == <<d>> \o Items
  <2>1. /\ s \in Seq(Data \cup {NULL}) /\ Len(s) = size'
        /\ \A i \in 1 .. size' : s[i] = IF i = 1 THEN d ELSE Items[i - 1]
    <3>1. <<d>> \in Seq(Data \cup {NULL}) /\ Len(<<d>>) = 1 /\ <<d>>[1] = d
      OBVIOUS
    <3>2. /\ s \in Seq(Data \cup {NULL}) /\ Len(s) = Len(<<d>>) + Len(Items)
          /\ \A i \in 1 .. Len(<<d>>) + Len(Items) :
               s[i] = IF i <= Len(<<d>>) THEN <<d>>[i] ELSE Items[i - Len(<<d>>)]
      BY <1>1, <3>1, ConcatProperties DEF ItemsOK
    <3>3. \A i \in 1 .. size' : i \in 1 .. 1 + size /\ (i <= 1 <=> i = 1)
      BY <1>1, <1>2 DEF ItemsOK
    <3>. HIDE DEF s
    <3>. QED  BY <1>1, <1>2, <3>1, <3>2, <3>3 DEF ItemsOK
  <2>. HIDE DEF s
  <2>2. ASSUME NEW i \in 1 .. size' PROVE data'[start' + i - 1] = s[i]
    <3>1. start' \in Nat /\ size \in Nat
      BY <1>1 DEF ItemsOK
    <3>2. CASE i = 1
      <4>1. start' + 1 - 1 = start'
        <5>1. \A n \in Nat : n + 1 - 1 = n
          OBVIOUS
        <5>. QED  BY <3>1, <5>1
      <4>2. data'[start' + 1 - 1] = d /\ s[i] = d
        BY <1>2, <2>1, <3>2, <4>1
      <4>. QED  BY <3>2, <4>2, Zenon
    <3>3. CASE i # 1
      <4>1. i - 1 \in 1 .. size /\ start' + (i - 1) = start' + i - 1
        BY <1>2, <3>1, <3>3
      <4>2. Items[i - 1] = data[start + (i - 1) - 1]
        BY <1>1, <4>1 DEF ItemsOK
      <4>3. data'[start' + (i - 1)] = data[start + (i - 1) - 1]
        BY <1>2, <4>1
      <4>. QED  BY <2>1, <3>3, <4>1, <4>2, <4>3
    <3>. QED  BY <3>2, <3>3
  <2>3. Items' = s
    BY <1>1, <2>1, <2>2, ItemsAre
  <2>. QED  BY <2>3 DEF s
<1>3. ASSUME UNCHANGED flags, Return(Ok), Items' = <<d>> \o Items,
             const => alloc' = alloc /\ size + 1 <= alloc
      PROVE  Order!Unshift(d)
  <2>1. Order!Writes("unshift", d) /\ Order!Welcome(d) /\ res' = Order!Ok
    BY <1>1, <1>3, WritesIs, WelcomeIs DEF Return, Ok, Order!Ok
  <2>. QED  BY <1>3, <2>1 DEF Order!Unshift
<1>4. CASE start > 0
  <2> DEFINE put == [c \in {start - 1} |-> d]
  <2>1. /\ Store(alloc, put) /\ start' = start - 1 /\ size' = size + 1 /\ Takes({d}) /\ Return(Ok)
    BY <1>4 DEF Unshift
  <2>2. alloc \in Nat
    BY <1>1 DEF ItemsOK
  <2>3. /\ alloc' = alloc /\ Cells' = 0 .. alloc - 1
        /\ \A c \in Cells' : c \in DOMAIN put => data'[c] = put[c]
        /\ \A c \in Cells' : c \notin DOMAIN put /\ c \in Cells => data'[c] = data[c]
    BY <1>1, <2>1, <2>2, Stores
  <2>4. DOMAIN put = {start - 1} /\ put[start - 1] = d
    OBVIOUS
  <2>. HIDE DEF put
  <2>5. data'[start'] = d
    <3>1. start - 1 \in Cells'
      BY <1>1, <1>4, <2>3 DEF ItemsOK
    <3>. QED  BY <2>1, <2>3, <2>4, <3>1
  <2>6. ASSUME NEW i \in 1 .. size PROVE data'[start' + i] = data[start + i - 1]
    <3>1. start' + i = start + i - 1 /\ start + i - 1 # start - 1 /\ start + i - 1 \in Cells'
          /\ start + i - 1 \in Cells
      BY <1>1, <2>1, <2>3 DEF ItemsOK, Cells
    <3>. QED  BY <2>3, <2>4, <3>1
  <2>7. Items' = <<d>> \o Items
    BY <1>2, <2>1, <2>5, <2>6
  <2>8. size + 1 <= alloc
    BY <1>1, <1>4 DEF ItemsOK
  <2>. QED  BY <1>3, <2>1, <2>3, <2>7, <2>8 DEF Takes
<1>5. CASE ~(start > 0) /\ size = alloc /\ const
  <2>1. Die
    BY <1>5 DEF Unshift
  <2>2. Order!Looks("unshift", d) /\ res' = Order!Refused
    BY <1>1, <2>1, DieIs
  <2>3. ~Order!Welcome(d)
    BY <1>1, <1>5, WelcomeIs DEF ItemsOK
  <2>. QED  BY <2>2, <2>3 DEF Order!Refuse
<1>6. CASE ~(start > 0) /\ ~(size = alloc /\ const)
  <2> DEFINE put == [c \in 0 .. size |-> IF c = 0 THEN d ELSE MovedUp(size)[c]]
  <2>1. /\ Room(1) <= MaxAlloc /\ Store(Room(1), put)
        /\ size' = size + 1 /\ start' = start /\ Takes({d}) /\ Return(Ok)
    BY <1>6 DEF Unshift
  <2>2. Room(1) \in Nat /\ start = 0 /\ size \in Nat /\ size + 1 <= Room(1)
    BY <1>1, <1>6, <2>1, RoomFits DEF ItemsOK
  <2>3. /\ alloc' = Room(1) /\ Cells' = 0 .. Room(1) - 1
        /\ \A c \in Cells' : c \in DOMAIN put => data'[c] = put[c]
    BY <1>1, <2>1, <2>2, Stores
  <2>4. /\ DOMAIN put = 0 .. size /\ put[0] = d
        /\ \A i \in 1 .. size : put[i] = data[i - 1]
    BY <2>2 DEF MovedUp
  <2>. HIDE DEF put
  <2>5. const => alloc' = alloc /\ size + 1 <= alloc
    BY <1>1, <1>6, <2>3 DEF ItemsOK, Room
  <2>6. data'[start'] = d
    <3>1. 0 \in Cells' /\ 0 \in 0 .. size
      BY <2>2, <2>3
    <3>. QED  BY <2>1, <2>2, <2>3, <2>4, <3>1
  <2>7. ASSUME NEW i \in 1 .. size PROVE data'[start' + i] = data[start + i - 1]
    <3>1. start' + i = i /\ start + i - 1 = i - 1 /\ i \in Cells' /\ i \in 0 .. size
      BY <2>1, <2>2, <2>3
    <3>. QED  BY <2>3, <2>4, <3>1
  <2>8. Items' = <<d>> \o Items
    BY <1>2, <2>1, <2>6, <2>7
  <2>. QED  BY <1>3, <2>1, <2>5, <2>8 DEF Takes
<1>. QED  BY <1>4, <1>5, <1>6

\* n_array_concat_ex appends copies of the items.
LEMMA ConcatRefined ==
  ASSUME Misuse = {}, IndInv, IndInv', NEW s \in Rows, Concat(s)
  PROVE  Order!Refuse \/ Order!Concat(s)
<1>1. /\ ItemsOK /\ ItemsOK' /\ Writes("concat", s) /\ call' = <<"concat", s>> /\ TypeOK
      /\ start = 0 /\ s \in Seq(Data) /\ Len(s) \in Nat
  BY ItemsAreOK, ItemsAreOKNext, ArrayAssumption DEF Concat, Writes, Reads, Avoids, IndInv
<1>2. CASE size + Len(s) > alloc /\ const
  <2>1. Die
    BY <1>2 DEF Concat
  <2>2. Order!Looks("concat", s) /\ res' = Order!Refused
    BY <1>1, <2>1, DieIs
  <2>3. ~Order!HasRoom(Len(s))
    BY <1>1, <1>2, HasRoomIs DEF ItemsOK
  <2>. QED  BY <2>2, <2>3 DEF Order!Refuse
<1>3. CASE ~(size + Len(s) > alloc /\ const)
  <2> DEFINE n == Room(Len(s))
             end == start + size + Len(s)
             put == [c \in start + size .. end - 1 |-> s[c - start - size + 1]]
  <2>1. n <= MaxAlloc /\ n \in Nat /\ end <= n /\ end = size + Len(s)
    <3>1. n <= MaxAlloc
      BY <1>3 DEF Concat
    <3>. QED  BY <1>1, <3>1, RoomFits DEF ItemsOK
  <2>2. Store(n, put) /\ size' = end /\ start' = start /\ Takes(Range(s)) /\ Return(Ok)
    BY <1>3, <2>1 DEF Concat
  <2>3. /\ alloc' = n /\ Cells' = 0 .. n - 1
        /\ \A c \in Cells' : c \in DOMAIN put => data'[c] = put[c]
        /\ \A c \in Cells' : c \notin DOMAIN put /\ c \in Cells => data'[c] = data[c]
    <3>. HIDE DEF n, put
    <3>. QED  BY <1>1, <2>1, <2>2, Stores
  <2>4. /\ DOMAIN put = size .. end - 1
        /\ \A c \in size .. end - 1 : put[c] = s[c - size + 1]
    BY <1>1, <2>1 DEF ItemsOK
  <2>. HIDE DEF put
  <2>5. const => alloc' = alloc /\ size + Len(s) <= alloc
    BY <1>1, <1>3, <2>3 DEF ItemsOK, Room
  <2>6. Items' = Items \o s
    <3> DEFINE t == Items \o s
    <3>1. /\ t \in Seq(Data \cup {NULL}) /\ Len(t) = size'
          /\ \A i \in 1 .. size' : t[i] = IF i <= size THEN Items[i] ELSE s[i - size]
      <4>1. s \in Seq(Data \cup {NULL})
        BY <1>1
      <4>2. /\ t \in Seq(Data \cup {NULL}) /\ Len(t) = Len(Items) + Len(s)
            /\ \A i \in 1 .. Len(Items) + Len(s) :
                 t[i] = IF i <= Len(Items) THEN Items[i] ELSE s[i - Len(Items)]
        BY <1>1, <4>1, ConcatProperties DEF ItemsOK
      <4>. HIDE DEF t
      <4>. QED  BY <1>1, <2>1, <2>2, <4>2 DEF ItemsOK
    <3>. HIDE DEF t
    <3>2. ASSUME NEW i \in 1 .. size' PROVE data'[start' + i - 1] = t[i]
      <4>1. start' + i - 1 = i - 1 /\ i - 1 \in Cells' /\ size \in Nat
        BY <1>1, <2>1, <2>2, <2>3 DEF ItemsOK
      <4>2. CASE i <= size
        <5>1. i \in 1 .. size /\ i - 1 \notin size .. end - 1 /\ start + i - 1 = i - 1
          BY <1>1, <2>1, <2>2, <4>2 DEF ItemsOK
        <5>2. i - 1 \in Cells /\ Items[i] = data[i - 1]
          BY <1>1, <5>1 DEF ItemsOK
        <5>. QED  BY <2>3, <2>4, <3>1, <4>1, <4>2, <5>1, <5>2
      <4>3. CASE ~(i <= size)
        <5>1. i - 1 \in size .. end - 1 /\ (i - 1) - size + 1 = i - size
          BY <1>1, <2>1, <2>2, <4>3 DEF ItemsOK
        <5>. QED  BY <2>3, <2>4, <3>1, <4>1, <4>3, <5>1
      <4>. QED  BY <4>2, <4>3
    <3>3. Items' = t
      BY <1>1, <3>1, <3>2, ItemsAre
    <3>. QED  BY <3>3 DEF t
  <2>7. Order!Writes("concat", s) /\ Order!HasRoom(Len(s)) /\ res' = Order!Ok
    BY <1>1, <2>2, <2>5, WritesIs, HasRoomIs DEF Takes, Return, Ok, Order!Ok
  <2>. QED  BY <2>6, <2>7 DEF Order!Concat
<1>. QED  BY <1>2, <1>3

\* n_array_set_nth replaces an item, or appends NULLs and one.
LEMMA SetNthRefined ==
  ASSUME Misuse = {}, IndInv, IndInv', NEW i \in Places, NEW d \in Data, SetNth(i, d)
  PROVE  Order!Refuse \/ Order!SetNth(i, d)
<1> DEFINE pos == start + i
           last == IF i < size THEN size ELSE i + 1
           s == [j \in 1 .. last |-> IF j = i + 1 THEN d ELSE IF j > size THEN NULL ELSE Items[j]]
<1>1. /\ ItemsOK /\ ItemsOK' /\ Writes("set_nth", <<i, d>>) /\ call' = <<"set_nth", <<i, d>>>> /\ TypeOK
      /\ i \in Nat /\ (i < size \/ (start = 0 /\ i > alloc))
  BY ItemsAreOK, ItemsAreOKNext, ArrayAssumption DEF SetNth, Writes, Reads, Avoids, IndInv
<1>2. Order!HasRoom(i + 1 - Len(Items)) <=> (const => i + 1 <= alloc)
  <2>1. i + 1 - Len(Items) \in Int /\ size + (i + 1 - Len(Items)) = i + 1
    BY <1>1 DEF ItemsOK
  <2>. QED  BY <1>1, <2>1, HasRoomIs
<1>3. /\ last \in Nat /\ s \in Seq(Data \cup {NULL}) /\ Len(s) = last
      /\ \A j \in 1 .. last : s[j] = IF j = i + 1 THEN d ELSE IF j > size THEN NULL ELSE Items[j]
  <2>1. last \in Nat
    BY <1>1 DEF ItemsOK
  <2>2. \A j \in 1 .. last :
          (IF j = i + 1 THEN d ELSE IF j > size THEN NULL ELSE Items[j]) \in Data \cup {NULL}
    BY <1>1 DEF ItemsOK
  <2>3. s \in Seq(Data \cup {NULL}) /\ Len(s) = last
    BY <2>1, <2>2
  <2>. QED  BY <2>1, <2>3
<1>4. ASSUME UNCHANGED flags, Return(Ok), Items' = s, const => alloc' = alloc /\ i + 1 <= alloc
      PROVE  Order!SetNth(i, d)
  <2>1. Order!Writes("set_nth", <<i, d>>) /\ Order!HasRoom(i + 1 - Len(Items)) /\ res' = Order!Ok
    BY <1>1, <1>2, <1>4, WritesIs DEF Return, Ok, Order!Ok
  <2>2. Items' = [j \in 1 .. (IF i < Len(Items) THEN Len(Items) ELSE i + 1) |->
                 IF j = i + 1 THEN d ELSE IF j > Len(Items) THEN NULL ELSE Items[j]]
    BY <1>1, <1>4 DEF ItemsOK
  <2>. QED  BY <2>1, <2>2 DEF Order!SetNth
<1>. HIDE DEF s
<1>5. CASE pos > alloc /\ const
  <2>1. Die
    BY <1>5 DEF SetNth
  <2>2. Order!Looks("set_nth", <<i, d>>) /\ res' = Order!Refused
    BY <1>1, <2>1, DieIs
  <2>3. ~Order!HasRoom(i + 1 - Len(Items))
    BY <1>1, <1>2, <1>5 DEF ItemsOK
  <2>. QED  BY <2>2, <2>3 DEF Order!Refuse
<1>6. CASE pos > alloc /\ ~const
  <2> DEFINE put == [c \in {pos} |-> d]
  <2>1. /\ CanGrow(pos) /\ Store(Grown(pos), put) /\ size' = pos + 1 /\ start' = start /\ Takes({d}) /\ Return(Ok)
    BY <1>6 DEF SetNth
  <2>2. start = 0 /\ pos = i /\ ~(i < size)
    BY <1>1, <1>6 DEF ItemsOK
  <2>3. Grown(pos) \in Nat /\ Grown(pos) > pos
    BY <1>1, <2>1, <2>2, GrownFits DEF CanGrow
  <2>4. /\ Cells' = 0 .. Grown(pos) - 1
        /\ \A c \in Cells' : c \in DOMAIN put => data'[c] = put[c]
        /\ \A c \in Cells' : c \notin DOMAIN put /\ c \in Cells => data'[c] = data[c]
        /\ \A c \in Cells' : c \notin DOMAIN put /\ c \notin Cells => data'[c] = NULL
    BY <1>1, <2>1, <2>3, Stores
  <2>5. DOMAIN put = {i} /\ put[i] = d
    BY <2>2
  <2>. HIDE DEF put
  <2>6. ASSUME NEW j \in 1 .. size' PROVE data'[start' + j - 1] = s[j]
    <3>1. start' + j - 1 = j - 1 /\ j - 1 \in Cells' /\ j \in 1 .. last /\ j \in Nat
      BY <1>1, <2>1, <2>2, <2>3, <2>4
    <3>2. CASE j = i + 1
      <4>1. j - 1 = i
        BY <1>1, <3>2
      <4>. QED  BY <1>3, <2>4, <2>5, <3>1, <3>2, <4>1
    <3>3. CASE j # i + 1 /\ j > size
      <4>1. j - 1 # i
        BY <1>1, <3>1, <3>3
      <4>2. j - 1 \in Cells => data[j - 1] = NULL
        <5>1. j - 1 \notin start .. start + size - 1
          BY <1>1, <2>2, <3>1, <3>3 DEF ItemsOK
        <5>. QED  BY <5>1, CellFacts
      <4>. QED  BY <1>3, <2>4, <2>5, <3>1, <3>3, <4>1, <4>2
    <3>4. CASE j # i + 1 /\ ~(j > size)
      <4>1. j - 1 # i /\ j \in 1 .. size
        BY <1>1, <3>1, <3>4 DEF ItemsOK
      <4>2. j - 1 \in Cells /\ Items[j] = data[j - 1]
        <5>1. start + j - 1 = j - 1
          BY <2>2, <3>1
        <5>. QED  BY <1>1, <4>1, <5>1 DEF ItemsOK
      <4>. QED  BY <1>3, <2>4, <2>5, <3>1, <3>4, <4>1, <4>2
    <3>. QED  BY <3>2, <3>3, <3>4
  <2>7. size' = last
    BY <2>1, <2>2
  <2>8. Items' = s
    <3>. HIDE DEF last
    <3>. QED  BY <1>1, <1>3, <2>6, <2>7, ItemsAre
  <2>. QED  BY <1>4, <1>6, <2>1, <2>8 DEF Takes
<1>7. CASE ~(pos > alloc)
  <2> DEFINE put == [c \in {pos} |-> d]
  <2>1. i < size /\ pos # alloc /\ pos \in Nat
    BY <1>1, <1>7 DEF ItemsOK
  <2>2. /\ Store(alloc, put) /\ size' = size /\ start' = start /\ UNCHANGED flags /\ Return(Ok)
    BY <1>7, <2>1 DEF SetNth
  <2>3. alloc \in Nat
    BY <1>1 DEF ItemsOK
  <2>4. /\ alloc' = alloc /\ Cells' = 0 .. alloc - 1
        /\ \A c \in Cells' : c \in DOMAIN put => data'[c] = put[c]
        /\ \A c \in Cells' : c \notin DOMAIN put /\ c \in Cells => data'[c] = data[c]
    BY <1>1, <2>2, <2>3, Stores
  <2>5. DOMAIN put = {pos} /\ put[pos] = d
    OBVIOUS
  <2>. HIDE DEF put
  <2>6. ASSUME NEW j \in 1 .. size' PROVE data'[start' + j - 1] = s[j]
    <3>1. start' + j - 1 = start + j - 1 /\ start + j - 1 \in Cells' /\ j \in 1 .. last /\ j \in Nat
          /\ j \in 1 .. size /\ start + j - 1 \in Cells /\ ~(j > size) /\ Items[j] = data[start + j - 1]
      BY <1>1, <2>1, <2>2, <2>4 DEF ItemsOK, Cells
    <3>2. CASE j = i + 1
      <4>1. start + j - 1 = pos
        BY <1>1, <3>2 DEF ItemsOK
      <4>. QED  BY <1>3, <2>4, <2>5, <3>1, <3>2, <4>1
    <3>3. CASE j # i + 1
      <4>1. start + j - 1 # pos
        BY <1>1, <3>1, <3>3 DEF ItemsOK
      <4>. QED  BY <1>3, <2>4, <2>5, <3>1, <3>3, <4>1
    <3>. QED  BY <3>2, <3>3
  <2>7. size' = last
    BY <2>1, <2>2
  <2>8. Items' = s
    <3>. HIDE DEF last
    <3>. QED  BY <1>1, <1>3, <2>6, <2>7, ItemsAre
  <2>9. i + 1 <= alloc
    BY <1>1, <2>1 DEF ItemsOK
  <2>. QED  BY <1>4, <2>2, <2>4, <2>8, <2>9
<1>. QED  BY <1>5, <1>6, <1>7

-----------------------------------------------------------------------------
(***************************************************************************)
(* n_array_pop, n_array_shift, n_array_remove_nth, n_array_clean           *)
(***************************************************************************)
\* The p-th item of a sequence is taken out.
Without(s, p) == [i \in 1 .. Len(s) - 1 |-> IF i < p THEN s[i] ELSE s[i + 1]]

\* Taking out the item at a place leaves the items before and behind it.
LEMMA TakenOut ==
  ASSUME NEW D, NEW s \in Seq(D), s # <<>>
  PROVE  /\ Front(s) = Without(s, Len(s)) /\ Last(s) = s[Len(s)]
         /\ Tail(s) = Without(s, 1) /\ Head(s) = s[1]
         /\ \A p \in 1 .. Len(s) : RemoveAt(s, p) = Without(s, p)
<1>1. Len(s) \in Nat /\ Len(s) # 0
  OBVIOUS
<1>2. Front(s) = Without(s, Len(s)) /\ Last(s) = s[Len(s)]
  <2>1. Front(s) = [i \in 1 .. Len(s) - 1 |-> s[i]]
    BY <1>1 DEF Front
  <2>2. \A i \in 1 .. Len(s) - 1 : (IF i < Len(s) THEN s[i] ELSE s[i + 1]) = s[i]
    BY <1>1
  <2>. QED  BY <2>1, <2>2 DEF Without, Last
<1>3. ASSUME NEW p \in 1 .. Len(s)
      PROVE  /\ Without(s, p) \in Seq(D) /\ Len(Without(s, p)) = Len(s) - 1
             /\ \A i \in 1 .. Len(s) - 1 : Without(s, p)[i] = (IF i < p THEN s[i] ELSE s[i + 1])
  <2>1. \A i \in 1 .. Len(s) - 1 : (IF i < p THEN s[i] ELSE s[i + 1]) \in D
    BY <1>1
  <2>2. Len(s) - 1 \in Nat
    BY <1>1
  <2>. QED  BY <2>1, <2>2 DEF Without
<1>4. Tail(s) = Without(s, 1) /\ Head(s) = s[1]
  <2>. DEFINE t == Tail(s)
              w == Without(s, 1)
  <2>1. t \in Seq(D) /\ Len(t) = Len(s) - 1 /\ \A i \in 1 .. Len(t) : t[i] = s[i + 1]
    BY HeadTailProperties
  <2>2. /\ w \in Seq(D) /\ Len(w) = Len(s) - 1
        /\ \A i \in 1 .. Len(s) - 1 : w[i] = (IF i < 1 THEN s[i] ELSE s[i + 1])
    BY <1>1, <1>3
  <2>. HIDE DEF t, w
  <2>3. \A i \in 1 .. Len(t) : t[i] = w[i]
    BY <1>1, <2>1, <2>2
  <2>4. t = w
    BY <2>1, <2>2, <2>3, SeqEqual
  <2>. QED  BY <1>1, <2>4 DEF t, w
<1>5. ASSUME NEW p \in 1 .. Len(s) PROVE RemoveAt(s, p) = Without(s, p)
  <2>. DEFINE a == SubSeq(s, 1, p - 1)
              b == SubSeq(s, p + 1, Len(s))
              c == a \o b
              w == Without(s, p)
  <2>1. a \in Seq(D) /\ Len(a) = p - 1 /\ \A i \in 1 .. p - 1 : a[i] = s[i]
    BY <1>1
  <2>2. b \in Seq(D) /\ Len(b) = Len(s) - p /\ \A i \in 1 .. Len(s) - p : b[i] = s[p + i]
    BY <1>1
  <2>. HIDE DEF a, b
  <2>3. /\ c \in Seq(D) /\ Len(c) = Len(a) + Len(b)
        /\ \A i \in 1 .. Len(a) + Len(b) : c[i] = IF i <= Len(a) THEN a[i] ELSE b[i - Len(a)]
    BY <2>1, <2>2, ConcatProperties
  <2>4. /\ w \in Seq(D) /\ Len(w) = Len(s) - 1
        /\ \A i \in 1 .. Len(s) - 1 : w[i] = (IF i < p THEN s[i] ELSE s[i + 1])
    BY <1>3
  <2>. HIDE DEF c, w
  <2>5. Len(c) = Len(s) - 1 /\ Len(a) + Len(b) = Len(s) - 1
    BY <1>1, <2>1, <2>2, <2>3
  <2>6. ASSUME NEW i \in 1 .. Len(c) PROVE c[i] = w[i]
    <3>1. i \in 1 .. Len(a) + Len(b) /\ i \in 1 .. Len(s) - 1
      BY <2>5
    <3>2. CASE i < p
      BY <1>1, <2>1, <2>3, <2>4, <3>1, <3>2
    <3>3. CASE ~(i < p)
      <4>1. ~(i <= Len(a)) /\ i - Len(a) \in 1 .. Len(s) - p /\ p + (i - Len(a)) = i + 1
        BY <1>1, <2>1, <3>1, <3>3
      <4>. QED  BY <2>2, <2>3, <2>4, <3>1, <3>3, <4>1
    <3>. QED  BY <3>2, <3>3
  <2>7. c = w
    BY <2>3, <2>4, <2>5, <2>6, SeqEqual
  <2>. QED  BY <2>7 DEF RemoveAt, a, b, c, w
<1>. QED  BY <1>2, <1>4, <1>5

\* The p-th item is gone, and the others are where they were or one lower.
LEMMA ItemGone ==
  ASSUME ItemsOK, ItemsOK', NEW p \in 1 .. size, size' = size - 1,
         \A i \in 1 .. size - 1 : data'[start' + i - 1] = IF i < p THEN data[start + i - 1] ELSE data[start + i]
  PROVE  /\ Items # <<>> /\ Len(Items) \in 1 .. size /\ Items' = Without(Items, p)
         /\ Items[p] = data[start + p - 1]
<1>1. size \in Nat /\ start \in Nat /\ size - 1 \in Nat /\ Len(Items) = size /\ size >= 1
  BY DEF ItemsOK
<1>2. \A i \in 1 .. size : Items[i] = data[start + i - 1] /\ Items[i] \in Data \cup {NULL}
  BY ItemAt
<1>3. ASSUME NEW i \in 1 .. size - 1
      PROVE  Without(Items, p)[i] = data'[start' + i - 1] /\ Without(Items, p)[i] \in Data \cup {NULL}
  <2>1. i \in 1 .. size /\ i + 1 \in 1 .. size /\ start + (i + 1) - 1 = start + i
    BY <1>1
  <2>2. Without(Items, p)[i] = IF i < p THEN Items[i] ELSE Items[i + 1]
    BY <1>1 DEF Without
  <2>3. Items[i] = data[start + i - 1] /\ Items[i + 1] = data[start + i]
    BY <1>2, <2>1
  <2>4. Items[i] \in Data \cup {NULL} /\ Items[i + 1] \in Data \cup {NULL}
    BY <1>2, <2>1
  <2>. QED  BY <2>2, <2>3, <2>4
<1>4. Without(Items, p) \in Seq(Data \cup {NULL}) /\ Len(Without(Items, p)) = size - 1
  <2>1. Without(Items, p) = [i \in 1 .. size - 1 |-> Without(Items, p)[i]]
    BY <1>1 DEF Without
  <2>. QED  BY <1>1, <1>3, <2>1
<1>5. Items' = Without(Items, p)
  BY <1>3, <1>4, ItemsAre
<1>. QED  BY <1>1, <1>2, <1>5

\* n_array_pop takes the last item.
LEMMA PopRefined ==
  ASSUME IndInv, IndInv', Pop
  PROVE  Order!Refuse \/ Order!Pop
<1>1. /\ ItemsOK /\ ItemsOK' /\ Writes("pop", NULL) /\ call' = <<"pop", NULL>> /\ TypeOK
  BY ItemsAreOK, ItemsAreOKNext DEF Pop, Writes, Reads, IndInv
<1>2. CASE size = 0
  <2>1. Order!Looks("pop", NULL) /\ res' = Order!Refused
    BY <1>1, <1>2, DieIs DEF Pop
  <2>2. Items = <<>>
    BY <1>1, <1>2 DEF ItemsOK
  <2>. QED  BY <2>1, <2>2 DEF Order!Refuse
<1>3. CASE size # 0
  <2> DEFINE pos == start + size - 1
             put == [c \in {pos} |-> NULL]
  <2>1. /\ Store(alloc, put) /\ size' = size - 1 /\ start' = start /\ UNCHANGED flags
        /\ res' = Val(data[pos])
    BY <1>3 DEF Pop, Gives, Return
  <2>2. alloc \in Nat /\ size \in Nat /\ start \in Nat
    BY <1>1 DEF ItemsOK
  <2>3. /\ alloc' = alloc /\ Cells' = 0 .. alloc - 1
        /\ \A c \in Cells' : c \notin DOMAIN put /\ c \in Cells => data'[c] = data[c]
    BY <1>1, <2>1, <2>2, Stores
  <2>4. ASSUME NEW i \in 1 .. size - 1 PROVE i < size /\ data'[start' + i - 1] = data[start + i - 1]
    <3>1. i < size /\ start + i - 1 # pos /\ start + i - 1 \in Cells /\ start + i - 1 \in Cells'
      BY <1>1, <2>2, <2>3 DEF ItemsOK, Cells
    <3>. QED  BY <2>1, <2>3, <3>1
  <2>5. size \in 1 .. size
    BY <1>3, <2>2
  <2>6. /\ Items # <<>> /\ Items' = Without(Items, size)
        /\ Items[size] = data[start + size - 1]
    BY <1>1, <2>1, <2>4, <2>5, ItemGone
  <2>7. Items' = Order!Front(Items) /\ Order!Last(Items) = data[pos]
    <3>1. Front(Items) = Without(Items, Len(Items)) /\ Last(Items) = Items[Len(Items)] /\ Len(Items) = size
      BY <1>1, <2>6, TakenOut DEF ItemsOK
    <3>. QED  BY <2>6, <3>1 DEF Order!Front, Front, Order!Last, Last
  <2>8. Order!Writes("pop", NULL)
    BY <1>1, <2>1, <2>3, WritesIs
  <2>. QED  BY <2>1, <2>6, <2>7, <2>8 DEF Order!Pop, Val, Order!Val
<1>. QED  BY <1>2, <1>3

\* n_array_shift takes the first item, by moving the start.
LEMMA ShiftRefined ==
  ASSUME IndInv, IndInv', Shift
  PROVE  Order!Refuse \/ Order!Shift
<1>1. /\ ItemsOK /\ ItemsOK' /\ Writes("shift", NULL) /\ call' = <<"shift", NULL>> /\ TypeOK
  BY ItemsAreOK, ItemsAreOKNext DEF Shift, Writes, Reads, IndInv
<1>2. CASE size = 0
  <2>1. Order!Looks("shift", NULL) /\ res' = Order!Refused
    BY <1>1, <1>2, DieIs DEF Shift
  <2>2. Items = <<>>
    BY <1>1, <1>2 DEF ItemsOK
  <2>. QED  BY <2>1, <2>2 DEF Order!Refuse
<1>3. CASE size # 0
  <2>1. /\ data' = [data EXCEPT ![start] = NULL] /\ size' = size - 1 /\ start' = start + 1
        /\ alloc' = alloc /\ UNCHANGED flags /\ res' = Val(data[start])
    BY <1>3 DEF Shift, Gives, Return
  <2>2. size \in Nat /\ start \in Nat /\ DOMAIN data = Cells
    BY <1>1, TypeFacts
  <2>3. ASSUME NEW i \in 1 .. size - 1 PROVE ~(i < 1) /\ data'[start' + i - 1] = data[start + i]
    <3>1. ~(i < 1) /\ start' + i - 1 = start + i /\ start + i # start /\ start + i \in Cells
      BY <1>1, <2>1, <2>2 DEF ItemsOK, Cells
    <3>. QED  BY <2>1, <2>2, <3>1
  <2>4. 1 \in 1 .. size /\ start + 1 - 1 = start
    BY <1>3, <2>2
  <2>5. /\ Items # <<>> /\ Items' = Without(Items, 1) /\ Items[1] = data[start]
    BY <1>1, <2>1, <2>3, <2>4, ItemGone
  <2>6. Items' = Tail(Items) /\ Head(Items) = data[start]
    BY <1>1, <2>5, TakenOut DEF ItemsOK
  <2>7. Order!Writes("shift", NULL)
    BY <1>1, <2>1, WritesIs
  <2>. QED  BY <2>1, <2>5, <2>6, <2>7 DEF Order!Shift, Val, Order!Val
<1>. QED  BY <1>2, <1>3

\* n_array_remove_nth takes out one item.
LEMMA RemoveNthRefined ==
  ASSUME Misuse = {}, IndInv, IndInv', NEW i \in Places, RemoveNth(i)
  PROVE  Order!Refuse \/ Order!RemoveNth(i)
<1>1. /\ ItemsOK /\ ItemsOK' /\ Writes("remove_nth", i) /\ call' = <<"remove_nth", i>> /\ TypeOK
      /\ i \in Nat
  BY ItemsAreOK, ItemsAreOKNext, ArrayAssumption DEF RemoveNth, Writes, Reads, IndInv
<1>2. CASE i >= size
  <2>1. Order!Looks("remove_nth", i) /\ res' = Order!Refused
    BY <1>1, <1>2, DieIs DEF RemoveNth
  <2>2. i >= Len(Items)
    BY <1>1, <1>2 DEF ItemsOK
  <2>. QED  BY <2>1, <2>2 DEF Order!Refuse
<1>3. CASE ~(i >= size)
  <2> DEFINE pos == start + i
  <2>1. /\ pos # size \/ i = size - 1
        /\ data' = IF pos = size THEN [data EXCEPT ![pos] = NULL, ![alloc - 1] = NULL] ELSE MovedDown(pos)
        /\ size' = size - 1 /\ start' = start /\ alloc' = alloc /\ UNCHANGED flags /\ res' = Ok
    BY <1>3 DEF RemoveNth, Gives, Return, Avoids
  <2>2. size \in Nat /\ start \in Nat /\ DOMAIN data = Cells /\ alloc \in Nat /\ Cells = 0 .. alloc - 1
        /\ start + size <= alloc
    BY <1>1, TypeFacts DEF Cells
  <2>3. ASSUME NEW j \in 1 .. size - 1
        PROVE  data'[start' + j - 1] = IF j < i + 1 THEN data[start + j - 1] ELSE data[start + j]
    <3>1. /\ start' + j - 1 = start + j - 1 /\ start + j - 1 \in Cells /\ start + j \in Cells
          /\ start + j - 1 # alloc - 1 /\ start + j - 1 + 1 = start + j
      BY <2>1, <2>2
    <3>2. CASE pos = size
      <4>1. j < i + 1 /\ start + j - 1 # pos
        BY <1>1, <2>1, <2>2, <3>2
      <4>2. data' = [data EXCEPT ![pos] = NULL, ![alloc - 1] = NULL]
        BY <2>1, <3>2
      <4>. QED  BY <2>2, <3>1, <4>1, <4>2
    <3>3. CASE pos # size
      <4>1. data'[start + j - 1] = IF start + j - 1 < pos THEN data[start + j - 1] ELSE data[start + j]
        BY <2>1, <2>2, <3>1, <3>3 DEF MovedDown
      <4>2. start + j - 1 < pos <=> j < i + 1
        BY <1>1, <2>2
      <4>. QED  BY <3>1, <4>1, <4>2
    <3>. QED  BY <3>2, <3>3
  <2>4. i + 1 \in 1 .. size
    BY <1>1, <1>3, <2>2
  <2>5. /\ Items # <<>> /\ Items' = Without(Items, i + 1)
    BY <1>1, <2>1, <2>3, <2>4, ItemGone
  <2>6. Items' = Order!RemoveAt(Items, i + 1) /\ i < Len(Items)
    <3>1. RemoveAt(Items, i + 1) = Without(Items, i + 1) /\ Len(Items) = size
      BY <1>1, <2>4, <2>5, TakenOut DEF ItemsOK
    <3>2. RemoveAt(Items, i + 1) = Order!RemoveAt(Items, i + 1)
      BY DEF Order!RemoveAt, RemoveAt
    <3>. QED  BY <1>1, <1>3, <2>2, <2>5, <3>1, <3>2
  <2>7. Order!Writes("remove_nth", i)
    BY <1>1, <2>1, WritesIs
  <2>. QED  BY <2>1, <2>6, <2>7 DEF Order!RemoveNth, Ok, Order!Ok
<1>. QED  BY <1>2, <1>3

\* n_array_clean leaves no item.
LEMMA CleanRefined ==
  ASSUME IndInv, IndInv', Clean
  PROVE  Order!Clean
<1>1. /\ ItemsOK' /\ Writes("clean", NULL) /\ call' = <<"clean", NULL>> /\ size' = 0
      /\ UNCHANGED flags /\ alloc' = alloc /\ res' = Ok
  BY ItemsAreOKNext DEF Clean, Writes, Reads, Gives, Return
<1>2. Items' = <<>>
  BY <1>1 DEF ItemsOK
<1>3. Order!Writes("clean", NULL)
  BY <1>1, WritesIs
<1>. QED  BY <1>1, <1>2, <1>3 DEF Order!Clean, Ok, Order!Ok

\* n_array_reverse turns the items over.
LEMMA ReverseRefined ==
  ASSUME Misuse = {}, IndInv, IndInv', Reverse_
  PROVE  Order!TurnOver
<1>1. /\ ItemsOK /\ ItemsOK' /\ Writes("reverse", NULL) /\ start = 0 /\ size' = size /\ start' = start
      /\ data' = [c \in Cells |-> IF c \in start .. size - 1 THEN data[start + size - 1 - c] ELSE data[c]]
      /\ alloc' = alloc /\ UNCHANGED flags /\ res' = Ok
  BY ItemsAreOK, ItemsAreOKNext DEF Reverse_, Writes, Reads, Avoids, Return
<1>2. Items' = Reverse(Items)
  <2> DEFINE s == Reverse(Items)
  <2>1. s = [i \in 1 .. size |-> Items[size - i + 1]]
    BY <1>1 DEF Reverse, ItemsOK
  <2>2. ASSUME NEW i \in 1 .. size
        PROVE  Items[size - i + 1] \in Data \cup {NULL} /\ data'[start' + i - 1] = Items[size - i + 1]
    <3>1. /\ size - i + 1 \in 1 .. size /\ start' + i - 1 = i - 1 /\ i - 1 \in Cells
          /\ i - 1 \in start .. size - 1 /\ start + size - 1 - (i - 1) = size - i
          /\ start + (size - i + 1) - 1 = size - i
      BY <1>1 DEF ItemsOK, Cells
    <3>2. Items[size - i + 1] \in Data \cup {NULL} /\ Items[size - i + 1] = data[size - i]
      BY <1>1, <3>1 DEF ItemsOK
    <3>. QED  BY <1>1, <3>1, <3>2
  <2>3. s \in Seq(Data \cup {NULL}) /\ Len(s) = size
    <3>. HIDE DEF s
    <3>. QED  BY <1>1, <2>1, <2>2 DEF ItemsOK
  <2>4. \A i \in 1 .. size' : data'[start' + i - 1] = s[i]
    <3>. HIDE DEF s
    <3>. QED  BY <1>1, <2>1, <2>2
  <2>5. Items' = s
    <3>. HIDE DEF s
    <3>. QED  BY <1>1, <2>3, <2>4, ItemsAre
  <2>. QED  BY <2>5
<1>3. Order!Writes("reverse", NULL)
  BY <1>1, WritesIs
<1>. QED  BY <1>1, <1>2, <1>3 DEF Order!TurnOver, Reverse, Order!Reverse, Ok, Order!Ok

-----------------------------------------------------------------------------
(***************************************************************************)
(* n_array_remove_ex, n_array_uniq                                         *)
(***************************************************************************)
\* What is listed of the first ones of I is listed of I first.
LEMMA FirstListed ==
  ASSUME NEW I \in SUBSET Nat, IsFiniteSet(I), NEW n \in Nat,
         NEW F, \A i : i \in F <=> i \in I /\ i <= n,
         NEW p, p = Listed(I, Less), NEW m, m = Cardinality(F)
  PROVE  /\ m \in Nat /\ Cardinality(I) \in Nat /\ m <= Cardinality(I)
         /\ \A r \in 1 .. m : r \in 1 .. Cardinality(I) /\ p[r] \in F
         /\ \A s : Only(s, F) = [r \in 1 .. m |-> s[p[r]]]
<1>. DEFINE q == Listed(F, Less)
<1>1. F \in SUBSET Nat /\ F \in SUBSET I /\ IsFiniteSet(F)
  <2>1. F \in SUBSET I
    OBVIOUS
  <2>. QED  BY <2>1, FS_Subset
<1>2. /\ Cardinality(I) \in Nat /\ Lists(p, I, Less) /\ TotalOrder(I, Less)
      /\ \A i, j \in I : <<i, j>> \in Less <=> i < j
  BY LessIsTotal, IsListed
<1>3. /\ m \in Nat /\ Lists(q, F, Less) /\ TotalOrder(F, Less)
      /\ \A s : Only(s, F) = [r \in 1 .. m |-> s[q[r]]]
  BY <1>1, LessIsTotal, IsListed, OnlyIs
<1>4. m <= Cardinality(I) /\ \A r \in 1 .. Cardinality(I) : p[r] <= n <=> r <= m
  <2>1. F = {i \in I : i <= n}
    OBVIOUS
  <2>. QED  BY <2>1, FirstOnes
<1>5. ASSUME NEW r \in 1 .. m PROVE r \in 1 .. Cardinality(I) /\ p[r] \in F /\ q[r] = p[r]
  <2>1. r \in 1 .. Cardinality(I) /\ r <= m
    BY <1>2, <1>3, <1>4
  <2>2. p[r] \in I /\ Place(I, Less, p[r]) = r
    BY <1>2, <2>1 DEF Lists
  <2>3. p[r] \in F /\ p[r] \in Nat
    BY <1>4, <2>1, <2>2
  <2>4. UpTo(F, Less, p[r]) = UpTo(I, Less, p[r])
    <3>1. ASSUME NEW j \in I, j = p[r] \/ <<j, p[r]>> \in Less PROVE j \in F
      <4>1. CASE j = p[r]
        BY <2>3, <4>1
      <4>2. CASE <<j, p[r]>> \in Less
        <5>1. j < p[r] /\ p[r] <= n /\ j \in Nat
          BY <1>2, <2>2, <2>3, <4>2
        <5>2. j <= n
          BY <2>3, <5>1
        <5>. QED  BY <5>2
      <4>. QED  BY <3>1, <4>1, <4>2
    <3>. QED  BY <1>1, <3>1 DEF UpTo
  <2>. HIDE DEF q
  <2>5. Place(F, Less, p[r]) = r
    BY <2>2, <2>4 DEF Place
  <2>6. q[r] \in F /\ Place(F, Less, q[r]) = r
    BY <1>3 DEF Lists
  <2>7. \A i, j \in F : Place(F, Less, i) = Place(F, Less, j) => i = j
    BY <1>1, <1>3, Placed
  <2>. QED  BY <2>1, <2>3, <2>5, <2>6, <2>7
<1>6. ASSUME NEW s PROVE Only(s, F) = [r \in 1 .. m |-> s[p[r]]]
  <2>. HIDE DEF q
  <2>1. Only(s, F) = [r \in 1 .. m |-> s[q[r]]]
    BY <1>3
  <2>. QED  BY <1>5, <2>1
<1>. QED  BY <1>2, <1>3, <1>4, <1>5, <1>6

\* What is in order already is listed as it is.
LEMMA ListedInOrder ==
  ASSUME NEW n \in Nat, NEW R, TotalOrder(1 .. n, R),
         \A i, j \in 1 .. n : i < j => <<i, j>> \in R
  PROVE  Cardinality(1 .. n) = n /\ \A r \in 1 .. n : Listed(1 .. n, R)[r] = r
<1>1. Cardinality(1 .. n) = n
  BY FS_Interval
<1>2. ASSUME NEW i \in 1 .. n PROVE Place(1 .. n, R, i) = i
  <2>1. ASSUME NEW j \in 1 .. n PROVE (j = i \/ <<j, i>> \in R) <=> j <= i
    <3>1. CASE j < i
      BY <3>1
    <3>2. CASE j = i
      BY <3>2
    <3>3. CASE i < j
      <4>1. <<i, j>> \in R /\ <<i, i>> \notin R
        BY <3>3 DEF TotalOrder
      <4>2. <<j, i>> \notin R
        BY <4>1 DEF TotalOrder
      <4>. QED  BY <3>3, <4>2
    <3>. QED  BY <3>1, <3>2, <3>3
  <2>2. UpTo(1 .. n, R, i) = 1 .. i
    <3>1. \A j \in 1 .. i : j \in 1 .. n /\ j <= i
      OBVIOUS
    <3>2. \A j \in 1 .. n : j <= i => j \in 1 .. i
      OBVIOUS
    <3>. QED  BY <2>1, <3>1, <3>2 DEF UpTo
  <2>3. Cardinality(1 .. i) = i
    BY FS_Interval
  <2>. QED  BY <2>2, <2>3 DEF Place
<1>3. ASSUME NEW r \in 1 .. n PROVE Listed(1 .. n, R)[r] = r
  <2>1. Listed(1 .. n, R)[r] = CHOOSE i \in 1 .. n : Place(1 .. n, R, i) = r
    BY <1>1 DEF Listed
  <2>. QED  BY <1>2, <2>1
<1>. QED  BY <1>1, <1>3

\* Nothing leaves an array in which nothing is equal.
LEMMA SameOnly ==
  ASSUME NEW s, NEW I
  PROVE  Order!Only(s, I) = Only(s, I)
BY DEF Order!Only, Order!RankIn, Order!Cardinality, Only, RankIn, Cardinality

\* A choice of the items is a sequence.
LEMMA OnlyTyped ==
  ASSUME NEW D, NEW s \in Seq(D), NEW m \in Nat, NEW p, \A r \in 1 .. m : p[r] \in 1 .. Len(s)
  PROVE  LET t == [r \in 1 .. m |-> s[p[r]]]
         IN  t \in Seq(D) /\ Len(t) = m /\ \A r \in 1 .. m : t[r] = s[p[r]]
<1>1. \A r \in 1 .. m : s[p[r]] \in D
  OBVIOUS
<1>. QED  BY <1>1

\* n_array_remove_ex leaves those that are not equal, in their order.
LEMMA OnlyFirst ==
  ASSUME NEW I \in SUBSET Nat, IsFiniteSet(I), NEW n \in Nat, NEW s,
         NEW F, \A i : i \in F <=> i \in I /\ i <= n,
         NEW p, p = Listed(I, Less), NEW m, m = Cardinality(F),
         NEW t, t = [r \in 1 .. m |-> s[p[r]]]
  PROVE  Only(s, F) = t
<1>1. Only(s, F) = [r \in 1 .. m |-> s[p[r]]]
  BY FirstListed
<1>. QED  BY <1>1

LEMMA RemoveExRefined ==
  ASSUME IndInv, IndInv', NEW k \in Keys, RemoveEx(k)
  PROVE  Order!RemoveEx(k)
<1>1. /\ ItemsOK /\ ItemsOK' /\ Writes("remove_ex", k) /\ call' = <<"remove_ex", k>> /\ res' = Ok
  BY ItemsAreOK, ItemsAreOKNext DEF RemoveEx, Writes, Reads, Return
<1>2. DOMAIN Items \ Order!Where(Items, k) = {i \in 1 .. size : ~Has(k, Items[i])}
  BY <1>1 DEF ItemsOK, Order!Where, Order!Has, Has
<1>3. alloc' = alloc /\ UNCHANGED flags
  BY DEF RemoveEx, cells, Gives
<1>4. Order!Writes("remove_ex", k)
  BY <1>1, <1>3, WritesIs
<1> DEFINE F == {i \in Staying(k) : i <= size}
           p == Listed(Staying(k), Less)
           m == Cardinality(F)
           t == [r \in 1 .. m |-> Items[p[r]]]
<1>5. /\ F = {i \in 1 .. size : ~Has(k, Items[i])}
      /\ size - Cardinality(Leaving(k)) = m /\ m \in 0 .. size
      /\ m \in Nat /\ Cardinality(Staying(k)) \in Nat /\ m <= Cardinality(Staying(k))
      /\ \A r \in 1 .. m : r \in 1 .. Cardinality(Staying(k)) /\ p[r] \in F
      /\ Only(Items, F) = t
      /\ Only(FromStart, Staying(k)) = [r \in 1 .. Cardinality(Staying(k)) |-> FromStart[p[r]]]
  <2>1. /\ Staying(k) \in SUBSET Nat /\ IsFiniteSet(Staying(k)) /\ size \in Nat
        /\ F = {i \in 1 .. size : ~Has(k, Items[i])}
        /\ size - Cardinality(Leaving(k)) = m /\ m \in 0 .. size
    BY <1>1, LeavingCount DEF ItemsOK
  <2>6. /\ Staying(k) \in SUBSET Nat /\ IsFiniteSet(Staying(k)) /\ size \in Nat
        /\ \A i : i \in F <=> i \in Staying(k) /\ i <= size
        /\ p = Listed(Staying(k), Less) /\ m = Cardinality(F) /\ t = [r \in 1 .. m |-> Items[p[r]]]
    BY <2>1
  <2>2. m \in Nat /\ Cardinality(Staying(k)) \in Nat /\ m <= Cardinality(Staying(k))
    <3>. HIDE DEF F, p, m, t
    <3>. QED  BY <2>6, FirstListed
  <2>4. \A r \in 1 .. m : r \in 1 .. Cardinality(Staying(k)) /\ p[r] \in F
    <3>. HIDE DEF F, p, m, t
    <3>. QED  BY <2>6, FirstListed
  <2>5. Only(Items, F) = t
    <3>. HIDE DEF F, p, m, t
    <3>. QED  BY <2>6, OnlyFirst
  <2>3. Only(FromStart, Staying(k)) = [r \in 1 .. Cardinality(Staying(k)) |-> FromStart[p[r]]]
    BY <2>1, OnlyIs
  <2>. QED  BY <2>1, <2>2, <2>3, <2>4, <2>5
<1>. HIDE DEF F, p, m
<1>6. ASSUME NEW r \in 1 .. m PROVE p[r] \in 1 .. size
  BY <1>5
<1>7. t \in Seq(Data \cup {NULL}) /\ Len(t) = m /\ \A r \in 1 .. m : t[r] = Items[p[r]]
  <2>1. m \in Nat
    BY <1>5
  <2>2. Items \in Seq(Data \cup {NULL}) /\ Len(Items) = size
    BY <1>1 DEF ItemsOK
  <2>. QED  BY <1>6, <2>1, <2>2, OnlyTyped
<1>8. Items' = t
  <2>1. CASE size = 0
    <3>1. m = 0 /\ Items = <<>>
      BY <1>1, <1>5, <2>1 DEF ItemsOK
    <3>2. UNCHANGED cells
      BY <2>1 DEF RemoveEx
    <3>3. Items' = <<>>
      BY <3>1, <3>2, SameItems
    <3>. QED  BY <1>7, <3>1, <3>3
  <2>2. CASE size # 0
    <3>1. /\ data' = [c \in Cells |-> IF c < start THEN data[c]
                                      ELSE IF c - start < Cardinality(Staying(k))
                                      THEN Only(FromStart, Staying(k))[c - start + 1] ELSE NULL]
          /\ size' = size - Cardinality(Leaving(k)) /\ start' = start
      BY <2>2 DEF RemoveEx, Staying, FromStart, Leaving
    <3>2. ASSUME NEW r \in 1 .. size' PROVE data'[start' + r - 1] = t[r]
      <4>1. r \in 1 .. m /\ r \in 1 .. Cardinality(Staying(k)) /\ p[r] \in 1 .. size
        BY <1>5, <1>6, <3>1
      <4>2. /\ start' + r - 1 = start + r - 1 /\ ~(start + r - 1 < start)
            /\ (start + r - 1) - start + 1 = r /\ (start + r - 1) - start < Cardinality(Staying(k))
            /\ start + r - 1 \in Cells /\ p[r] \in 1 .. alloc - start
        <5>1. /\ start \in Nat /\ size \in Nat /\ alloc \in Nat /\ start + size <= alloc
              /\ r \in 1 .. size /\ start' = start /\ Cells = 0 .. alloc - 1
          BY <1>1, <1>5, <3>1, <4>1 DEF ItemsOK, Cells
        <5>2. Cardinality(Staying(k)) \in Nat /\ r <= Cardinality(Staying(k))
          BY <1>5, <4>1
        <5>. QED  BY <4>1, <5>1, <5>2
      <4>3. data'[start + r - 1] = FromStart[p[r]]
        BY <1>5, <3>1, <4>1, <4>2
      <4>4. FromStart[p[r]] = data[start + p[r] - 1] /\ Items[p[r]] = data[start + p[r] - 1]
        BY <1>1, <4>1, <4>2 DEF FromStart, ItemsOK
      <4>. QED  BY <1>7, <4>1, <4>2, <4>3, <4>4
    <3>. HIDE DEF t
    <3>. QED  BY <1>1, <1>5, <1>7, <3>1, <3>2, ItemsAre
  <2>. QED  BY <2>1, <2>2
<1>9. Order!Only(Items, DOMAIN Items \ Order!Where(Items, k)) = t
  BY <1>2, <1>5, SameOnly
<1>. QED  BY <1>1, <1>4, <1>8, <1>9 DEF Order!RemoveEx, Ok, Order!Ok

\* n_array_uniq_ex leaves the first of every run of equal items.
LEMMA UniqRefined ==
  ASSUME Misuse = {}, IndInv, IndInv', Uniq
  PROVE  Order!Uniq
<1> DEFINE kept == {i \in 1 .. size : i > 1 => KeyOf[Items[i]] # KeyOf[Items[i - 1]]}
           m == Cardinality(kept)
           p == Listed(kept, Less)
           t == [r \in 1 .. m |-> Items[p[r]]]
<1>1. /\ ItemsOK /\ ItemsOK' /\ Writes("uniq", NULL) /\ call' = <<"uniq", NULL>>
      /\ (start = 0 \/ size < 2)
  BY ItemsAreOK, ItemsAreOKNext DEF Uniq, Writes, Reads, Avoids
<1>2. /\ res' = Ok /\ size' = m /\ start' = start /\ alloc' = alloc /\ UNCHANGED flags
      /\ data' = [c \in Cells |-> IF start = 0 /\ c < m THEN Only(Items, kept)[c + 1]
                                  ELSE IF start = 0 THEN NULL ELSE data[c]]
  <2>1. ~(start > 0 /\ size > 1)
    BY <1>1 DEF ItemsOK
  <2>. QED  BY <2>1 DEF Uniq, Return, Gives
<1>3. /\ m \in Nat /\ Lists(p, kept, Less) /\ Only(Items, kept) = t
      /\ kept \in SUBSET (1 .. size) /\ kept \in SUBSET Nat /\ TotalOrder(kept, Less)
      /\ \A i, j \in kept : <<i, j>> \in Less <=> i < j
  <2>1. kept \in SUBSET (1 .. size) /\ kept \in SUBSET Nat /\ IsFiniteSet(1 .. size)
    <3>1. size \in Nat
      BY <1>1 DEF ItemsOK
    <3>. QED  BY <3>1, FS_Interval
  <2>. HIDE DEF kept
  <2>2. IsFiniteSet(kept)
    BY <2>1, FS_Subset
  <2>. QED  BY <2>1, <2>2, LessIsTotal, IsListed, OnlyIs
<1>4. Order!Uniq <=> /\ Order!Writes("uniq", NULL) /\ Items' = Order!Only(Items, kept) /\ res' = Order!Ok
  <2>1. DOMAIN Items = 1 .. size
    BY <1>1 DEF ItemsOK
  <2>2. {i \in DOMAIN Items : i > 1 => KeyOf[Items[i]] # KeyOf[Items[i - 1]]} = kept
    BY <2>1
  <2>. QED  BY <2>2 DEF Order!Uniq
<1>5. start # 0 => kept = 1 .. size
  <2>1. SUFFICES ASSUME start # 0 PROVE \A i \in 1 .. size : ~(i > 1)
    OBVIOUS
  <2>. QED  BY <1>1, <2>1 DEF ItemsOK
<1>. HIDE DEF kept, p
<1>6. ASSUME NEW r \in 1 .. m PROVE p[r] \in 1 .. size
  BY <1>3 DEF Lists
<1>7. t \in Seq(Data \cup {NULL}) /\ Len(t) = m /\ \A r \in 1 .. m : t[r] = Items[p[r]]
  <2>. HIDE DEF m
  <2>. QED  BY <1>1, <1>3, <1>6, OnlyTyped DEF ItemsOK
<1>8. ASSUME NEW r \in 1 .. size' PROVE data'[start' + r - 1] = t[r]
  <2>1. r \in 1 .. m /\ p[r] \in 1 .. size
    BY <1>2, <1>6
  <2>2. CASE start = 0
    <3>1. start' + r - 1 = r - 1 /\ r - 1 < m /\ (r - 1) + 1 = r /\ r - 1 \in Cells
      <4>1. r - 1 \in Cells' /\ Cells' = Cells
        BY <1>1, <1>2, <2>2 DEF ItemsOK, Cells
      <4>. QED  BY <1>2, <1>3, <2>1, <2>2, <4>1
    <3>. HIDE DEF t, m
    <3>. QED  BY <1>2, <1>3, <2>2, <3>1
  <2>3. CASE start # 0
    <3>1. kept = 1 .. size /\ size \in Nat
      BY <1>1, <1>5, <2>3 DEF ItemsOK
    <3>2. m = size /\ p[r] = r
      <4>1. TotalOrder(1 .. size, Less) /\ \A i, j \in 1 .. size : i < j => <<i, j>> \in Less
        BY <1>3, <3>1
      <4>2. /\ Cardinality(1 .. size) = size
            /\ \A q \in 1 .. size : Listed(1 .. size, Less)[q] = q
        BY <3>1, <4>1, ListedInOrder
      <4>3. m = size
        BY <3>1, <4>2
      <4>. QED  BY <2>1, <3>1, <4>2, <4>3 DEF p
    <3>3. start + r - 1 \in Cells /\ Items[r] = data[start + r - 1]
      BY <1>1, <2>1, <3>2 DEF ItemsOK
    <3>. HIDE DEF t, m
    <3>. QED  BY <1>2, <1>7, <2>1, <2>3, <3>2, <3>3
  <2>. QED  BY <2>2, <2>3
<1>9. Items' = t
  <2>. HIDE DEF t, m
  <2>. QED  BY <1>1, <1>2, <1>7, <1>8, ItemsAre
<1>10. Order!Writes("uniq", NULL)
  BY <1>1, <1>2, WritesIs
<1>. QED
  <2>. HIDE DEF t
  <2>. QED  BY <1>2, <1>3, <1>4, <1>9, <1>10, SameOnly DEF Ok, Order!Ok

-----------------------------------------------------------------------------
(***************************************************************************)
(* n_array_sort, n_array_bsearch                                           *)
(***************************************************************************)
\* ItemSeq and n_array_sort put the items in the same order.
LEMMA SortedIs ==
  ASSUME ItemsOK, NEW dir \in {"up", "down"}
  PROVE  Order!Sorted(dir) = Arranged(dir)
<1>1. DOMAIN Items = 1 .. size
  BY DEF ItemsOK
<1> DEFINE B(i) == {j \in 1 .. size : Order!Before(dir, j, i)}
<1>2. ASSUME NEW i \in 1 .. size PROVE Rank(dir, i) = 1 + Cardinality(B(i))
  <2>1. ASSUME NEW j \in 1 .. size
        PROVE  Order!Before(dir, j, i) <=>
                 \/ Comes(dir, KeyOf[Items[j]], KeyOf[Items[i]])
                 \/ j < i /\ KeyOf[Items[j]] = KeyOf[Items[i]]
    BY DEF Order!Before, Comes
  <2>. QED  BY <2>1 DEF Rank
<1>3. ASSUME NEW r \in 1 .. size
      PROVE  Items[CHOOSE i \in 1 .. size : r = 1 + Cardinality(B(i))]
               = Items[CHOOSE i \in 1 .. size : Rank(dir, i) = r]
  <2>. HIDE DEF B
  <2>1. (CHOOSE i \in 1 .. size : r = 1 + Cardinality(B(i))) = (CHOOSE i \in 1 .. size : Rank(dir, i) = r)
    BY <1>2
  <2>. QED  BY <2>1
<1>4. Order!Sorted(dir) = [r \in 1 .. size |-> Items[CHOOSE i \in 1 .. size : r = 1 + Cardinality(B(i))]]
  BY <1>1 DEF Order!Sorted, Order!Cardinality, Cardinality
<1>. HIDE DEF B
<1>. QED  BY <1>3, <1>4 DEF Arranged

\* Arranged is a sequence as long as the items, and of the same.
LEMMA ArrangedTyped ==
  ASSUME IndInv, NoNulls, NEW dir \in {"up", "down"}
  PROVE  Arranged(dir) \in Seq(Data) /\ Len(Arranged(dir)) = size
<1> DEFINE p == Listed(1 .. size, Stably(dir))
<1>1. ItemsOK /\ size \in Nat
  BY ItemsAreOK, CellFacts
<1>2. /\ Lists(p, 1 .. size, Stably(dir)) /\ Cardinality(1 .. size) = size
      /\ Arranged(dir) = [r \in 1 .. size |-> Items[p[r]]]
  BY ArrangedIs
<1>. HIDE DEF p
<1>3. ASSUME NEW r \in 1 .. size PROVE Items[p[r]] \in Data
  <2>1. p[r] \in 1 .. size
    BY <1>2 DEF Lists
  <2>. QED  BY <1>1, <2>1 DEF ItemsOK, NoNulls
<1>. QED  BY <1>1, <1>2, <1>3

\* The items are a sequence over the data and NULL.
LEMMA ItemsTyped ==
  ASSUME IndInv, NoNulls
  PROVE  Items \in Seq(Data) /\ Len(Items) = size
<1>1. ItemsOK
  BY ItemsAreOK
<1>2. /\ size \in Nat /\ Len(Items) = size
      /\ \A i \in 1 .. size : Items[i] \in Data \cup {NULL} /\ Items[i] # NULL
  BY <1>1 DEF ItemsOK, NoNulls
<1>3. Items = [i \in 1 .. size |-> data[start + i - 1]]
  BY DEF Items
<1>4. \A i \in 1 .. size : data[start + i - 1] \in Data
  BY <1>1, <1>2 DEF ItemsOK
<1>. QED  BY <1>2, <1>3, <1>4

\* Sorting moves nothing when the items are in order.
LEMMA SortedStays ==
  ASSUME IndInv, NoNulls, InOrder(cmp, Items)
  PROVE  Arranged(cmp) = Items
<1>1. ItemsOK /\ size \in Nat /\ cmp \in {"up", "down"}
  BY ItemsAreOK, CellFacts DEF IndInv, TypeOK
<1> DEFINE R == Stably(cmp)
           p == Listed(1 .. size, R)
<1>2. /\ TotalOrder(1 .. size, R)
      /\ \A i, j \in 1 .. size :
              <<i, j>> \in R <=>
                \/ Comes(cmp, KeyOf[Items[i]], KeyOf[Items[j]])
                \/ i < j /\ KeyOf[Items[i]] = KeyOf[Items[j]]
  BY <1>1, StablyTotal
<1>3. Arranged(cmp) = [r \in 1 .. size |-> Items[p[r]]]
  BY <1>1, ArrangedIs
<1>. HIDE DEF R
<1>4. ASSUME NEW i \in 1 .. size, NEW j \in 1 .. size, i < j PROVE <<i, j>> \in R
  <2>1. ~Comes(cmp, KeyOf[Items[j]], KeyOf[Items[i]])
    BY <1>1, <1>4 DEF InOrder, ItemsOK
  <2>2. KeyOf[Items[i]] \in Nat /\ KeyOf[Items[j]] \in Nat
    BY ItemFacts DEF NoNulls
  <2>3. Comes(cmp, KeyOf[Items[i]], KeyOf[Items[j]]) \/ KeyOf[Items[i]] = KeyOf[Items[j]]
    BY <1>1, <2>1, <2>2 DEF Comes
  <2>. QED  BY <1>2, <1>4, <2>3
<1>5. \A r \in 1 .. size : p[r] = r
  BY <1>1, <1>2, <1>4, ListedInOrder
<1>. HIDE DEF p
<1>6. Arranged(cmp) = [r \in 1 .. size |-> Items[r]]
  BY <1>3, <1>5
<1>7. Items = [r \in 1 .. size |-> Items[r]]
  BY <1>1 DEF ItemsOK
<1>. QED  BY <1>6, <1>7

\* The items of the cells that WithItems writes are those it was given.
LEMMA ItemsPut ==
  ASSUME ItemsOK, ItemsOK', NEW D, NEW s \in Seq(D), Len(s) = size, data' = WithItems(s),
         UNCHANGED <<start, size>>
  PROVE  Items' = s
<1>1. ASSUME NEW i \in 1 .. size' PROVE data'[start' + i - 1] = s[i]
  <2>1. /\ start' + i - 1 = start + i - 1 /\ start + i - 1 \in Cells
        /\ start + i - 1 \in start .. start + size - 1 /\ (start + i - 1) - start + 1 = i
    <3>1. i \in 1 .. size /\ start' = start /\ start \in Nat /\ size \in Nat
      BY DEF ItemsOK
    <3>2. start + i - 1 \in Cells
      BY <3>1 DEF ItemsOK
    <3>. QED  BY <3>1, <3>2
  <2>. QED  BY <2>1 DEF WithItems
<1>. QED  BY <1>1, ItemsAre

\* n_array_sort_ex sorts stably, or finds the array sorted.
LEMMA SortRefined ==
  ASSUME IndInv, IndInv', NEW dir \in {"up", "down"}, Sort(dir)
  PROVE  Order!Sort(dir)
<1>1. /\ ItemsOK /\ ItemsOK' /\ NoNulls /\ call' = <<"sort", dir>> /\ res' = Ok
      /\ UNCHANGED <<alloc, start, size, flags>>
      /\ IF auto /\ KnownSorted(dir)
         THEN UNCHANGED data
         ELSE (frozen => hooked) /\ data' = WithItems(Arranged(dir))
  BY ItemsAreOK, ItemsAreOKNext DEF Sort, Reads, Return
<1>2. Order!Called("sort", dir)
  BY <1>1 DEF Order!Called, flags
<1>3. Items' = Arranged(dir) /\ ((frozen /\ ~hooked) => Items' = Items)
  <2>1. CASE auto /\ KnownSorted(dir)
    <3>1. dir = cmp /\ InOrder(cmp, Items)
      BY <2>1 DEF KnownSorted, SetsSorted, IndInv, Ordered, SortedInOrder
    <3>2. Arranged(dir) = Items
      BY <1>1, <3>1, SortedStays
    <3>3. Items' = Items
      BY <1>1, <2>1, SameItems DEF cells
    <3>. QED  BY <3>2, <3>3
  <2>2. CASE ~(auto /\ KnownSorted(dir))
    BY <1>1, <2>2, ArrangedTyped, ItemsPut
  <2>. QED  BY <2>1, <2>2
<1>. QED  BY <1>1, <1>2, <1>3, SortedIs DEF Order!Sort, Ok, Order!Ok

\* n_array_bsearch and n_array_bsearch_idx: what they do to the items, and
\* where they look.
LEMMA SearchFinds ==
  ASSUME IndInv, IndInv', NEW name, NEW k \in Keys, Search(name, k)
  PROVE  /\ Order!Finds(name, k) /\ Items' \in Seq(Data) /\ InOrder(cmp, Items')
         /\ cmp \in {"up", "down"} /\ k \in Nat
         /\ res' = IF name = "index" THEN Count(First(Items', k))
                   ELSE IF Bsearch(Items', k) = -1 THEN Refused
                   ELSE Val(Items'[Bsearch(Items', k) + 1])
         /\ Order!Where(Items', k) = {i \in 1 .. Len(Items') : KeyOf[Items'[i]] = k}
<1> DEFINE now == IF auto /\ ~sorted THEN Arranged(cmp) ELSE Items
<1>1. /\ ItemsOK /\ ItemsOK' /\ NoNulls /\ call' = <<name, k>> /\ cmp' = cmp
      /\ UNCHANGED <<alloc, start, size, flags>>
      /\ data' = WithItems(now) /\ sorted' = (sorted \/ auto)
      /\ auto \/ InOrder(cmp, Items)
      /\ auto /\ ~sorted /\ frozen => hooked
      /\ res' = IF name = "index" THEN Count(First(now, k))
                ELSE IF Bsearch(now, k) = -1 THEN Refused ELSE Val(now[Bsearch(now, k) + 1])
  BY ItemsAreOK, ItemsAreOKNext DEF Search, Reads, Return
<1>2. cmp \in {"up", "down"} /\ sorted \in BOOLEAN /\ auto \in BOOLEAN
  BY DEF IndInv, TypeOK
<1>3. k \in Nat
  BY ArrayAssumption DEF Keys
<1>4. now \in Seq(Data) /\ Len(now) = size
  BY <1>1, <1>2, ArrangedTyped, ItemsTyped
<1>5. Items' = now
  <2>. HIDE DEF now
  <2>. QED  BY <1>1, <1>4, ItemsPut
<1>6. InOrder(cmp, Items')
  <2>1. CASE sorted \/ auto
    <3>1. sorted' /\ SortedInOrder'
      BY <1>1, <2>1 DEF IndInv, Ordered
    <3>2. InOrder(cmp', Items')
      BY <3>1 DEF SortedInOrder
    <3>. QED  BY <1>1, <3>2
  <2>2. CASE ~(sorted \/ auto)
    BY <1>1, <1>5, <2>2
  <2>. QED  BY <2>1, <2>2
<1>7. Order!Finds(name, k)
  <2>1. Order!Called(name, k)
    BY <1>1 DEF Order!Called, flags
  <2>2. CASE auto /\ ~sorted
    <3>1. Items' = Order!Sorted(cmp) /\ ~(frozen /\ ~hooked)
      BY <1>1, <1>2, <1>5, <2>2, SortedIs
    <3>. QED  BY <1>2, <2>1, <3>1 DEF Order!Finds
  <2>3. CASE ~(auto /\ ~sorted)
    <3>1. Items' = Items
      BY <1>5, <2>3
    <3>. QED  BY <2>1, <3>1 DEF Order!Finds
  <2>. QED  BY <2>2, <2>3
<1>8. Order!Where(Items', k) = {i \in 1 .. Len(Items') : KeyOf[Items'[i]] = k}
  <2>1. DOMAIN Items' = 1 .. Len(Items') /\ \A i \in 1 .. Len(Items') : Items'[i] # NULL
    <3>. HIDE DEF now
    <3>. QED  BY <1>4, <1>5, ArrayAssumption
  <2>. QED  BY <2>1 DEF Order!Where, Order!Has
<1>. QED
  <2>. HIDE DEF now
  <2>. QED  BY <1>1, <1>2, <1>3, <1>4, <1>5, <1>6, <1>7, <1>8

\* n_array_bsearch_ex finds an equal item iff there is one.
LEMMA LookupRefined ==
  ASSUME IndInv, IndInv', NEW k \in Keys, Search("lookup", k)
  PROVE  Order!Lookup(k)
<1> DEFINE s == Items'
           b == Bsearch(s, k)
<1>1. /\ Order!Finds("lookup", k) /\ s \in Seq(Data) /\ InOrder(cmp, s)
      /\ cmp \in {"up", "down"} /\ k \in Nat
      /\ res' = IF b = -1 THEN Refused ELSE Val(s[b + 1])
      /\ Order!Where(s, k) = {i \in 1 .. Len(s) : KeyOf[s[i]] = k}
  BY SearchFinds
<1>2. \/ b = -1 /\ \A i \in 1 .. Len(s) : KeyOf[s[i]] # k
      \/ b \in 0 .. Len(s) - 1 /\ KeyOf[s[b + 1]] = k
  <2>. HIDE DEF s
  <2>. QED  BY <1>1, BsearchIs
<1>. HIDE DEF b
<1>3. CASE b = -1 /\ \A i \in 1 .. Len(s) : KeyOf[s[i]] # k
  <2>1. Order!Where(s, k) = {} /\ res' = Order!Refused
    BY <1>1, <1>3 DEF Refused, Order!Refused, Val, Order!Val
  <2>. QED  BY <1>1, <2>1 DEF Order!Lookup
<1>4. CASE b \in 0 .. Len(s) - 1 /\ KeyOf[s[b + 1]] = k
  <2>1. b + 1 \in 1 .. Len(s) /\ b # -1
    <3>1. Len(s) \in Nat
      <4>. HIDE DEF s
      <4>. QED  BY <1>1
    <3>. QED  BY <1>4, <3>1
  <2>2. b + 1 \in Order!Where(s, k) /\ res' = Order!Val(s[b + 1])
    BY <1>1, <1>4, <2>1 DEF Val, Order!Val
  <2>. QED  BY <1>1, <2>2 DEF Order!Lookup
<1>. QED  BY <1>2, <1>3, <1>4

\* n_array_bsearch_idx_ex finds the first.
LEMMA IndexRefined ==
  ASSUME IndInv, IndInv', NEW k \in Keys, Search("index", k)
  PROVE  Order!Index(k)
<1> DEFINE s == Items'
           b == First(s, k)
<1>1. /\ Order!Finds("index", k) /\ s \in Seq(Data) /\ InOrder(cmp, s)
      /\ cmp \in {"up", "down"} /\ k \in Nat
      /\ res' = Count(b)
      /\ Order!Where(s, k) = {i \in 1 .. Len(s) : KeyOf[s[i]] = k}
  BY SearchFinds
<1>2. \/ b = -1 /\ \A i \in 1 .. Len(s) : KeyOf[s[i]] # k
      \/ /\ b \in 0 .. Len(s) - 1 /\ KeyOf[s[b + 1]] = k
         /\ \A j \in 1 .. Len(s) : KeyOf[s[j]] = k => b + 1 <= j
  <2>. HIDE DEF s
  <2>. QED  BY <1>1, FirstIs
<1>. HIDE DEF b
<1>3. CASE b = -1 /\ \A i \in 1 .. Len(s) : KeyOf[s[i]] # k
  <2>1. Order!Where(s, k) = {} /\ res' = Order!Count(-1)
    BY <1>1, <1>3 DEF Count, Order!Count
  <2>. QED  BY <1>1, <2>1 DEF Order!Index
<1>4. CASE /\ b \in 0 .. Len(s) - 1 /\ KeyOf[s[b + 1]] = k
           /\ \A j \in 1 .. Len(s) : KeyOf[s[j]] = k => b + 1 <= j
  <2>1. b + 1 \in 1 .. Len(s) /\ (b + 1) - 1 = b
    <3>1. Len(s) \in Nat
      <4>. HIDE DEF s
      <4>. QED  BY <1>1
    <3>. QED  BY <1>4, <3>1
  <2>2. b + 1 \in Order!Where(s, k) /\ \A j \in Order!Where(s, k) : b + 1 <= j
    BY <1>1, <1>4, <2>1
  <2>3. res' = Order!Count((b + 1) - 1)
    BY <1>1, <2>1 DEF Count, Order!Count
  <2>. QED  BY <1>1, <2>2, <2>3 DEF Order!Index
<1>. QED  BY <1>2, <1>3, <1>4

-----------------------------------------------------------------------------
(***************************************************************************)
(* All the calls                                                           *)
(***************************************************************************)
\* n_array_nth gives the item at its place; behind the items, if n_die returns,
\* the inline one gives what the cell has there, and that is NULL.
LEMMA NthRefined ==
  ASSUME Misuse = {}, IndInv, NEW i \in Places, Nth(i)
  PROVE  Order!Refuse \/ Order!Nth(i)
<1>1. ItemsOK /\ call' = <<"nth", i>> /\ i \in Nat
      /\ UNCHANGED <<cells, const, frozen, hooked>>
  BY ItemsAreOK, ArrayAssumption, NthReads DEF flags
<1>2. CASE i >= size
  <2>1. Order!Looks("nth", i)
    BY <1>1, LooksIs
  <2>2. ASSUME start + i < alloc PROVE data[start + i] = NULL
    <3>1. start \in Nat /\ size \in Nat /\ alloc \in Nat
      BY TypeFacts DEF IndInv
    <3>2. start + i \in Cells /\ start + i \notin start .. start + size - 1
      BY <1>1, <1>2, <2>2, <3>1 DEF Cells
    <3>. QED  BY <3>2 DEF IndInv, RestEmpty
  <2>3. res' = Refused
    BY <2>2, NthReads DEF Refused
  <2>4. i >= Len(Items)
    BY <1>1, <1>2 DEF ItemsOK
  <2>. QED  BY <2>1, <2>3, <2>4 DEF Order!Refuse, Refused, Order!Refused, Val, Order!Val
<1>3. CASE ~(i >= size)
  <2>1. res' = Val(data[start + i])
    BY <1>3, NthReads
  <2>2. Order!Looks("nth", i)
    BY <1>1, LooksIs
  <2>3. i < Len(Items) /\ Items[i + 1] = data[start + i]
    <3>1. i + 1 \in 1 .. size /\ start + (i + 1) - 1 = start + i /\ i < size
      BY <1>1, <1>3 DEF ItemsOK
    <3>. QED  BY <1>1, <3>1 DEF ItemsOK
  <2>. QED  BY <2>1, <2>2, <2>3 DEF Order!Nth, Val, Order!Val
<1>. QED  BY <1>2, <1>3

\* n_array_map and n_array_map_arg visit every item in order.
LEMMA MapRefined ==
  ASSUME Misuse = {}, IndInv, NEW name, Map(name)
  PROVE  Order!Map
<1>1. /\ ItemsOK /\ call' = <<"map", NULL>> /\ UNCHANGED <<cells, const, frozen, hooked>>
      /\ res' = Row(IF name = "map" THEN [i \in 1 .. size - start |-> data[start + i - 1]] ELSE Items)
      /\ name = "map" => start = 0
  BY ItemsAreOK DEF Map, Reads, Return, flags, Avoids
<1>2. Order!Looks("map", NULL)
  BY <1>1, LooksIs
<1>3. name = "map" => [i \in 1 .. size - start |-> data[start + i - 1]] = Items
  <2>1. start = 0 => size - start = size
    BY <1>1 DEF ItemsOK
  <2>. QED  BY <1>1, <2>1 DEF Items
<1>. QED  BY <1>1, <1>2, <1>3 DEF Order!Map, Row

\* n_array_eq_ex compares item by item.
LEMMA EqRefined ==
  ASSUME Misuse = {}, IndInv, NEW s \in Rows, Eq(s)
  PROVE  Order!Eq(s)
<1>1. /\ ItemsOK /\ call' = <<"eq", s>> /\ UNCHANGED <<cells, const, frozen, hooked>> /\ start = 0
      /\ res' = Count(IF Len(s) = size /\ \A i \in DOMAIN s : Has(KeyOf[s[i]], data[i - 1]) THEN 1 ELSE 0)
      /\ s \in Seq(Data) /\ Len(s) \in Nat
  BY ItemsAreOK, ArrayAssumption DEF Eq, Reads, Return, flags, Avoids
<1>2. Order!Looks("eq", s)
  BY <1>1, LooksIs
<1>3. ASSUME Len(s) = size, NEW i \in DOMAIN s
      PROVE  Has(KeyOf[s[i]], data[i - 1]) <=> Order!Has(KeyOf[s[i]], Items[i])
  <2>1. i \in 1 .. size /\ start + i - 1 = i - 1
    BY <1>1, <1>3
  <2>2. Items[i] = data[i - 1]
    BY <1>1, <2>1 DEF ItemsOK
  <2>. QED  BY <2>2 DEF Has, Order!Has
<1>4. Len(s) = size /\ (\A i \in DOMAIN s : Has(KeyOf[s[i]], data[i - 1]))
        <=> Len(s) = Len(Items) /\ (\A i \in DOMAIN s : Order!Has(KeyOf[s[i]], Items[i]))
  <2>1. Len(Items) = size
    BY <1>1 DEF ItemsOK
  <2>. QED  BY <1>3, <2>1
<1>. QED  BY <1>1, <1>2, <1>4 DEF Order!Eq, Count, Order!Count

\* n_array_new_ex makes an empty sequence.
LEMMA NewRefined ==
  ASSUME IndInv, IndInv', NEW n \in InitSizes, New(n)
  PROVE  Order!New
<1>1. /\ ItemsOK /\ ItemsOK' /\ size = 0 /\ size' = 0 /\ const' = FALSE /\ frozen' = FALSE
      /\ call' = <<"new">> /\ res' = Ok
  BY ItemsAreOK, ItemsAreOKNext DEF New, Made, IndInv
<1>2. Items = <<>> /\ Items' = <<>>
  BY <1>1 DEF ItemsOK
<1>. QED  BY <1>1, <1>2 DEF Order!New, Ok, Order!Ok

\* n_array_free ends it.
LEMMA FreeRefined ==
  ASSUME IndInv', Free
  PROVE  Order!Free
<1>1. ItemsOK' /\ size' = 0 /\ const' = FALSE /\ frozen' = FALSE /\ UNCHANGED <<call, res>>
  BY ItemsAreOKNext DEF Free
<1>2. Items' = <<>>
  BY <1>1 DEF ItemsOK
<1>. QED  BY <1>1, <1>2 DEF Order!Free

\* A step that leaves the items alone.
LEMMA QuietStep ==
  ASSUME Items' = Items, UNCHANGED <<alloc, const, frozen, hooked, call, res>>
  PROVE  UNCHANGED Order!vars
BY DEF Order!vars

\* n_array_dup copies all of it.
LEMMA DupRefined ==
  ASSUME IndInv, IndInv', Dup
  PROVE  UNCHANGED Order!vars
<1>1. /\ ItemsOK /\ ItemsOK' /\ size' = size /\ start' = 0
      /\ data' = [c \in Cells |-> IF c < size THEN Items[c + 1] ELSE NULL]
      /\ UNCHANGED <<alloc, const, frozen, hooked, call, res>>
  BY ItemsAreOK, ItemsAreOKNext DEF Dup, flags
<1>2. Items \in Seq(Data \cup {NULL}) /\ Len(Items) = size'
  BY <1>1 DEF ItemsOK
<1>3. ASSUME NEW i \in 1 .. size' PROVE data'[start' + i - 1] = Items[i]
  <2>1. start' + i - 1 = i - 1 /\ i - 1 \in Cells /\ i - 1 < size /\ (i - 1) + 1 = i
    BY <1>1 DEF ItemsOK, Cells
  <2>. QED  BY <1>1, <2>1
<1>4. Items' = Items
  BY <1>1, <1>2, <1>3, ItemsAre
<1>. QED  BY <1>1, <1>4, QuietStep

\* Flags, hooks and the compare function change no item.
LEMMA FlagsRefined ==
  ASSUME IndInv, IndInv', Ctl \/ (\E b \in Hooks : SetHook(b))
  PROVE  Order!SetFlags
<1>1. /\ UNCHANGED <<cells, call, res>> /\ frozen' \in BOOLEAN /\ hooked' \in BOOLEAN
      /\ const' \in BOOLEAN /\ alloc' \in Nat
  <2>1. UNCHANGED <<cells, call, res>>
    BY DEF Ctl, SetHook
  <2>2. frozen' \in BOOLEAN /\ const' \in BOOLEAN /\ hooked' \in Hooks
    BY DEF IndInv, TypeOK
  <2>3. ItemsOK'
    BY ItemsAreOKNext
  <2>. QED  BY <2>1, <2>2, <2>3, ArrayAssumption DEF ItemsOK
<1>2. Items' = Items
  BY <1>1, SameItems
<1>3. (IF const THEN alloc ELSE 0)' \in Nat
  BY <1>1
<1>4. (frozen /\ ~hooked)' \in BOOLEAN
  OBVIOUS
<1>. QED  BY <1>1, <1>2, <1>3, <1>4 DEF Order!SetFlags

\* Every step of the array is a step of ItemSeq or none.
LEMMA StepRefined ==
  ASSUME Misuse = {}, IndInv, [Next]_vars
  PROVE  [Order!Next]_(Order!vars)
<1>1. IndInv'
  BY NextKeeps
<1>2. CASE UNCHANGED vars
  <2>1. Items' = Items /\ UNCHANGED <<alloc, const, frozen, hooked, call, res>>
    BY <1>2, SameItems DEF vars, cells, flags
  <2>. QED  BY <2>1, QuietStep
<1>3. ASSUME NEW n \in InitSizes, New(n) PROVE Order!Next
  BY <1>1, <1>3, NewRefined DEF Order!Next
<1>4. CASE Free
  BY <1>1, <1>4, FreeRefined DEF Order!Next
<1>5. CASE Dup
  BY <1>1, <1>5, DupRefined
<1>6. CASE Ctl \/ (\E b \in Hooks : SetHook(b))
  BY <1>1, <1>6, FlagsRefined DEF Order!Next
<1>7. ASSUME NEW b \in BOOLEAN, SetFreefn(b) PROVE UNCHANGED Order!vars
  <2>1. Items' = Items /\ UNCHANGED <<alloc, const, frozen, hooked, call, res>>
    BY <1>7, SameItems DEF SetFreefn, cells
  <2>. QED  BY <2>1, QuietStep
<1>8. ASSUME NEW d \in Data, Push(d) PROVE Order!Next
  BY <1>1, <1>8, PushRefined DEF Order!Next
<1>9. ASSUME NEW d \in Data, Unshift(d) PROVE Order!Next
  BY <1>1, <1>9, UnshiftRefined DEF Order!Next
<1>10. ASSUME NEW d \in Data, Renew(d) PROVE UNCHANGED Order!vars
  <2>1. Items' = Items /\ UNCHANGED <<alloc, const, frozen, hooked, call, res>>
    BY <1>10, SameItems DEF Renew, cells, flags
  <2>. QED  BY <2>1, QuietStep
<1>11. ASSUME NEW d \in Data, NEW i \in Places, SetNth(i, d) PROVE Order!Next
  BY <1>1, <1>11, SetNthRefined DEF Order!Next
<1>12. ASSUME NEW s \in Rows, Concat(s) PROVE Order!Next
  BY <1>1, <1>12, ConcatRefined DEF Order!Next
<1>13. ASSUME NEW s \in Rows, Eq(s) PROVE Order!Next
  BY <1>1, <1>13, EqRefined DEF Order!Next
<1>14. ASSUME NEW name \in {"map", "map_arg"}, Map(name) PROVE Order!Next
  BY <1>1, <1>14, MapRefined DEF Order!Next
<1>15. ASSUME NEW i \in Places, RemoveNth(i) PROVE Order!Next
  BY <1>1, <1>15, RemoveNthRefined DEF Order!Next
<1>16. ASSUME NEW i \in Places, Nth(i) PROVE Order!Next
  BY <1>1, <1>16, NthRefined DEF Order!Next
<1>17. ASSUME NEW k \in Keys PROVE k \in Order!Keys
  BY DEF Keys, Order!Keys
<1>18. ASSUME NEW k \in Keys, RemoveEx(k) PROVE Order!Next
  BY <1>1, <1>17, <1>18, RemoveExRefined DEF Order!Next
<1>19. ASSUME NEW k \in Keys, Search("lookup", k) PROVE Order!Next
  BY <1>1, <1>17, <1>19, LookupRefined DEF Order!Next
<1>20. ASSUME NEW k \in Keys, Search("index", k) PROVE Order!Next
  BY <1>1, <1>17, <1>20, IndexRefined DEF Order!Next
<1>21. ASSUME NEW dir \in {"up", "down"}, Sort(dir) PROVE Order!Next
  BY <1>1, <1>21, SortRefined DEF Order!Next
<1>22. ASSUME NEW dir \in {"up", "down"}, SetCmp(dir) PROVE UNCHANGED Order!vars
  <2>1. Items' = Items /\ UNCHANGED <<alloc, const, frozen, hooked, call, res>>
    BY <1>22, SameItems DEF SetCmp, cells, flags
  <2>. QED  BY <2>1, QuietStep
<1>23. CASE Pop
  BY <1>1, <1>23, PopRefined DEF Order!Next
<1>24. CASE Shift
  BY <1>1, <1>24, ShiftRefined DEF Order!Next
<1>25. CASE Clean
  BY <1>1, <1>25, CleanRefined DEF Order!Next
<1>26. CASE Reverse_
  BY <1>1, <1>26, ReverseRefined DEF Order!Next
<1>27. CASE Uniq
  BY <1>1, <1>27, UniqRefined DEF Order!Next
<1>. QED
  BY <1>2, <1>3, <1>4, <1>5, <1>6, <1>7, <1>8, <1>9, <1>10, <1>11, <1>12, <1>13, <1>14, <1>15,
     <1>16, <1>18, <1>19, <1>20, <1>21, <1>22, <1>23, <1>24, <1>25, <1>26, <1>27, Zenon DEF Next

\* The array starts as ItemSeq does.
LEMMA InitRefined ==
  ASSUME IndInv, Init
  PROVE  Order!Init
<1>1. ItemsOK /\ size = 0 /\ const = FALSE /\ frozen = FALSE /\ call = <<"new">> /\ res = Ok
  BY ItemsAreOK DEF Init
<1>2. Items = <<>>
  BY <1>1 DEF ItemsOK
<1>. QED  BY <1>1, <1>2 DEF Order!Init, Ok, Order!Ok

\* Wherever n_array_shift moved the start to and however often the array grew,
\* a caller who avoids what Misuse names sees a sequence: each call does to the
\* items what ItemSeq says of it, and answers accordingly.  n_array_bsearch and
\* n_array_bsearch_idx find an item that compares equal, the latter the first,
\* wherever there is one.
THEOREM ImplementsASequence ==
  ASSUME Misuse = {}
  PROVE  Spec => IsASequence
<1>1. Init => Order!Init
  BY InitHolds, InitRefined
<1>2. IndInv /\ [Next]_vars => [Order!Next]_(Order!vars)
  BY StepRefined
<1>3. Spec => []IndInv
  BY Inductive
<1>. QED  BY <1>1, <1>2, <1>3, PTL DEF Spec, IsASequence, Order!Spec
=============================================================================
