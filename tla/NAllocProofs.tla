---------------------------- MODULE NAllocProofs ----------------------------
(***************************************************************************)
(* What is proved of NAlloc: the count of references of an allocator is    *)
(* that of its users and of its own table, strings are returned as they    *)
(* were asked for, and the search of a tuple finds the first of the items  *)
(* that compare equal, for any number of users, strings and items.  And of *)
(* NObstack: the objects stay in the chunks that are left, apart from each *)
(* other, and are a stack, for chunks and objects of any size.             *)
(***************************************************************************)
EXTENDS NAlloc, NObstack, FiniteSetTheorems, TLAPS

\* What is stored was asked for, at the one width it is asked for.
StoredAsAsked ==
  \A s \in DOMAIN strs :
    \E w \in {8, 16} : <<s, w>> \in Requests /\ strs[s] = [width |-> w, len |-> LenOf[s]]

\* While bsearch_voidp_tu runs, what is left of l comes before the key and
\* what is right of r after it; what it found compares equal.
Searching ==
  /\ pc # "idle" => Sorted(tuple) /\ trefs >= 0
  /\ pc = "halve" =>
       /\ r <= Len(tuple) /\ idx = -1
       /\ \A i \in 0 .. Len(tuple) - 1 : (i < l => Nth(i) < key) /\ (i >= r => Nth(i) > key)
  /\ pc = "back" => idx \in 0 .. Len(tuple) - 1 /\ Nth(idx) = key

IndInv == TypeOK /\ LivesWhileHeld /\ StoredAsAsked /\ StringsRight /\ Searching

-----------------------------------------------------------------------------
LEMMA HeldFinite == TypeOK => IsFiniteSet(held) /\ Cardinality(held) \in Nat
  BY AllocAssumption, FS_Subset, FS_CardinalityType DEF TypeOK

LEMMA InitIndInv == Init => IndInv
<1> SUFFICES ASSUME Init PROVE IndInv
  OBVIOUS
<1>1. TypeOK
  <2>1. DOMAIN strs = {}
    BY DEF Init, NoStrs
  <2>2. 0 \in 0 .. Mod16 - 1 /\ -1 \in -1 .. MaxRefs
    BY AllocAssumption
  <2>3. DOMAIN strs \subseteq Strings /\ \A s \in DOMAIN strs : strs[s] \in Stored
    BY <2>1
  <2>4. life \in {"none", "live", "dead"} /\ refcnt \in 0 .. Mod16 - 1 /\ trefs \in -1 .. MaxRefs
    BY <2>2 DEF Init
  <2>5. held \subseteq Users /\ tuple \in Seq(Items) /\ idx \in Int
    BY DEF Init
  <2>. QED  BY <2>3, <2>4, <2>5 DEF Init, TypeOK
<1>2. LivesWhileHeld
  BY DEF Init, LivesWhileHeld
<1>3. StoredAsAsked /\ StringsRight /\ Searching
  BY DEF Init, StoredAsAsked, StringsRight, Searching, NoStrs
<1>. QED  BY <1>1, <1>2, <1>3 DEF IndInv

\* A search that does not go on, and a tuple that stays.
LEMMA NoSearch ==
  ASSUME Searching, UNCHANGED <<tuple, trefs, search>> PROVE Searching'
  BY DEF Searching, search, Sorted, Nth

LEMMA StringsStay ==
  ASSUME StoredAsAsked, StringsRight, UNCHANGED <<strs, got>> PROVE StoredAsAsked' /\ StringsRight'
  BY DEF StoredAsAsked, StringsRight

-----------------------------------------------------------------------------
LEMMA NewIndInv ==
  ASSUME IndInv, NEW u \in Users, NEW k \in {"malloc", "obstack"}, New(u, k) PROVE IndInv'
<1> USE DEF IndInv
<1>1. TypeOK'
  <2>1. DOMAIN strs' = {}
    BY DEF New, NoStrs
  <2>2. 0 \in 0 .. Mod16 - 1
    BY AllocAssumption
  <2>3. DOMAIN strs' \subseteq Strings /\ \A s \in DOMAIN strs' : strs'[s] \in Stored
    BY <2>1
  <2>. QED  BY <2>2, <2>3 DEF TypeOK, New, search
<1>2. LivesWhileHeld'
  <2>1. life' = "live" /\ held' = {u} /\ ht' = FALSE /\ refcnt' = 0
    BY DEF New
  <2>2. Cardinality(held') = 1
    BY <2>1, FS_Singleton
  <2>. QED  BY <2>1, <2>2 DEF LivesWhileHeld, References
<1>3. StoredAsAsked' /\ StringsRight'
  BY DEF StoredAsAsked, StringsRight, New, NoStrs
<1>. QED  BY <1>1, <1>2, <1>3, NoSearch DEF New

LEMMA RefIndInv ==
  ASSUME IndInv, NEW u \in Users, NEW v \in Users, Ref(u, v) PROVE IndInv'
<1> USE DEF IndInv
<1>1. TypeOK'
  BY AllocAssumption DEF TypeOK, Ref, CanRef, search
<1>2. LivesWhileHeld'
  <2>1. CASE CanRef
    <3>1. /\ life' = "live" /\ ht' = ht /\ refcnt' = refcnt + 1 /\ life = "live"
          /\ held' = held \cup {v} /\ v \notin held
      BY <2>1 DEF Ref
    <3>2. Cardinality(held') = Cardinality(held) + 1 /\ Cardinality(held) \in Nat
      BY <3>1, HeldFinite, FS_AddElement
    <3>. QED  BY <3>1, <3>2 DEF LivesWhileHeld, References, TypeOK
  <2>2. CASE ~CanRef
    BY <2>2 DEF Ref, LivesWhileHeld
  <2>. QED  BY <2>1, <2>2
<1>. QED  BY <1>1, <1>2, NoSearch, StringsStay DEF Ref

LEMMA FreeIndInv ==
  ASSUME IndInv, NEW u \in Users, Free(u) PROVE IndInv'
<1> USE DEF IndInv
<1>0. /\ IsFiniteSet(held) /\ IsFiniteSet(held') /\ held' = held \ {u}
      /\ Cardinality(held) \in Nat /\ Cardinality(held') = Cardinality(held) - 1
  BY HeldFinite, FS_RemoveElement DEF Free
<1>1. TypeOK'
  <2>1. refcnt' \in 0 .. Mod16 - 1
    BY AllocAssumption DEF TypeOK, Free, TableIsLast
  <2>2. DOMAIN strs' \subseteq Strings /\ \A s \in DOMAIN strs' : strs'[s] \in Stored
    BY DEF TypeOK, Free, NoStrs
  <2>. QED  BY <2>1, <2>2 DEF TypeOK, Free, search
<1>2. LivesWhileHeld'
  <2>1. Cardinality(held') = 0 <=> held' = {}
    BY <1>0, FS_EmptySet
  <2>2. refcnt \in Nat /\ References = refcnt + 1 /\ ht \in BOOLEAN
    BY AllocAssumption DEF TypeOK, Free, LivesWhileHeld
  <2>3. CASE TableIsLast
    <3>1. life' = "none" /\ ht' = FALSE /\ refcnt = 1 /\ ht
      BY <2>2, <2>3 DEF Free, TableIsLast
    <3>. QED  BY <3>1, <1>0, <2>1, <2>2 DEF LivesWhileHeld, References
  <2>4. CASE ~TableIsLast /\ refcnt > 0
    <3>1. life' = "live" /\ ht' = ht /\ refcnt' = refcnt - 1
      BY <2>4 DEF Free
    <3>2. Cardinality(held') # 0
      BY <1>0, <2>2, <2>4 DEF References, TableIsLast
    <3>. QED  BY <3>1, <3>2, <1>0, <2>1, <2>2 DEF LivesWhileHeld, References
  <2>5. CASE ~TableIsLast /\ refcnt = 0
    <3>1. life' = "none" /\ ht' = FALSE
      BY <2>5 DEF Free
    <3>2. Cardinality(held') = 0
      BY <1>0, <2>1, <2>2, <2>5, FS_EmptySet DEF References, LivesWhileHeld, Free
    <3>. QED  BY <3>1, <3>2, <2>1 DEF LivesWhileHeld
  <2>. QED  BY <2>2, <2>3, <2>4, <2>5
<1>3. StoredAsAsked'
  BY DEF StoredAsAsked, Free, NoStrs
<1>. QED  BY <1>1, <1>2, <1>3, NoSearch DEF Free, StringsRight

LEMMA AllocStrIndInv ==
  ASSUME IndInv, OneWidth, NEW u \in Users, NEW q \in Requests, AllocStr(u, q[1], q[2])
  PROVE  IndInv'
<1> USE DEF IndInv
<1> DEFINE s == q[1]  w == q[2]
<1>1. /\ s \in Strings /\ w \in {8, 16} /\ q = <<s, w>> /\ LenOf[s] \in Nat
      /\ \A x \in {8, 16} : <<s, x>> \in Requests => x = w
      /\ LenOf[s] < Modulus(w)
  BY AllocAssumption DEF OneWidth
<1>2. Len8or16(s, w) = LenOf[s]
  BY <1>1, AllocAssumption DEF Len8or16, Modulus
<1>3. CASE ~CanStore(s)
  <2>0. life' = "dead" /\ UNCHANGED <<ht, refcnt, strs, got>>
    BY <1>3 DEF AllocStr
  <2>1. TypeOK'
    BY <2>0 DEF TypeOK, AllocStr, search
  <2>2. LivesWhileHeld'
    BY <2>0 DEF LivesWhileHeld
  <2>. QED  BY <2>0, <2>1, <2>2, NoSearch, StringsStay DEF AllocStr
<1>4. CASE CanStore(s)
  <2>0. life' = life /\ ht' = TRUE /\ got' = <<s, strs'[s], w>> /\ (ht \/ CanRef)
    BY <1>4 DEF AllocStr, CanStore
  <2>1. /\ refcnt' = IF ht THEN refcnt ELSE refcnt + 1
        /\ held' = held /\ life = "live"
        /\ strs' = IF s \in DOMAIN strs THEN strs
                   ELSE [t \in DOMAIN strs \cup {s} |->
                           IF t = s THEN [width |-> w, len |-> LenOf[s]] ELSE strs[t]]
    BY <1>2, <1>4 DEF AllocStr
  <2>2. s \in DOMAIN strs' /\ DOMAIN strs' = DOMAIN strs \cup {s}
    BY <2>1
  <2>3. StoredAsAsked'
    <3>1. \A t \in DOMAIN strs : strs'[t] = strs[t]
      BY <2>1
    <3>2. s \notin DOMAIN strs => strs'[s] = [width |-> w, len |-> LenOf[s]]
      BY <2>1
    <3>3. ASSUME NEW t \in DOMAIN strs'
          PROVE  \E x \in {8, 16} : <<t, x>> \in Requests /\ strs'[t] = [width |-> x, len |-> LenOf[t]]
      <4>1. CASE t \in DOMAIN strs
        BY <4>1, <3>1 DEF StoredAsAsked
      <4>2. CASE t \notin DOMAIN strs
        BY <4>2, <1>1, <2>2, <3>2
      <4>. QED  BY <4>1, <4>2
    <3>. QED  BY <3>3 DEF StoredAsAsked
  <2>4. strs'[s] = [width |-> w, len |-> LenOf[s]]
    BY <1>1, <2>2, <2>3 DEF StoredAsAsked
  <2>5. StringsRight'
    BY <2>0, <2>4 DEF StringsRight
  <2>6. TypeOK'
    <3>1. refcnt' \in 0 .. Mod16 - 1
      <4>1. refcnt \in 0 .. Mod16 - 1 /\ Mod16 \in Nat
        BY AllocAssumption DEF TypeOK
      <4>2. ht \/ refcnt < Mod16 - 2
        BY <2>0 DEF CanRef
      <4>3. refcnt' = refcnt \/ (~ht /\ refcnt' = refcnt + 1)
        BY <2>1
      <4>. QED  BY <4>1, <4>2, <4>3
    <3>2. DOMAIN strs' \subseteq Strings /\ \A t \in DOMAIN strs' : strs'[t] \in Stored
      <4>1. DOMAIN strs' \subseteq Strings
        BY <1>1, <2>2 DEF TypeOK
      <4>2. \A t \in Strings : LenOf[t] \in Nat
        BY AllocAssumption
      <4>3. ASSUME NEW t \in DOMAIN strs' PROVE strs'[t] \in Stored
        <5>1. PICK x \in {8, 16} : strs'[t] = [width |-> x, len |-> LenOf[t]]
          BY <2>3 DEF StoredAsAsked
        <5>. QED  BY <5>1, <4>1, <4>2 DEF Stored
      <4>. QED  BY <4>1, <4>3
    <3>3. got' \in Strings \X Stored \X {8, 16}
      <4>1. strs'[s] \in Stored
        BY <2>2, <3>2
      <4>. QED  BY <1>1, <2>0, <4>1
    <3>. QED  BY <2>0, <3>1, <3>2, <3>3 DEF TypeOK, AllocStr, search
  <2>7. LivesWhileHeld'
    <3>1. Cardinality(held) \in Nat /\ refcnt \in Nat /\ ht \in BOOLEAN
      BY HeldFinite DEF TypeOK
    <3>2. References = refcnt + 1 /\ held # {} /\ life' = "live" /\ held' = held
      BY <2>0, <2>1 DEF LivesWhileHeld
    <3>3. References' = refcnt' + 1
      BY <2>0, <2>1, <3>1, <3>2 DEF References
    <3>. QED  BY <3>2, <3>3 DEF LivesWhileHeld
  <2>8. Searching'
    BY NoSearch DEF AllocStr
  <2>. QED  BY <2>3, <2>5, <2>6, <2>7, <2>8
<1>. QED  BY <1>3, <1>4

-----------------------------------------------------------------------------
\* Steps that leave the allocator as it is, or dead.
LEMMA ArenaStays ==
  ASSUME IndInv, TypeOK', Searching', UNCHANGED <<refcnt, held, ht, strs, got>>,
         life' = life \/ life' = "dead"
  PROVE  IndInv'
<1>1. LivesWhileHeld'
  BY DEF IndInv, LivesWhileHeld, References
<1>. QED  BY <1>1, StringsStay DEF IndInv

LEMMA TupleIndInv ==
  ASSUME IndInv, \/ \E t \in Tuples : TupleNew(t)
                 \/ TupleRef \/ TupleFree \/ Sort
                 \/ \E i \in -1 .. MaxTuple, x \in Items : SetNth(i, x)
  PROVE  IndInv'
<1> USE DEF IndInv, search, arena
<1>1. ASSUME NEW t \in Tuples, TupleNew(t) PROVE IndInv'
  <2>1. PICK n \in 0 .. MaxTuple : t \in [1 .. n -> Items]
    BY DEF Tuples
  <2>2. t \in Seq(Items)
    BY <2>1
  <2>3. TypeOK'
    BY <1>1, <2>2, AllocAssumption DEF TypeOK, TupleNew
  <2>4. pc = "idle"
    BY <1>1 DEF TupleNew, Searching
  <2>. QED  BY <1>1, <2>3, <2>4, ArenaStays DEF TupleNew, Searching
<1>2. ASSUME TupleRef \/ TupleFree PROVE IndInv'
  <2>1. TypeOK'
    BY <1>2, AllocAssumption DEF TypeOK, TupleRef, TupleFree, HasTuple
  <2>2. Searching'
    BY <1>2 DEF TupleRef, TupleFree, HasTuple, Searching
  <2>. QED  BY <1>2, <2>1, <2>2, ArenaStays DEF TupleRef, TupleFree
<1>3. ASSUME Sort PROVE IndInv'
  <2>1. tuple' \in Seq(Items)
    BY <1>3 DEF Sort, TypeOK
  <2>2. TypeOK'
    BY <1>3, <2>1 DEF TypeOK, Sort
  <2>3. Searching'
    BY <1>3 DEF Searching, Sort, HasTuple
  <2>. QED  BY <1>3, <2>2, <2>3, ArenaStays DEF Sort
<1>4. ASSUME NEW i \in -1 .. MaxTuple, NEW x \in Items, SetNth(i, x) PROVE IndInv'
  <2>1. tuple' \in Seq(Items) /\ life' \in {life, "dead"}
    BY <1>4 DEF SetNth, TypeOK
  <2>2. TypeOK'
    BY <1>4, <2>1 DEF TypeOK, SetNth
  <2>3. Searching'
    BY <1>4 DEF Searching, SetNth, HasTuple
  <2>. QED  BY <1>4, <2>1, <2>2, <2>3, ArenaStays DEF SetNth
<1>. QED  BY <1>1, <1>2, <1>3, <1>4

-----------------------------------------------------------------------------
\* What cmpf sees of the items of a tuple.
LEMMA NthIsNat == ASSUME TypeOK, NEW i \in 0 .. Len(tuple) - 1 PROVE Nth(i) \in Nat
<1>1. i + 1 \in 1 .. Len(tuple)
  BY DEF TypeOK
<1>2. tuple[i + 1] \in Items
  BY <1>1 DEF TypeOK
<1>. QED  BY <1>2, AllocAssumption DEF Nth

LEMMA SortedNth ==
  ASSUME TypeOK, Sorted(tuple), NEW i \in 0 .. Len(tuple) - 1, NEW j \in 0 .. Len(tuple) - 1, i <= j
  PROVE  Nth(i) <= Nth(j)
<1>1. i + 1 \in 1 .. Len(tuple) /\ j + 1 \in 1 .. Len(tuple)
  BY DEF TypeOK
<1>2. CASE i = j
  BY <1>2, NthIsNat
<1>3. CASE i < j
  <2>1. i + 1 < j + 1 /\ i + 1 \in DOMAIN tuple /\ j + 1 \in DOMAIN tuple
    BY <1>1, <1>3 DEF TypeOK
  <2>2. \A a, b \in DOMAIN tuple : a < b => KeyOf[tuple[a]] <= KeyOf[tuple[b]]
    BY DEF Sorted
  <2>. QED  BY <2>1, <2>2 DEF Nth
<1>. QED  BY <1>1, <1>2, <1>3

\* The half of the tuple that a step of bsearch_voidp_tu drops does not hold
\* the key.
LEMMA SearchIndInv ==
  ASSUME IndInv, (\E x \in Items : Bsearch(KeyOf[x])) \/ Halve \/ NotFound \/ Back PROVE IndInv'
<1> USE DEF IndInv, arena
<1> DEFINE N == Len(tuple)
<1>0. N \in Nat
  BY DEF TypeOK
<1>1. ASSUME NEW x \in Items, Bsearch(KeyOf[x]) PROVE IndInv'
  <2>1. KeyOf[x] \in Nat
    BY AllocAssumption
  <2>2. TypeOK'
    BY <1>0, <1>1, <2>1 DEF TypeOK, Bsearch
  <2>3. Searching'
    BY <1>0, <1>1 DEF Searching, Bsearch, HasTuple, Nth, Sorted
  <2>. QED  BY <1>1, <2>2, <2>3, ArenaStays DEF Bsearch
<1>2. ASSUME Halve PROVE IndInv'
  <2>1. /\ pc = "halve" /\ l < r /\ r <= N /\ l \in Nat /\ r \in Nat /\ Sorted(tuple)
        /\ Middle \in 0 .. N - 1 /\ Middle \in l .. r - 1 /\ key \in Nat
    BY <1>0, <1>2 DEF Halve, Searching, TypeOK, Middle
  <2>2. Nth(Middle) \in Nat
    BY <2>1, NthIsNat
  <2>3. CASE Nth(Middle) = key
    <3>1. idx' = Middle /\ pc' = "back" /\ UNCHANGED <<l, r, tuple, trefs, key>>
      BY <1>2, <2>1, <2>2, <2>3 DEF Halve
    <3>2. TypeOK'
      BY <1>2, <2>1, <3>1 DEF Halve, TypeOK
    <3>3. Searching'
      BY <1>2, <2>1, <2>3, <3>1 DEF Halve, Searching, Nth, Sorted
    <3>. QED  BY <1>2, <3>2, <3>3, ArenaStays DEF Halve
  <2>4. CASE Nth(Middle) > key
    <3>1. r' = Middle /\ UNCHANGED <<l, idx, pc, tuple, trefs, key>>
      BY <1>2, <2>2, <2>1, <2>4 DEF Halve
    <3>2. TypeOK'
      BY <1>2, <2>1, <3>1 DEF Halve, TypeOK
    <3>3. ASSUME NEW i \in 0 .. N - 1, i >= Middle PROVE Nth(i) > key
      BY <1>0, <2>1, <2>2, <2>4, <3>3, SortedNth, NthIsNat
    <3>4. Searching'
      <4>1. /\ pc = "halve" /\ pc' = "halve" /\ tuple' = tuple /\ trefs' = trefs /\ key' = key
            /\ idx' = idx
            /\ l' = l /\ r' = Middle /\ Middle <= N
        BY <2>1, <3>1
      <4>2. Sorted(tuple) /\ trefs >= 0 /\ idx = -1 /\ \A i \in 0 .. N - 1 : i < l => Nth(i) < key
        BY <4>1 DEF Searching
      <4>. QED  BY <3>3, <4>1, <4>2 DEF Searching, Nth, Sorted
    <3>. QED  BY <1>2, <3>2, <3>4, ArenaStays DEF Halve
  <2>5. CASE Nth(Middle) < key
    <3>1. l' = Middle + 1 /\ UNCHANGED <<r, idx, pc, tuple, trefs, key>>
      BY <1>2, <2>2, <2>1, <2>5 DEF Halve, AfterMiddle
    <3>2. TypeOK'
      BY <1>2, <2>1, <3>1 DEF Halve, TypeOK
    <3>3. ASSUME NEW i \in 0 .. N - 1, i < Middle + 1 PROVE Nth(i) < key
      BY <1>0, <2>1, <2>2, <2>5, <3>3, SortedNth, NthIsNat
    <3>4. Searching'
      BY <2>1, <3>1, <3>3 DEF Searching, Nth, Sorted
    <3>. QED  BY <1>2, <3>2, <3>4, ArenaStays DEF Halve
  <2>. QED  BY <2>1, <2>2, <2>3, <2>4, <2>5
<1>3. ASSUME NotFound PROVE IndInv'
  <2>1. TypeOK' /\ Searching'
    BY <1>3 DEF TypeOK, NotFound, Searching
  <2>. QED  BY <1>3, <2>1, ArenaStays DEF NotFound
<1>4. ASSUME Back PROVE IndInv'
  <2>1. TypeOK'
    BY <1>4 DEF TypeOK, Back
  <2>2. idx \in 0 .. N - 1 /\ Nth(idx) = key /\ Sorted(tuple) /\ pc = "back"
    BY <1>4 DEF Searching, Back
  <2>3. CASE GoesBack
    <3>1. idx' = idx - 1 /\ pc' = pc /\ Nth(idx - 1) = key /\ idx > 0
      BY <1>4, <2>3 DEF Back, GoesBack
    <3>. QED  BY <1>0, <1>4, <2>1, <2>2, <3>1, ArenaStays DEF Back, Searching, Nth, Sorted
  <2>4. CASE ~GoesBack
    BY <1>4, <2>1, <2>4, ArenaStays DEF Back, Searching
  <2>. QED  BY <2>3, <2>4
<1>. QED  BY <1>1, <1>2, <1>3, <1>4

-----------------------------------------------------------------------------
LEMMA NextIndInv == ASSUME IndInv, OneWidth, [Next]_vars PROVE IndInv'
<1>1. ASSUME NEW u \in Users, NEW k \in {"malloc", "obstack"}, New(u, k) PROVE IndInv'
  BY <1>1, NewIndInv
<1>2. ASSUME NEW u \in Users, Free(u) PROVE IndInv'
  BY <1>2, FreeIndInv
<1>3. ASSUME NEW u \in Users, NEW v \in Users, Ref(u, v) PROVE IndInv'
  BY <1>3, RefIndInv
<1>4. ASSUME NEW u \in Users, NEW q \in Requests, AllocStr(u, q[1], q[2]) PROVE IndInv'
  BY <1>4, AllocStrIndInv
<1>5. CASE UNCHANGED vars
  <2>1. TypeOK' /\ Searching'
    BY <1>5 DEF IndInv, TypeOK, Searching, Sorted, Nth, vars, arena, search
  <2>. QED  BY <1>5, <2>1, ArenaStays DEF vars, arena
<1>. QED  BY <1>1, <1>2, <1>3, <1>4, <1>5, TupleIndInv, SearchIndInv DEF Next, Loops

\* The variables of an allocator, of its table of strings and of a tuple in
\* its memory keep their types: the count of n_ref stays within its 16 bits,
\* and the cells n_tuple_set_nth and the searches touch are items.
THEOREM TypeCorrect == ASSUME OneWidth PROVE Spec => []TypeOK
<1>1. IndInv => TypeOK
  BY DEF IndInv
<1>. QED  BY <1>1, InitIndInv, NextIndInv, PTL DEF Spec

\* An allocator that is shared lives exactly as long as somebody holds it,
\* however n_ref and n_alloc_free are interleaved with the making of its own
\* table of strings, which holds a reference too; and na_alloc_str8 and 16
\* return the string they were asked for.
THEOREM SharedCorrect == ASSUME OneWidth PROVE Spec => []SharedWell
<1>1. IndInv => SharedWell
  BY DEF IndInv, SharedWell
<1>. QED  BY <1>1, InitIndInv, NextIndInv, PTL DEF Spec

\* n_tuple_bsearch_idx_ex returns the first of the items that compare equal
\* to the key, and -1 only when there is none.
THEOREM SearchCorrect == ASSUME OneWidth PROVE Spec => FirstOfEquals
<1> DEFINE Answer ==
      Loops /\ pc' = "idle" =>
        /\ idx' = -1 => \A i \in DOMAIN tuple : KeyOf[tuple[i]] # key
        /\ idx' # -1 => /\ Nth(idx') = key
                        /\ \A i \in 0 .. idx' - 1 : Nth(i) # key
<1>1. ASSUME IndInv, Loops, pc' = "idle" PROVE Answer
  <2>0. Len(tuple) \in Nat /\ DOMAIN tuple = 1 .. Len(tuple) /\ key \in Nat /\ l \in Nat /\ r \in Nat
    BY <1>1 DEF IndInv, TypeOK
  <2>1. CASE Halve
    <3>1. pc' # "idle"
      <4>1. Middle \in 0 .. Len(tuple) - 1
        BY <1>1, <2>0, <2>1 DEF Halve, IndInv, Searching, Middle
      <4>2. Nth(Middle) \in Nat
        BY <1>1, <4>1, NthIsNat DEF IndInv
      <4>. QED  BY <2>0, <2>1, <4>2 DEF Halve
    <3>. QED  BY <1>1, <3>1
  <2>2. CASE NotFound
    <3>1. idx' = -1 /\ l >= r /\ pc = "halve"
      BY <1>1, <2>2 DEF NotFound, IndInv, Searching
    <3>2. ASSUME NEW i \in DOMAIN tuple PROVE KeyOf[tuple[i]] # key
      <4>1. i - 1 \in 0 .. Len(tuple) - 1 /\ (i - 1) + 1 = i
        BY <2>0
      <4>2. Nth(i - 1) \in Nat /\ Nth(i - 1) = KeyOf[tuple[i]]
        BY <1>1, <4>1, NthIsNat DEF IndInv, Nth
      <4>3. (i - 1 < l => Nth(i - 1) < key) /\ (i - 1 >= r => Nth(i - 1) > key)
        BY <1>1, <3>1, <4>1 DEF IndInv, Searching
      <4>. QED  BY <2>0, <3>1, <4>1, <4>2, <4>3
    <3>. QED  BY <3>1, <3>2
  <2>3. CASE Back
    <3>1. /\ idx \in 0 .. Len(tuple) - 1 /\ Nth(idx) = key /\ Sorted(tuple)
          /\ idx' = idx /\ ~GoesBack
      BY <1>1, <2>3 DEF Back, IndInv, Searching
    <3>2. ASSUME NEW i \in 0 .. idx - 1 PROVE Nth(i) # key
      <4>1. i \in 0 .. Len(tuple) - 1 /\ idx - 1 \in 0 .. Len(tuple) - 1 /\ i <= idx - 1 /\ idx > 0
        BY <2>0, <3>1
      <4>2. Nth(idx - 1) # key
        BY <3>1, <4>1 DEF GoesBack
      <4>3. Nth(i) <= Nth(idx - 1) /\ Nth(idx - 1) <= Nth(idx)
        BY <1>1, <2>0, <3>1, <4>1, SortedNth DEF IndInv
      <4>4. Nth(i) \in Nat /\ Nth(idx - 1) \in Nat
        BY <1>1, <4>1, NthIsNat DEF IndInv
      <4>. QED  BY <2>0, <3>1, <4>2, <4>3, <4>4
    <3>. QED  BY <2>0, <3>1, <3>2
  <2>. QED  BY <1>1, <2>1, <2>2, <2>3 DEF Loops
<1>2. IndInv /\ [Next]_vars => [Answer]_vars
  BY <1>1
<1>. QED  BY <1>2, InitIndInv, NextIndInv, PTL DEF Spec, FirstOfEquals

-----------------------------------------------------------------------------
Object == [at : 0 .. Top, len : 0 .. Top]

Has(c, o)   == c.at + Header <= o.at /\ o.at + o.len <= c.limit
Apart(c, d) == c.limit <= d.at \/ d.limit <= c.at

\* Chunks cs, the newest first.
ChunksOK(cs) ==
  /\ \A k \in 1 .. Len(cs) :
       cs[k].at > 0 /\ cs[k].at % Alignment = 0 /\ cs[k].at + Header <= cs[k].limit
  /\ \A j, k \in 1 .. Len(cs) : j # k => Apart(cs[j], cs[k])

\* The object that grows, from b to e, in the first of chunks cs.
GrowingOK(cs, b, e, lim) ==
  /\ b <= e /\ e <= lim
  /\ cs # <<>> => lim = cs[1].limit /\ cs[1].at + Header <= b

StartsWell(a, lim) == a % Alignment = 0 \/ a = lim

\* Objects os lie in chunks cs,
Placed(cs, os) ==
  \A i \in 1 .. Len(os) : \E k \in 1 .. Len(cs) :
    Has(cs[k], os[i]) /\ StartsWell(os[i].at, cs[k].limit)

\* those in the first before b, where the one that grows begins,
Below(cs, os, b, emp) ==
  cs # <<>> => \A i \in 1 .. Len(os) :
    Has(cs[1], os[i]) => os[i].at + os[i].len <= b /\ (os[i].len > 0 \/ emp)

\* and a later one in the same or in a later chunk.
InOrder(cs, os) ==
  \A i, j \in 1 .. Len(os), k, m \in 1 .. Len(cs) :
    j < i /\ Has(cs[k], os[j]) /\ Has(cs[m], os[i]) =>
      m <= k /\ (m = k => os[j].at + os[j].len <= os[i].at)

ObstackInv ==
  /\ ObstackTypeOK /\ ChunksOK(chunks) /\ GrowingOK(chunks, base, next, limit)
  /\ state = "live" =>
       /\ StartsWell(base, limit)
       /\ chunks = <<>> => failed /\ objs = <<>> /\ base = next
       /\ Placed(chunks, objs) /\ Below(chunks, objs, base, empty) /\ InOrder(chunks, objs)

-----------------------------------------------------------------------------
LEMMA DivisionIs ==
  ASSUME NEW A \in Nat \ {0}, NEW a \in Int
  PROVE  a = A * (a \div A) + (a % A) /\ a \div A \in Int /\ a % A \in 0 .. A - 1
  OBVIOUS

LEMMA MultipleIs == ASSUME NEW A \in Nat \ {0}, NEW q \in Int PROVE (A * q) % A = 0
  OBVIOUS

LEMMA SumAligned ==
  ASSUME NEW A \in Nat \ {0}, NEW a \in Int, NEW b \in Int, a % A = 0, b % A = 0
  PROVE  (a + b) % A = 0
<1>1. a = A * (a \div A) /\ b = A * (b \div A) /\ a \div A \in Int /\ b \div A \in Int
  BY DivisionIs
<1>2. PICK p \in Int : a = A * p
  BY <1>1
<1>3. PICK q \in Int : b = A * q
  BY <1>1
<1>4. a + b = A * (p + q)
  BY <1>2, <1>3
<1>. QED  BY <1>4, MultipleIs

LEMMA AlignedIs ==
  ASSUME NEW a \in Nat PROVE Aligned(a) \in Nat /\ Aligned(a) >= a /\ Aligned(a) % Alignment = 0
<1> DEFINE m == (-a) % Alignment
           q == (-a) \div Alignment
<1>1. m \in 0 .. Alignment - 1 /\ q \in Int /\ -a = Alignment * q + m
  BY ObstackAssumption, DivisionIs
<1>2. Aligned(a) = a + m
  BY DEF Aligned
<1> HIDE DEF m, q
<1>3. a + m = Alignment * (-q)
  BY <1>1, ObstackAssumption
<1>4. PICK p \in Int : p = -q
  BY <1>1
<1>5. (Alignment * p) % Alignment = 0
  BY MultipleIs, ObstackAssumption
<1>. QED  BY <1>1, <1>2, <1>3, <1>4, <1>5, ObstackAssumption

LEMMA FinishAtIs ==
  ASSUME NEW end \in Nat, NEW lim \in Nat, end <= lim
  PROVE  FinishAt(end, lim) \in end .. lim /\ StartsWell(FinishAt(end, lim), lim)
  BY AlignedIs DEF FinishAt, StartsWell

-----------------------------------------------------------------------------
LEMMA OneChunk ==
  ASSUME NEW c \in Chunk, NEW d \in Chunk, NEW o \in Object, Has(c, o), Has(d, o)
  PROVE  ~Apart(c, d)
<1>1. /\ c.at \in Int /\ c.limit \in Int /\ d.at \in Int /\ d.limit \in Int /\ o.at \in Int
      /\ o.len \in Nat /\ Header \in Nat \ {0}
  BY ObstackAssumption DEF Chunk, Object, Addresses
<1>2. /\ c.at + Header <= o.at /\ o.at + o.len <= c.limit
      /\ d.at + Header <= o.at /\ o.at + o.len <= d.limit
  BY DEF Has
<1>. QED  BY <1>1, <1>2 DEF Apart

LEMMA OneOfChunks ==
  ASSUME NEW cs \in Seq(Chunk), ChunksOK(cs), NEW o \in Object,
         NEW j \in 1 .. Len(cs), NEW k \in 1 .. Len(cs), Has(cs[j], o), Has(cs[k], o)
  PROVE  j = k
<1>1. cs[j] \in Chunk /\ cs[k] \in Chunk
  OBVIOUS
<1>. QED  BY <1>1, OneChunk DEF ChunksOK

\* A chunk in front of the others.
LEMMA MoreChunks ==
  ASSUME NEW cs \in Seq(Chunk), NEW os \in Seq(Object), NEW c \in Chunk,
         ChunksOK(cs), Placed(cs, os), InOrder(cs, os),
         c.at > 0, c.at % Alignment = 0, c.at + Header <= c.limit,
         \A k \in 1 .. Len(cs) : Apart(c, cs[k]),
         NEW ds \in Seq(Chunk), Len(ds) = Len(cs) + 1, ds[1] = c,
         \A k \in 2 .. Len(cs) + 1 : ds[k] = cs[k - 1]
  PROVE  /\ ChunksOK(ds)
         /\ Placed(ds, os) /\ InOrder(ds, os) /\ \A i \in 1 .. Len(os) : ~Has(c, os[i])
<1>1. /\ Len(ds) = Len(cs) + 1 /\ Len(cs) \in Nat /\ ds[1] = c
      /\ \A k \in 2 .. Len(cs) + 1 : ds[k] = cs[k - 1]
  OBVIOUS
<1>2. \A k \in 1 .. Len(cs) : cs[k] \in Chunk
  OBVIOUS
<1>3. \A k \in 1 .. Len(ds) :
        ds[k].at > 0 /\ ds[k].at % Alignment = 0 /\ ds[k].at + Header <= ds[k].limit
  <2> SUFFICES ASSUME NEW k \in 1 .. Len(ds)
               PROVE  ds[k].at > 0 /\ ds[k].at % Alignment = 0 /\ ds[k].at + Header <= ds[k].limit
    OBVIOUS
  <2>1. CASE k = 1
    BY <2>1, <1>1
  <2>2. CASE k # 1
    <3>1. k - 1 \in 1 .. Len(cs) /\ ds[k] = cs[k - 1]
      BY <2>2, <1>1
    <3>. QED  BY <3>1 DEF ChunksOK
  <2>. QED  BY <2>1, <2>2
<1>4. \A j, k \in 1 .. Len(ds) : j # k => Apart(ds[j], ds[k])
  <2> SUFFICES ASSUME NEW j \in 1 .. Len(ds), NEW k \in 1 .. Len(ds), j # k PROVE Apart(ds[j], ds[k])
    OBVIOUS
  <2>1. CASE j # 1 /\ k # 1
    <3>1. j - 1 \in 1 .. Len(cs) /\ k - 1 \in 1 .. Len(cs) /\ ds[j] = cs[j - 1] /\ ds[k] = cs[k - 1]
      BY <2>1, <1>1
    <3>2. j - 1 # k - 1
      OBVIOUS
    <3>3. Apart(cs[j - 1], cs[k - 1])
      BY <3>1, <3>2 DEF ChunksOK
    <3>. QED  BY <3>1, <3>3
  <2>2. CASE j = 1
    <3>1. k - 1 \in 1 .. Len(cs) /\ ds[j] = c /\ ds[k] = cs[k - 1]
      BY <2>2, <1>1
    <3>. QED  BY <3>1
  <2>3. CASE k = 1
    <3>1. j - 1 \in 1 .. Len(cs) /\ ds[k] = c /\ ds[j] = cs[j - 1]
      BY <2>3, <1>1
    <3>. QED  BY <3>1 DEF Apart
  <2>. QED  BY <2>1, <2>2, <2>3
<1>5. \A i \in 1 .. Len(os) : ~Has(c, os[i])
  <2> SUFFICES ASSUME NEW i \in 1 .. Len(os) PROVE ~Has(c, os[i])
    OBVIOUS
  <2>1. PICK k \in 1 .. Len(cs) : Has(cs[k], os[i])
    BY DEF Placed
  <2>2. os[i] \in Object
    OBVIOUS
  <2>. QED  BY <2>1, <2>2, <1>2, OneChunk
<1>6. Placed(ds, os)
  <2> SUFFICES ASSUME NEW i \in 1 .. Len(os)
               PROVE  \E k \in 1 .. Len(ds) : Has(ds[k], os[i]) /\ StartsWell(os[i].at, ds[k].limit)
    BY DEF Placed
  <2>1. PICK k \in 1 .. Len(cs) : Has(cs[k], os[i]) /\ StartsWell(os[i].at, cs[k].limit)
    BY DEF Placed
  <2>2. k + 1 \in 1 .. Len(ds) /\ ds[k + 1] = cs[k]
    BY <1>1
  <2>. QED  BY <2>1, <2>2
<1>7. InOrder(ds, os)
  <2> SUFFICES ASSUME NEW i \in 1 .. Len(os), NEW j \in 1 .. Len(os), NEW k \in 1 .. Len(ds),
                      NEW m \in 1 .. Len(ds), j < i, Has(ds[k], os[j]), Has(ds[m], os[i])
               PROVE  m <= k /\ (m = k => os[j].at + os[j].len <= os[i].at)
    BY DEF InOrder
  <2>1. k # 1 /\ m # 1
    BY <1>1, <1>5
  <2>2. k - 1 \in 1 .. Len(cs) /\ m - 1 \in 1 .. Len(cs) /\ ds[k] = cs[k - 1] /\ ds[m] = cs[m - 1]
    BY <2>1, <1>1
  <2>. QED  BY <2>2 DEF InOrder
<1>. QED  BY <1>1, <1>3, <1>4, <1>5, <1>6, <1>7 DEF ChunksOK

\* Without the first s chunks, when no object is in them.
LEMMA FewerChunks ==
  ASSUME NEW cs \in Seq(Chunk), NEW os \in Seq(Object),
         ChunksOK(cs), Placed(cs, os), InOrder(cs, os),
         NEW s \in 0 .. Len(cs), NEW ds \in Seq(Chunk), Len(ds) = Len(cs) - s,
         \A k \in 1 .. Len(ds) : ds[k] = cs[k + s],
         \A i \in 1 .. Len(os), k \in 1 .. s : ~Has(cs[k], os[i])
  PROVE  ChunksOK(ds) /\ Placed(ds, os) /\ InOrder(ds, os)
<1>1. \A k \in 1 .. Len(ds) : k + s \in 1 .. Len(cs)
  OBVIOUS
<1>2. ChunksOK(ds)
  <2>1. \A k \in 1 .. Len(ds) :
          ds[k].at > 0 /\ ds[k].at % Alignment = 0 /\ ds[k].at + Header <= ds[k].limit
    BY <1>1 DEF ChunksOK
  <2>2. ASSUME NEW j \in 1 .. Len(ds), NEW k \in 1 .. Len(ds), j # k PROVE Apart(ds[j], ds[k])
    <3>1. j + s \in 1 .. Len(cs) /\ k + s \in 1 .. Len(cs)
      BY <1>1
    <3>2. j + s # k + s
      BY <2>2
    <3>3. Apart(cs[j + s], cs[k + s])
      BY <3>1, <3>2 DEF ChunksOK
    <3>. QED  BY <3>3
  <2>. QED  BY <2>1, <2>2 DEF ChunksOK
<1>3. Placed(ds, os)
  <2> SUFFICES ASSUME NEW i \in 1 .. Len(os)
               PROVE  \E k \in 1 .. Len(ds) : Has(ds[k], os[i]) /\ StartsWell(os[i].at, ds[k].limit)
    BY DEF Placed
  <2>1. PICK k \in 1 .. Len(cs) : Has(cs[k], os[i]) /\ StartsWell(os[i].at, cs[k].limit)
    BY DEF Placed
  <2>2. k > s
    BY <2>1
  <2>3. k - s \in 1 .. Len(ds) /\ ds[k - s] = cs[k]
    BY <2>2
  <2>. QED  BY <2>1, <2>3
<1>4. InOrder(ds, os)
  <2> SUFFICES ASSUME NEW i \in 1 .. Len(os), NEW j \in 1 .. Len(os), NEW k \in 1 .. Len(ds),
                      NEW m \in 1 .. Len(ds), j < i, Has(ds[k], os[j]), Has(ds[m], os[i])
               PROVE  m <= k /\ (m = k => os[j].at + os[j].len <= os[i].at)
    BY DEF InOrder
  <2>1. /\ k + s \in 1 .. Len(cs) /\ m + s \in 1 .. Len(cs) /\ Has(cs[k + s], os[j])
        /\ Has(cs[m + s], os[i])
    BY <1>1
  <2>2. m + s <= k + s /\ (m + s = k + s => os[j].at + os[j].len <= os[i].at)
    BY <2>1 DEF InOrder
  <2>. QED  BY <2>2
<1>. QED  BY <1>2, <1>3, <1>4

\* One object more, in the first chunk.
LEMMA MoreObjects ==
  ASSUME NEW cs \in Seq(Chunk), cs # <<>>, ChunksOK(cs), NEW os \in Seq(Object), NEW o \in Object,
         Placed(cs, os), InOrder(cs, os), NEW emp \in BOOLEAN, NEW now \in BOOLEAN, emp => now,
         Below(cs, os, o.at, emp), Has(cs[1], o), StartsWell(o.at, cs[1].limit), o.len > 0 \/ now,
         NEW b \in Nat, o.at + o.len <= b, NEW ps, ps = Append(os, o)
  PROVE  ps \in Seq(Object) /\ Placed(cs, ps) /\ InOrder(cs, ps) /\ Below(cs, ps, b, now)
<1>1. /\ ps \in Seq(Object) /\ Len(ps) = Len(os) + 1 /\ ps[Len(os) + 1] = o
      /\ \A i \in 1 .. Len(os) : ps[i] = os[i] /\ os[i] \in Object
  OBVIOUS
<1>2. 1 \in 1 .. Len(cs) /\ o.at \in Nat /\ o.len \in Nat
  BY DEF Object
<1>3. Placed(cs, ps)
  <2> SUFFICES ASSUME NEW i \in 1 .. Len(ps)
               PROVE  \E k \in 1 .. Len(cs) : Has(cs[k], ps[i]) /\ StartsWell(ps[i].at, cs[k].limit)
    BY DEF Placed
  <2>1. CASE i \in 1 .. Len(os)
    BY <2>1, <1>1 DEF Placed
  <2>2. CASE i = Len(os) + 1
    BY <2>2, <1>1, <1>2
  <2>. QED  BY <2>1, <2>2, <1>1
<1>4. InOrder(cs, ps)
  <2> SUFFICES ASSUME NEW i \in 1 .. Len(ps), NEW j \in 1 .. Len(ps), NEW k \in 1 .. Len(cs),
                      NEW m \in 1 .. Len(cs), j < i, Has(cs[k], ps[j]), Has(cs[m], ps[i])
               PROVE  m <= k /\ (m = k => ps[j].at + ps[j].len <= ps[i].at)
    BY DEF InOrder
  <2>1. j \in 1 .. Len(os) /\ ps[j] = os[j]
    BY <1>1
  <2>2. CASE i \in 1 .. Len(os)
    BY <2>1, <2>2, <1>1 DEF InOrder
  <2>3. CASE i = Len(os) + 1
    <3>1. m = 1
      BY <2>3, <1>1, <1>2, OneOfChunks
    <3>2. m = k => ps[j].at + ps[j].len <= ps[i].at
      BY <3>1, <2>1, <2>3, <1>1 DEF Below
    <3>. QED  BY <3>1, <3>2
  <2>. QED  BY <2>2, <2>3, <1>1
<1>5. Below(cs, ps, b, now)
  <2> SUFFICES ASSUME NEW i \in 1 .. Len(ps), Has(cs[1], ps[i])
               PROVE  ps[i].at + ps[i].len <= b /\ (ps[i].len > 0 \/ now)
    BY DEF Below
  <2>1. CASE i \in 1 .. Len(os)
    <3>1. os[i].at + os[i].len <= o.at /\ (os[i].len > 0 \/ emp)
      BY <2>1, <1>1 DEF Below
    <3>2. os[i].at \in Nat /\ os[i].len \in Nat
      BY <2>1, <1>1 DEF Object
    <3>3. os[i].at + os[i].len <= b
      BY <3>1, <3>2, <1>2
    <3>. QED  BY <2>1, <3>1, <3>3, <1>1
  <2>2. CASE i = Len(os) + 1
    BY <2>2, <1>1
  <2>. QED  BY <2>1, <2>2, <1>1
<1>. QED  BY <1>1, <1>3, <1>4, <1>5

-----------------------------------------------------------------------------
LEMMA ChunkIs == ASSUME NEW c \in Chunk PROVE c.at \in Nat /\ c.at < Top /\ c.limit \in 0 .. Top
  BY ObstackAssumption DEF Chunk, Addresses

LEMMA ObjectIs == ASSUME NEW o \in Object PROVE o.at \in 0 .. Top /\ o.len \in 0 .. Top
  BY DEF Object

LEMMA ObstackTypes ==
  ASSUME ObstackInv
  PROVE  /\ chunks \in Seq(Chunk) /\ objs \in Seq(Object)
         /\ base \in Nat /\ next \in Nat /\ limit \in Nat /\ base <= next /\ next <= limit
         /\ limit <= Top
         /\ Header \in Nat \ {0} /\ Alignment \in Nat \ {0} /\ Top \in Nat
         /\ \A k \in 1 .. Len(chunks) :
              chunks[k] \in Chunk /\ chunks[k].at \in Nat /\ chunks[k].limit \in 0 .. Top
         /\ \A i \in 1 .. Len(objs) : objs[i] \in Object /\ objs[i].at \in Nat /\ objs[i].len \in Nat
<1>1. chunks \in Seq(Chunk) /\ objs \in Seq(Object) /\ Top \in Nat
  BY ObstackAssumption DEF ObstackInv, ObstackTypeOK, Object
<1>2. \A k \in 1 .. Len(chunks) :
        chunks[k] \in Chunk /\ chunks[k].at \in Nat /\ chunks[k].limit \in 0 .. Top
  BY <1>1, ChunkIs
<1>3. \A i \in 1 .. Len(objs) : objs[i] \in Object /\ objs[i].at \in Nat /\ objs[i].len \in Nat
  BY <1>1, ObjectIs
<1>. QED  BY <1>1, <1>2, <1>3, ObstackAssumption DEF ObstackInv, ObstackTypeOK, GrowingOK

\* malloc's answer when there is no room for n bytes.
LEMMA MallocIs ==
  ASSUME ObstackInv, NEW n \in Nat, NEW c \in Malloc(NewSize(n))
  PROVE  /\ c \in Chunk /\ c.at \in Nat /\ c.limit \in Nat /\ c.limit <= Top
         /\ c.at > 0 /\ c.at % Alignment = 0 /\ c.at + Header + (next - base) + n <= c.limit
         /\ \A k \in 1 .. Len(chunks) : Apart(c, chunks[k])
<1> DEFINE size == NewSize(n)
<1>1. size \in Nat /\ size >= (next - base) + n + Header
  <2>1. next - base \in Nat
    BY ObstackTypes
  <2>2. PICK d \in Nat : d = next - base
    BY <2>1
  <2>3. d \div 8 \in Nat /\ Extra \in Nat /\ Extra >= Header /\ ChunkSize \in Nat /\ Header \in Nat
    BY <2>2, ObstackAssumption
  <2>4. NewSize(n) = IF (d + n) + d \div 8 + Extra < ChunkSize THEN ChunkSize
                     ELSE (d + n) + d \div 8 + Extra
    BY <2>2 DEF NewSize
  <2>. QED  BY <2>2, <2>3, <2>4
<1> HIDE DEF size
<1>2. PICK a \in Addresses : c = [at |-> a, limit |-> a + size]
  BY DEF Malloc, size
<1>3. CanHave(c)
  BY DEF Malloc
<1>4. /\ a \in Nat /\ c.at = a /\ c.limit = a + size /\ next - base \in Nat /\ Top \in Nat
      /\ Header \in Nat
  BY <1>2, ObstackTypes DEF Addresses
<1>5. c.limit <= Top /\ c.at > 0 /\ c.at % Alignment = 0
  BY <1>3 DEF CanHave
<1>6. c \in Chunk
  BY <1>1, <1>2, <1>4, <1>5 DEF Chunk
<1>7. \A k \in 1 .. Len(chunks) : Apart(c, chunks[k])
  BY <1>3, ObstackTypes DEF CanHave, Apart
<1>. QED  BY <1>1, <1>4, <1>5, <1>6, <1>7

\* If the object that grows is all there is in its chunk, no other is in it.
LEMMA NoneInFirst ==
  ASSUME ObstackInv, state = "live", OnlyThat, NEW i \in 1 .. Len(objs)
  PROVE  ~Has(chunks[1], objs[i])
<1>1. objs[i].at \in Nat /\ objs[i].len \in Nat
  BY ObstackTypes
<1>2. chunks # <<>> /\ base = chunks[1].at + Header /\ ~empty
  BY DEF OnlyThat
<1>3. Has(chunks[1], objs[i]) => objs[i].at + objs[i].len <= base /\ objs[i].len > 0
  BY <1>2 DEF ObstackInv, Below
<1>4. Has(chunks[1], objs[i]) => base <= objs[i].at
  BY <1>2 DEF Has
<1>. QED  BY <1>1, <1>3, <1>4, ObstackTypes

\* The chunks an object that moves leaves behind.
LEMMA RestIs ==
  ASSUME ObstackInv, state = "live", NEW rest, rest = IF OnlyThat THEN Tail(chunks) ELSE chunks
  PROVE  /\ rest \in Seq(Chunk) /\ ChunksOK(rest) /\ Placed(rest, objs) /\ InOrder(rest, objs)
         /\ \A k \in 1 .. Len(rest) : \E j \in 1 .. Len(chunks) : rest[k] = chunks[j]
<1>1. ChunksOK(chunks) /\ Placed(chunks, objs) /\ InOrder(chunks, objs)
  BY DEF ObstackInv
<1>2. chunks \in Seq(Chunk) /\ objs \in Seq(Object)
  BY ObstackTypes
<1>3. CASE ~OnlyThat
  BY <1>1, <1>2, <1>3
<1>4. CASE OnlyThat
  <2>1. chunks # <<>> /\ rest = Tail(chunks)
    BY <1>4 DEF OnlyThat
  <2>2. /\ rest \in Seq(Chunk) /\ Len(rest) = Len(chunks) - 1 /\ 1 \in 0 .. Len(chunks)
        /\ \A k \in 1 .. Len(rest) : k + 1 \in 1 .. Len(chunks) /\ rest[k] = chunks[k + 1]
    BY <2>1, <1>2
  <2>3. \A i \in 1 .. Len(objs), k \in 1 .. 1 : ~Has(chunks[k], objs[i])
    BY <1>4, NoneInFirst
  <2>. QED  BY <1>1, <1>2, <2>2, <2>3, FewerChunks
<1>. QED  BY <1>3, <1>4

-----------------------------------------------------------------------------
Words == [Addresses -> Bytes \cup {Junk}]

LEMMA CopiedIs ==
  ASSUME ObstackInv, NEW to \in Nat
  PROVE  /\ Copied(to) \in Words
         /\ \A d \in 0 .. next - base - 1 :
              to + d \in Addresses => Copied(to)[to + d] = mem[base + d]
<1>1. ASSUME NEW a \in Addresses, a \in to .. to + (next - base) - 1 PROVE base + (a - to) \in Addresses
  <2>1. base \in Nat /\ next \in Nat /\ next <= Top /\ Top \in Nat
    BY ObstackTypes
  <2>2. a \in Int /\ to <= a /\ a - to < next - base
    BY <1>1, <2>1
  <2>3. base + (a - to) \in 0 .. Top - 1
    BY <2>1, <2>2
  <2>. QED  BY <2>3 DEF Addresses
<1>2. mem \in Words /\ Junk \in Bytes \cup {Junk}
  BY DEF ObstackInv, ObstackTypeOK, Words
<1>3. ASSUME NEW a \in Addresses PROVE Copied(to)[a] \in Bytes \cup {Junk}
  <2>1. mem[a] \in Bytes \cup {Junk}
    BY <1>2 DEF Words
  <2>2. a \in to .. to + (next - base) - 1 => mem[base + (a - to)] \in Bytes \cup {Junk}
    BY <1>1, <1>2 DEF Words
  <2>. QED  BY <2>1, <2>2 DEF Copied
<1>4. Copied(to) \in Words
  BY <1>3 DEF Words, Copied
<1>5. ASSUME NEW d \in 0 .. next - base - 1, to + d \in Addresses
      PROVE  Copied(to)[to + d] = mem[base + d]
  <2>1. to + d \in to .. to + (next - base) - 1 /\ base + ((to + d) - to) = base + d
    BY ObstackTypes
  <2>. QED  BY <1>5, <2>1 DEF Copied
<1>. QED  BY <1>4, <1>5

LEMMA PutIs ==
  ASSUME NEW m \in Words, NEW at \in Nat, NEW t \in Seq(Bytes \cup {Junk})
  PROVE  /\ Put(m, at, t) \in Words
         /\ \A a \in Addresses : a \notin at .. at + Len(t) - 1 => Put(m, at, t)[a] = m[a]
         /\ \A a \in Addresses : a \in at .. at + Len(t) - 1 => Put(m, at, t)[a] = t[a - at + 1]
<1>1. ASSUME NEW a \in Addresses, a \in at .. at + Len(t) - 1 PROVE t[a - at + 1] \in Bytes \cup {Junk}
  <2>1. a - at + 1 \in 1 .. Len(t)
    BY <1>1
  <2>. QED  BY <2>1
<1>2. \A a \in Addresses : m[a] \in Bytes \cup {Junk}
  BY DEF Words
<1>. QED  BY <1>1, <1>2 DEF Put, Words

RoomOK(rc, rb, rn, rl, re, rm, n) ==
  /\ rc \in Seq(Chunk) /\ rc # <<>> /\ ChunksOK(rc)
  /\ rb \in Nat /\ rn \in Nat /\ rl \in Nat /\ rl <= Top /\ re \in BOOLEAN /\ rm \in Words
  /\ rn - rb = next - base /\ rn + n <= rl /\ rl = rc[1].limit /\ rc[1].at + Header <= rb
  /\ StartsWell(rb, rl)
  /\ Placed(rc, objs) /\ Below(rc, objs, rb, re) /\ InOrder(rc, objs)

\* The object that grows is as long in its new room as it was.
LEMMA RoomNext ==
  ASSUME ObstackInv, NEW rb \in Nat, NEW rn \in Nat, rn - rb = next - base
  PROVE  rn >= rb
<1>1. base \in Nat /\ next \in Nat /\ base <= next
  BY ObstackTypes
<1>. QED  BY <1>1

LEMMA NewChunkRoom ==
  ASSUME ObstackInv, state = "live", NEW n \in Nat, NEW c \in Malloc(NewSize(n)), NEW room,
         room = NewChunk(c)
  PROVE  RoomOK(room.chunks, room.base, room.next, room.limit, room.empty, room.mem, n)
<1>1. PICK rest : rest = IF OnlyThat THEN Tail(chunks) ELSE chunks
  OBVIOUS
<1>2. PICK to : to = c.at + Header
  OBVIOUS
<1>3. PICK cs : cs = <<c>> \o rest
  OBVIOUS
<1>4. /\ room.chunks = cs /\ room.base = to /\ room.next = to + (next - base) /\ room.limit = c.limit
      /\ room.empty = FALSE /\ room.mem = Copied(to)
  BY <1>1, <1>2, <1>3 DEF NewChunk
<1>5. /\ rest \in Seq(Chunk) /\ ChunksOK(rest) /\ Placed(rest, objs) /\ InOrder(rest, objs)
      /\ \A k \in 1 .. Len(rest) : \E j \in 1 .. Len(chunks) : rest[k] = chunks[j]
  BY <1>1, RestIs
<1>6. \A k \in 1 .. Len(rest) : Apart(c, rest[k])
  BY <1>5, MallocIs
<1>7. /\ c \in Chunk /\ c.at \in Nat /\ c.limit \in Nat /\ c.limit <= Top /\ c.at > 0
      /\ c.at % Alignment = 0
      /\ c.at + Header + (next - base) + n <= c.limit
  BY MallocIs
<1>8. objs \in Seq(Object) /\ next - base \in Nat /\ Header \in Nat
  BY ObstackTypes
<1>9. c.at + Header <= c.limit
  BY <1>7, <1>8
<1>10. /\ cs \in Seq(Chunk) /\ cs # <<>> /\ cs[1] = c /\ ChunksOK(cs)
       /\ Placed(cs, objs) /\ InOrder(cs, objs) /\ \A i \in 1 .. Len(objs) : ~Has(c, objs[i])
  <2>1. cs \in Seq(Chunk) /\ Len(cs) = Len(rest) + 1 /\ cs[1] = c
        /\ \A k \in 2 .. Len(rest) + 1 : cs[k] = rest[k - 1]
    BY <1>3, <1>5, <1>7
  <2>2. cs # <<>>
    BY <2>1, <1>5
  <2>. QED  BY <2>1, <2>2, <1>5, <1>6, <1>7, <1>8, <1>9, MoreChunks
<1>11. Below(cs, objs, to, FALSE)
  BY <1>10 DEF Below
<1>12. StartsWell(to, c.limit)
  BY <1>2, <1>7, SumAligned, ObstackAssumption DEF StartsWell
<1>13. to \in Nat /\ Copied(to) \in Words
  BY <1>2, <1>7, <1>8, CopiedIs
<1>14. PICK d \in Nat : d = next - base
  BY <1>8
<1>15. to + d \in Nat /\ (to + d) - to = d /\ to + d + n <= c.limit
  <2>1. to + d \in Nat /\ (to + d) - to = d
    BY <1>13, <1>14
  <2>2. to + (next - base) + n <= c.limit
    BY <1>2, <1>7
  <2>3. to + d + n <= c.limit
    BY <1>14, <2>2
  <2>. QED  BY <2>1, <2>3
<1>16. RoomOK(cs, to, to + d, c.limit, FALSE, Copied(to), n)
  <2>1. cs[1].at + Header <= to /\ c.limit = cs[1].limit /\ c.limit \in Nat /\ FALSE \in BOOLEAN
    BY <1>2, <1>7, <1>8, <1>10
  <2>. QED  BY <1>7, <1>10, <1>11, <1>12, <1>13, <1>14, <1>15, <2>1 DEF RoomOK
<1>. QED  BY <1>4, <1>14, <1>16

LEMMA RoomIs ==
  ASSUME ObstackInv, state = "live", NEW n \in Nat, NEW room \in WithRoom(n)
  PROVE  RoomOK(room.chunks, room.base, room.next, room.limit, room.empty, room.mem, n)
<1>1. CASE Fits(n)
  <2>1. /\ room.chunks = chunks /\ room.base = base /\ room.next = next /\ room.limit = limit
        /\ room.empty = empty
        /\ room.mem = mem /\ ~failed
    BY <1>1 DEF WithRoom
  <2>2. chunks # <<>>
    BY <2>1 DEF ObstackInv
  <2>3. next + n <= limit
    BY <1>1, ObstackTypes DEF Fits
  <2>4. empty \in BOOLEAN /\ mem \in Words
    BY DEF ObstackInv, ObstackTypeOK, Words
  <2>5. RoomOK(chunks, base, next, limit, empty, mem, n)
    BY <2>2, <2>3, <2>4, ObstackTypes DEF ObstackInv, GrowingOK, RoomOK
  <2>. QED  BY <2>1, <2>5
<1>2. CASE ~Fits(n)
  BY <1>2, NewChunkRoom DEF WithRoom
<1>. QED  BY <1>1, <1>2

-----------------------------------------------------------------------------
LEMMA TextIs ==
  ASSUME NEW t \in Texts
  PROVE  t \in Seq(Bytes \cup {Junk}) /\ Len(t) \in Nat
<1>1. PICK n \in Lens, b \in Bytes : t = [i \in 1 .. n |-> b]
  BY DEF Texts
<1>2. n \in Nat
  BY ObstackAssumption
<1>. QED  BY <1>1, <1>2

\* The invariant when the object that grows ends at e, and one of them or the
\* chunks have changed.
LEMMA LiveInv ==
  ASSUME state' = "live", chunks' \in Seq(Chunk), chunks' # <<>>, ChunksOK(chunks'),
         base' \in Nat, next' \in Nat, limit' \in Nat, base' <= next', next' <= limit', limit' <= Top,
         empty' \in BOOLEAN, failed' \in BOOLEAN, mem' \in Words, objs' \in Seq(Object),
         limit' = chunks'[1].limit, chunks'[1].at + Header <= base', StartsWell(base', limit'),
         Placed(chunks', objs'), Below(chunks', objs', base', empty'), InOrder(chunks', objs')
  PROVE  ObstackInv'
<1>1. base' \in 0 .. Top /\ next' \in 0 .. Top /\ limit' \in 0 .. Top
  BY ObstackAssumption
<1>2. ObstackTypeOK'
  BY <1>1 DEF ObstackTypeOK, Words, Object
<1>3. GrowingOK(chunks', base', next', limit')
  BY DEF GrowingOK
<1>. QED  BY <1>2, <1>3 DEF ObstackInv

LEMMA GrowInv ==
  ASSUME ObstackInv, NEW t \in Texts, Grow(t) PROVE ObstackInv'
<1>1. t \in Seq(Bytes \cup {Junk}) /\ Len(t) \in Nat /\ state = "live"
  BY TextIs DEF Grow
<1>2. PICK room \in WithRoom(Len(t)) :
        /\ next' = room.next + Len(t) /\ mem' = Put(room.mem, room.next, t)
        /\ chunks' = room.chunks /\ base' = room.base /\ limit' = room.limit /\ empty' = room.empty
  BY DEF Grow
<1>3. state' = "live" /\ failed' = FALSE /\ objs' = objs
  BY DEF Grow
<1>4. RoomOK(room.chunks, room.base, room.next, room.limit, room.empty, room.mem, Len(t))
  BY <1>1, RoomIs
<1>5. mem' \in Words
  BY <1>1, <1>2, <1>4, PutIs DEF RoomOK
<1>6. room.base \in Nat /\ room.next \in Nat /\ room.next >= room.base
  <2>1. room.base \in Nat /\ room.next \in Nat /\ room.next - room.base = next - base
    BY <1>4 DEF RoomOK
  <2>. QED  BY <2>1, RoomNext
<1>7. /\ base' \in Nat /\ next' \in Nat /\ limit' \in Nat /\ base' <= next' /\ next' <= limit'
      /\ limit' <= Top
      /\ limit' = chunks'[1].limit /\ chunks'[1].at + Header <= base' /\ StartsWell(base', limit')
  BY <1>1, <1>2, <1>4, <1>6 DEF RoomOK
<1>8. empty' \in BOOLEAN /\ failed' \in BOOLEAN
  BY <1>2, <1>3, <1>4 DEF RoomOK
<1>9. /\ chunks' \in Seq(Chunk) /\ chunks' # <<>> /\ ChunksOK(chunks')
      /\ Placed(chunks', objs') /\ Below(chunks', objs', base', empty') /\ InOrder(chunks', objs')
  BY <1>2, <1>3, <1>4 DEF RoomOK
<1>10. objs' \in Seq(Object)
  BY <1>3, ObstackTypes
<1>. QED  BY <1>3, <1>5, <1>7, <1>8, <1>9, <1>10, LiveInv

LEMMA CarveInv ==
  ASSUME ObstackInv, state = "live", NEW t \in Seq(Bytes \cup {Junk}), NEW room, Carve(room, t),
         RoomOK(room.chunks, room.base, room.next, room.limit, room.empty, room.mem, Len(t))
  PROVE  ObstackInv'
<1>1. PICK end : end = room.next + Len(t)
  OBVIOUS
<1>2. PICK o : o = [at |-> room.base, len |-> end - room.base]
  OBVIOUS
<1>3. /\ room.chunks \in Seq(Chunk) /\ room.chunks # <<>> /\ ChunksOK(room.chunks)
      /\ room.base \in Nat /\ room.next \in Nat /\ room.limit \in Nat /\ room.limit <= Top
      /\ room.mem \in Words
      /\ room.next - room.base = next - base /\ room.next + Len(t) <= room.limit
      /\ room.limit = room.chunks[1].limit /\ room.chunks[1].at + Header <= room.base
      /\ StartsWell(room.base, room.limit)
      /\ Placed(room.chunks, objs) /\ Below(room.chunks, objs, room.base, room.empty)
      /\ InOrder(room.chunks, objs)
  BY DEF RoomOK
<1>4. end \in Nat /\ end >= room.base /\ end <= room.limit /\ Len(t) \in Nat
  <2>1. Len(t) \in Nat
    OBVIOUS
  <2>2. room.next >= room.base
    <3>1. room.base \in Nat /\ room.next \in Nat /\ room.next - room.base = next - base
      BY <1>3
    <3>. QED  BY <3>1, RoomNext
  <2>. QED  BY <1>1, <1>3, <2>1, <2>2
<1>5. o \in Object /\ o.at = room.base /\ o.len = end - room.base
  <2>1. room.base \in 0 .. Top /\ end - room.base \in 0 .. Top
    <3>1. PICK b \in Nat : b = room.base
      BY <1>3
    <3>2. PICK lim \in Nat : lim = room.limit /\ lim <= Top
      BY <1>3
    <3>3. end \in Nat /\ end >= b /\ end <= lim /\ Top \in Nat
      BY <1>4, <3>1, <3>2, ObstackAssumption
    <3>4. b \in 0 .. Top /\ end - b \in 0 .. Top
      BY <3>2, <3>3
    <3>. QED  BY <3>1, <3>4
  <2>. QED  BY <1>2, <2>1 DEF Object
<1>6. PICK b : b = FinishAt(end, room.limit)
  OBVIOUS
<1>7. b \in Nat /\ b >= end /\ b <= room.limit /\ StartsWell(b, room.limit)
  <2>1. b \in end .. room.limit /\ StartsWell(b, room.limit)
    BY <1>3, <1>4, <1>6, FinishAtIs
  <2>. QED  BY <1>3, <1>4, <2>1
<1>8. /\ chunks' = room.chunks /\ limit' = room.limit /\ mem' = Put(room.mem, room.next, t)
      /\ next' = b /\ base' = b
      /\ failed' = FALSE /\ state' = "live"
  BY <1>1, <1>6 DEF Carve
<1>9. objs' = Append(objs, o)
  <2>1. room.next - room.base + Len(t) = end - room.base
    BY <1>1, <1>3, <1>4
  <2>. QED  BY <1>2, <2>1 DEF Carve
<1>10. empty' = (room.empty \/ end = room.base)
  BY <1>1 DEF Carve
<1>11. /\ room.empty \in BOOLEAN /\ empty' \in BOOLEAN /\ (room.empty => empty')
  BY <1>10 DEF RoomOK
<1>12. o.len > 0 \/ empty'
  <2>1. end # room.base => end - room.base > 0
    BY <1>3, <1>4
  <2>2. end = room.base => empty'
    BY <1>10
  <2>. QED  BY <1>5, <2>1, <2>2
<1>13. Has(room.chunks[1], o) /\ o.at + o.len <= b
  BY <1>3, <1>4, <1>5, <1>7 DEF Has
<1>14. objs \in Seq(Object)
  BY ObstackTypes
<1>15. StartsWell(o.at, room.chunks[1].limit) /\ Below(room.chunks, objs, o.at, room.empty)
  BY <1>3, <1>5
<1>16. /\ objs' \in Seq(Object) /\ Placed(room.chunks, objs') /\ InOrder(room.chunks, objs')
       /\ Below(room.chunks, objs', b, empty')
  BY <1>3, <1>5, <1>7, <1>9, <1>11, <1>12, <1>13, <1>14, <1>15, MoreObjects
<1>17. mem' \in Words
  BY <1>3, <1>8, PutIs
<1>18. room.chunks[1].at + Header <= b
  <2>1. room.chunks[1] \in Chunk /\ Header \in Nat
    BY <1>3, ObstackAssumption
  <2>2. room.chunks[1].at \in Nat
    BY <2>1, ChunkIs
  <2>. QED  BY <1>3, <1>4, <1>7, <2>1, <2>2
<1>19. failed' \in BOOLEAN
  BY <1>8
<1>20. /\ chunks' \in Seq(Chunk) /\ chunks' # <<>> /\ ChunksOK(chunks')
       /\ limit' = chunks'[1].limit /\ chunks'[1].at + Header <= base' /\ StartsWell(base', limit')
       /\ Placed(chunks', objs') /\ Below(chunks', objs', base', empty') /\ InOrder(chunks', objs')
  BY <1>3, <1>7, <1>8, <1>16, <1>18
<1>21. /\ base' \in Nat /\ next' \in Nat /\ limit' \in Nat /\ base' <= next' /\ next' <= limit'
       /\ limit' <= Top
  BY <1>3, <1>7, <1>8
<1>. QED  BY <1>8, <1>11, <1>16, <1>17, <1>19, <1>20, <1>21, LiveInv

LEMMA AllocInv ==
  ASSUME ObstackInv, NEW t \in Texts, Alloc(t) PROVE ObstackInv'
<1>1. t \in Seq(Bytes \cup {Junk}) /\ Len(t) \in Nat /\ state = "live"
  BY TextIs DEF Alloc
<1>2. PICK room \in WithRoom(Len(t)) : Carve(room, t)
  BY DEF Alloc
<1>. QED  BY <1>1, <1>2, RoomIs, CarveInv

LEMMA NulsAreText == ASSUME NEW n \in Lens PROVE [i \in 1 .. n |-> Nul] \in Texts
  BY ObstackAssumption DEF Texts

\* A byte of a text that lies below the top.
LEMMA ByteBelow ==
  ASSUME NEW at \in Nat, NEW len \in Nat, NEW top \in Nat, at + len <= top, NEW j \in 1 .. len
  PROVE  at + j - 1 \in 0 .. top - 1
OBVIOUS

\* What aobstack_realloc copies.
LEMMA OldTextIs ==
  ASSUME ObstackInv, state = "live", NEW i \in 1 .. Len(objs), NEW m \in Words,
         NEW old, old = [j \in 1 .. objs[i].len |-> m[objs[i].at + j - 1]]
  PROVE  old \in Seq(Bytes \cup {Junk}) /\ Len(old) = objs[i].len /\ objs[i].len \in Nat
<1>1. objs[i].at \in Nat /\ objs[i].len \in Nat
  BY ObstackTypes
<1>2. PICK k \in 1 .. Len(chunks) : Has(chunks[k], objs[i])
  BY DEF ObstackInv, Placed
<1>3. objs[i].at + objs[i].len <= Top
  <2>1. objs[i].at + objs[i].len <= chunks[k].limit
    BY <1>2 DEF Has
  <2>2. chunks[k].limit \in 0 .. Top /\ Top \in Nat
    BY ObstackTypes
  <2>. QED  BY <1>1, <2>1, <2>2
<1>4. ASSUME NEW j \in 1 .. objs[i].len PROVE m[objs[i].at + j - 1] \in Bytes \cup {Junk}
  <2>1. objs[i].at + j - 1 \in Addresses
    <3>1. PICK at \in Nat, len \in Nat : at = objs[i].at /\ len = objs[i].len
      BY <1>1
    <3>2. j \in 1 .. len /\ at + len <= Top /\ Top \in Nat
      BY <1>3, <3>1, ObstackTypes
    <3>3. at + j - 1 \in 0 .. Top - 1
      BY <3>1, <3>2, ByteBelow, Zenon
    <3>. QED  BY <3>1, <3>3 DEF Addresses
  <2>. QED  BY <2>1 DEF Words
<1>. QED  BY <1>1, <1>4

LEMMA BothTexts ==
  ASSUME NEW S, NEW s \in Seq(S), NEW t \in Seq(S), NEW both, both = s \o t
  PROVE  both \in Seq(S) /\ Len(both) = Len(s) + Len(t)
  OBVIOUS

LEMMA ReallocInv ==
  ASSUME ObstackInv, NEW i \in 1 .. Len(objs), NEW t \in Texts, Realloc(i, t) PROVE ObstackInv'
<1>1. t \in Seq(Bytes \cup {Junk}) /\ Len(t) \in Nat /\ state = "live"
  BY TextIs DEF Realloc
<1>2. PICK room \in WithRoom(objs[i].len + Len(t)) :
        Carve(room, [j \in 1 .. objs[i].len |-> room.mem[objs[i].at + j - 1]] \o t)
  BY DEF Realloc
<1>3. objs[i].len \in Nat
  BY ObstackTypes
<1>4. RoomOK(room.chunks, room.base, room.next, room.limit, room.empty, room.mem, objs[i].len + Len(t))
  BY <1>1, <1>3, RoomIs
<1>5. PICK old : old = [j \in 1 .. objs[i].len |-> room.mem[objs[i].at + j - 1]]
  OBVIOUS
<1>6. old \in Seq(Bytes \cup {Junk}) /\ Len(old) = objs[i].len
  BY <1>1, <1>4, <1>5, OldTextIs DEF RoomOK
<1>7. PICK all : all = old \o t
  OBVIOUS
<1>8. all \in Seq(Bytes \cup {Junk}) /\ Len(all) = objs[i].len + Len(t)
  BY <1>1, <1>6, <1>7, BothTexts
<1>9. Carve(room, all)
  BY <1>2, <1>5, <1>7
<1>. QED  BY <1>1, <1>4, <1>8, <1>9, CarveInv

-----------------------------------------------------------------------------
\* Chunk k is where the object lies that is freed, and ps are those that were
\* there before it.
FreedIn(k, i, ps) ==
  /\ Has(chunks[k], objs[i]) /\ Holds(chunks[k], objs[i].at)
  /\ StartsWell(objs[i].at, chunks[k].limit)
  /\ \A m \in 1 .. Len(chunks) : Holds(chunks[m], objs[i].at) => m = k
  /\ ps \in Seq(Object) /\ Len(ps) = i - 1 /\ \A j \in 1 .. i - 1 : ps[j] = objs[j]
  /\ Placed(chunks, ps) /\ InOrder(chunks, ps)
  /\ \A j \in 1 .. Len(ps) : Has(chunks[k], ps[j]) => ps[j].at + ps[j].len <= objs[i].at
  /\ \A j \in 1 .. Len(ps), m \in 1 .. k - 1 : ~Has(chunks[m], ps[j])

LEMMA BeforeIs ==
  ASSUME ObstackInv, state = "live", NEW i \in 1 .. Len(objs), NEW ps, ps = SubSeq(objs, 1, i - 1)
  PROVE  \E k \in 1 .. Len(chunks) : FreedIn(k, i, ps)
<1>1. PICK k \in 1 .. Len(chunks) : Has(chunks[k], objs[i]) /\ StartsWell(objs[i].at, chunks[k].limit)
  BY DEF ObstackInv, Placed
<1>2. /\ objs \in Seq(Object) /\ chunks \in Seq(Chunk) /\ Header \in Nat \ {0}
      /\ objs[i].at \in Nat /\ objs[i].len \in Nat
      /\ \A m \in 1 .. Len(chunks) : chunks[m].at \in Nat /\ chunks[m].limit \in Nat
  <2>1. \A m \in 1 .. Len(chunks) : chunks[m].at \in Nat /\ chunks[m].limit \in Nat
    <3>1. \A m \in 1 .. Len(chunks) : chunks[m] \in Chunk
      BY ObstackTypes
    <3>. QED  BY <3>1, ChunkIs
  <2>. QED  BY <2>1, ObstackTypes
<1>3. Holds(chunks[k], objs[i].at)
  <2>1. chunks[k].at \in Nat /\ chunks[k].limit \in Nat
    BY <1>2
  <2>2. chunks[k].at + Header <= objs[i].at /\ objs[i].at + objs[i].len <= chunks[k].limit
    BY <1>1 DEF Has
  <2>3. Header \in Nat \ {0} /\ objs[i].at \in Nat /\ objs[i].len \in Nat
    BY <1>2
  <2>4. chunks[k].at < objs[i].at
    BY <2>1, <2>2, <2>3
  <2>5. objs[i].at <= chunks[k].limit
    BY <2>1, <2>2, <2>3
  <2>. QED  BY <2>4, <2>5 DEF Holds
<1>4. ASSUME NEW m \in 1 .. Len(chunks), Holds(chunks[m], objs[i].at) PROVE m = k
  <2> SUFFICES ASSUME m # k PROVE FALSE
    OBVIOUS
  <2>1. Apart(chunks[m], chunks[k])
    BY DEF ObstackInv, ChunksOK
  <2>2. /\ chunks[k].at \in Nat /\ chunks[k].limit \in Nat
        /\ chunks[m].at \in Nat /\ chunks[m].limit \in Nat
    BY <1>2
  <2>3. objs[i].at \in Nat
    BY <1>2
  <2>4. PICK ka \in Nat : ka = chunks[k].at
    BY <2>2
  <2>5. PICK kl \in Nat : kl = chunks[k].limit
    BY <2>2
  <2>6. PICK ma \in Nat : ma = chunks[m].at
    BY <2>2
  <2>7. PICK ml \in Nat : ml = chunks[m].limit
    BY <2>2
  <2>8. PICK at \in Nat : at = objs[i].at
    BY <2>3
  <2>9. ka < at /\ at <= kl /\ ma < at /\ at <= ml
    BY <1>3, <1>4, <2>4, <2>5, <2>6, <2>7, <2>8 DEF Holds
  <2>10. ml <= ka \/ kl <= ma
    BY <2>1, <2>4, <2>5, <2>6, <2>7 DEF Apart
  <2>. QED  BY <2>9, <2>10
<1>5. ps \in Seq(Object) /\ Len(ps) = i - 1 /\ \A j \in 1 .. i - 1 : ps[j] = objs[j]
  BY <1>2
<1>6. \A j \in 1 .. Len(ps) : j \in 1 .. Len(objs) /\ j < i /\ ps[j] = objs[j]
  BY <1>2, <1>5
<1>7. Placed(chunks, ps)
  BY <1>6 DEF ObstackInv, Placed
<1>8. InOrder(chunks, ps)
  BY <1>6 DEF ObstackInv, InOrder
<1>9. ASSUME NEW j \in 1 .. Len(ps), Has(chunks[k], ps[j]) PROVE ps[j].at + ps[j].len <= objs[i].at
  <2>1. j \in 1 .. Len(objs) /\ j < i /\ ps[j] = objs[j]
    BY <1>6
  <2>2. Has(chunks[k], objs[j])
    BY <1>9, <2>1
  <2>. QED  BY <1>1, <2>1, <2>2 DEF ObstackInv, InOrder
<1>10. ASSUME NEW j \in 1 .. Len(ps), NEW m \in 1 .. k - 1 PROVE ~Has(chunks[m], ps[j])
  <2>1. j \in 1 .. Len(objs) /\ j < i /\ ps[j] = objs[j]
    BY <1>6
  <2>2. m \in 1 .. Len(chunks) /\ m < k
    OBVIOUS
  <2>3. Has(chunks[m], objs[j]) => k <= m
    BY <1>1, <2>1, <2>2 DEF ObstackInv, InOrder
  <2>. QED  BY <2>1, <2>2, <2>3
<1>. QED  BY <1>1, <1>3, <1>4, <1>5, <1>7, <1>8, <1>9, <1>10 DEF FreedIn

\* An object is never foreign to its obstack.
LEMMA FreeKnows ==
  ASSUME ObstackInv, state = "live", NEW i \in 1 .. Len(objs) PROVE AllocatedP(objs[i].at)
<1>1. PICK ps : ps = SubSeq(objs, 1, i - 1)
  OBVIOUS
<1>2. PICK k \in 1 .. Len(chunks) : Holds(chunks[k], objs[i].at)
  BY <1>1, BeforeIs DEF FreedIn
<1>. QED  BY <1>2, ObstackTypes DEF AllocatedP

LEMMA InChunkFirst ==
  ASSUME ObstackInv, state = "live", NEW i \in 1 .. Len(objs), InChunk(objs[i].at)
  PROVE  chunks # <<>> /\ 1 \in 1 .. Len(chunks) /\ Holds(chunks[1], objs[i].at)
<1>1. chunks # <<>> /\ chunks[1].at < objs[i].at /\ objs[i].at < limit
  BY DEF InChunk
<1>2. limit = chunks[1].limit
  BY <1>1 DEF ObstackInv, GrowingOK
<1>. QED  BY <1>1, <1>2, ObstackTypes DEF Holds

LEMMA FreeInPlaceInv ==
  ASSUME ObstackInv, NEW i \in 1 .. Len(objs), state = "live", objs' = SubSeq(objs, 1, i - 1),
         InChunk(objs[i].at), base' = objs[i].at, next' = objs[i].at,
         UNCHANGED <<state, chunks, limit, empty, failed, mem>>
  PROVE  ObstackInv'
<1>1. PICK ps : ps = SubSeq(objs, 1, i - 1)
  OBVIOUS
<1>2. PICK k \in 1 .. Len(chunks) : FreedIn(k, i, ps)
  BY <1>1, BeforeIs
<1>3. /\ Has(chunks[k], objs[i]) /\ Holds(chunks[k], objs[i].at)
      /\ StartsWell(objs[i].at, chunks[k].limit)
      /\ \A m \in 1 .. Len(chunks) : Holds(chunks[m], objs[i].at) => m = k
      /\ ps \in Seq(Object) /\ Len(ps) = i - 1 /\ \A j \in 1 .. i - 1 : ps[j] = objs[j]
      /\ Placed(chunks, ps) /\ InOrder(chunks, ps)
      /\ \A j \in 1 .. Len(ps) : Has(chunks[k], ps[j]) => ps[j].at + ps[j].len <= objs[i].at
  BY <1>2 DEF FreedIn
<1>4. k = 1 /\ chunks # <<>>
  BY <1>3, InChunkFirst
<1>5. limit = chunks[1].limit /\ objs[i].at < limit
  BY <1>4 DEF ObstackInv, GrowingOK, InChunk
<1>6. Below(chunks, ps, objs[i].at, empty)
  <2> SUFFICES ASSUME NEW j \in 1 .. Len(ps), Has(chunks[1], ps[j])
               PROVE  ps[j].at + ps[j].len <= objs[i].at /\ (ps[j].len > 0 \/ empty)
    BY DEF Below
  <2>1. j \in 1 .. Len(objs) /\ ps[j] = objs[j]
    BY <1>3
  <2>2. ps[j].len > 0 \/ empty
    BY <1>4, <2>1 DEF ObstackInv, Below
  <2>3. ps[j].at + ps[j].len <= objs[i].at
    BY <1>3, <1>4
  <2>. QED  BY <2>2, <2>3
<1>7. /\ chunks' \in Seq(Chunk) /\ chunks' # <<>> /\ ChunksOK(chunks')
      /\ limit' \in Nat /\ limit' <= Top /\ base' \in Nat /\ next' \in Nat
      /\ base' <= next' /\ next' <= limit'
  BY <1>4, <1>5, ObstackTypes DEF ObstackInv
<1>8. empty' \in BOOLEAN /\ failed' \in BOOLEAN /\ mem' \in Words
  BY DEF ObstackInv, ObstackTypeOK, Words
<1>9. chunks[1].at + Header <= objs[i].at
  BY <1>3, <1>4 DEF Has
<1>10. /\ limit' = chunks'[1].limit /\ chunks'[1].at + Header <= base' /\ StartsWell(base', limit')
       /\ state' = "live" /\ objs' = ps
  BY <1>1, <1>3, <1>4, <1>5, <1>9
<1>11. Placed(chunks', objs') /\ Below(chunks', objs', base', empty') /\ InOrder(chunks', objs')
  BY <1>3, <1>6, <1>10
<1>12. objs' \in Seq(Object)
  BY <1>3, <1>10
<1>. QED  BY <1>7, <1>8, <1>10, <1>11, <1>12, LiveInv

\* What is left of memory.
LEMMA KeptIs ==
  ASSUME ObstackInv, NEW k \in 1 .. Len(chunks), NEW obj \in Nat PROVE Kept(k, obj) \in Words
<1>1. mem \in Words /\ Junk \in Bytes \cup {Junk}
  BY DEF ObstackInv, ObstackTypeOK, Words
<1>2. \A a \in Addresses : mem[a] \in Bytes \cup {Junk}
  BY <1>1 DEF Words
<1>. QED  BY <1>2 DEF Kept, Words

\* The end of a sequence, as _obstack_free leaves the chunks.
LEMMA TailIs ==
  ASSUME NEW S, NEW s \in Seq(S), NEW k \in 1 .. Len(s), NEW e, e = SubSeq(s, k, Len(s))
  PROVE  /\ e \in Seq(S) /\ k - 1 \in 0 .. Len(s) /\ Len(e) = Len(s) - (k - 1)
         /\ \A m \in 1 .. Len(e) : e[m] = s[m + (k - 1)]
<1>1. /\ Len(s) \in Nat /\ k \in Nat /\ k - 1 \in 0 .. Len(s)
      /\ \A i \in k .. Len(s) : s[i] \in S
  OBVIOUS
<1>2. e \in Seq(S)
  BY <1>1
<1>3. Len(e) = Len(s) - (k - 1)
  BY <1>1
<1>4. ASSUME NEW m \in 1 .. Len(e) PROVE e[m] = s[m + (k - 1)]
  BY <1>1, <1>3
<1>. QED  BY <1>1, <1>2, <1>3, <1>4

LEMMA BackToInv ==
  ASSUME ObstackInv, NEW i \in 1 .. Len(objs), state = "live", objs' = SubSeq(objs, 1, i - 1),
         base' = objs[i].at, next' = objs[i].at, NEW q \in 1 .. Len(chunks), BackTo(q, objs[i].at),
         UNCHANGED failed
  PROVE  ObstackInv'
<1>1. PICK ps : ps = SubSeq(objs, 1, i - 1)
  OBVIOUS
<1>2. PICK k \in 1 .. Len(chunks) : FreedIn(k, i, ps)
  BY <1>1, BeforeIs
<1>3. /\ Has(chunks[k], objs[i]) /\ Holds(chunks[k], objs[i].at)
      /\ StartsWell(objs[i].at, chunks[k].limit)
      /\ \A m \in 1 .. Len(chunks) : Holds(chunks[m], objs[i].at) => m = k
      /\ ps \in Seq(Object) /\ Len(ps) = i - 1 /\ \A j \in 1 .. i - 1 : ps[j] = objs[j]
      /\ Placed(chunks, ps) /\ InOrder(chunks, ps)
      /\ \A j \in 1 .. Len(ps) : Has(chunks[k], ps[j]) => ps[j].at + ps[j].len <= objs[i].at
      /\ \A j \in 1 .. Len(ps), m \in 1 .. k - 1 : ~Has(chunks[m], ps[j])
  BY <1>2 DEF FreedIn
<1>4. q = k
  BY <1>3 DEF BackTo
<1>5. PICK cs : cs = SubSeq(chunks, k, Len(chunks))
  OBVIOUS
<1>6. /\ chunks' = cs /\ limit' = chunks[k].limit /\ empty' = (empty \/ k > 1)
      /\ mem' = Kept(k, objs[i].at) /\ state' = "live" /\ objs' = ps /\ failed' = failed
  BY <1>1, <1>4, <1>5 DEF BackTo
<1>7. chunks \in Seq(Chunk) /\ objs[i].at \in Nat /\ objs[i].len \in Nat
  BY ObstackTypes
<1>8. /\ cs \in Seq(Chunk) /\ k - 1 \in 0 .. Len(chunks) /\ Len(cs) = Len(chunks) - (k - 1)
      /\ \A m \in 1 .. Len(cs) : cs[m] = chunks[m + (k - 1)]
  BY <1>5, <1>7, TailIs
<1>9. cs # <<>> /\ cs[1] = chunks[k] /\ 1 \in 1 .. Len(cs)
  BY <1>8
<1>10. ChunksOK(cs) /\ Placed(cs, ps) /\ InOrder(cs, ps)
  BY <1>3, <1>7, <1>8, FewerChunks DEF ObstackInv
<1>11. Below(cs, ps, objs[i].at, empty')
  <2> SUFFICES ASSUME NEW j \in 1 .. Len(ps), Has(cs[1], ps[j])
               PROVE  ps[j].at + ps[j].len <= objs[i].at /\ (ps[j].len > 0 \/ empty')
    BY DEF Below
  <2>1. j \in 1 .. Len(objs) /\ ps[j] = objs[j]
    BY <1>3
  <2>2. ps[j].at + ps[j].len <= objs[i].at
    BY <1>3, <1>9
  <2>3. CASE k > 1
    BY <1>6, <2>2, <2>3
  <2>4. CASE k = 1
    <3>1. Has(chunks[1], objs[j]) /\ chunks # <<>>
      BY <1>9, <2>1, <2>4, <1>7
    <3>2. objs[j].len > 0 \/ empty
      BY <2>1, <3>1 DEF ObstackInv, Below
    <3>. QED  BY <1>6, <2>1, <2>2, <3>2
  <2>. QED  BY <2>3, <2>4
<1>12. chunks[k].at + Header <= objs[i].at /\ objs[i].at + objs[i].len <= chunks[k].limit
  BY <1>3 DEF Has
<1>13. chunks[k].limit \in Nat /\ chunks[k].limit <= Top
  BY ObstackTypes
<1>14. objs[i].at <= chunks[k].limit
  BY <1>7, <1>12, <1>13
<1>15. mem' \in Words
  BY <1>6, <1>7, KeptIs
<1>16. failed' \in BOOLEAN /\ empty' \in BOOLEAN
  BY <1>6 DEF ObstackInv, ObstackTypeOK
<1>17. /\ chunks' \in Seq(Chunk) /\ chunks' # <<>> /\ ChunksOK(chunks')
       /\ limit' = chunks'[1].limit /\ chunks'[1].at + Header <= base' /\ StartsWell(base', limit')
       /\ Placed(chunks', objs') /\ Below(chunks', objs', base', empty') /\ InOrder(chunks', objs')
  BY <1>3, <1>6, <1>8, <1>9, <1>10, <1>11, <1>12
<1>18. /\ base' \in Nat /\ next' \in Nat /\ limit' \in Nat /\ base' <= next' /\ next' <= limit'
       /\ limit' <= Top
  BY <1>6, <1>7, <1>13, <1>14
<1>19. objs' \in Seq(Object)
  BY <1>3, <1>6
<1>. QED  BY <1>6, <1>15, <1>16, <1>17, <1>18, <1>19, LiveInv

LEMMA FreeFromInv ==
  ASSUME ObstackInv, NEW i \in 1 .. Len(objs), FreeFrom(i) PROVE ObstackInv'
<1>1. state = "live" /\ objs' = SubSeq(objs, 1, i - 1)
  BY DEF FreeFrom
<1>2. CASE InChunk(objs[i].at)
  BY <1>1, <1>2, FreeInPlaceInv DEF FreeFrom
<1>3. CASE ~InChunk(objs[i].at)
  <2>1. /\ base' = objs[i].at /\ next' = objs[i].at /\ UNCHANGED failed
        /\ \E k \in DOMAIN chunks : BackTo(k, objs[i].at)
    BY <1>1, <1>3, FreeKnows DEF FreeFrom
  <2>2. PICK k \in 1 .. Len(chunks) : BackTo(k, objs[i].at)
    BY <2>1, ObstackTypes
  <2>. QED  BY <1>1, <2>1, <2>2, BackToInv
<1>. QED  BY <1>2, <1>3

-----------------------------------------------------------------------------
LEMMA BeginInv == ASSUME ObstackInv, Begin PROVE ObstackInv'
<1>1. /\ state' = "live" /\ objs' = <<>> /\ empty' = FALSE /\ mem' = [a \in Addresses |-> Junk]
      /\ \/ /\ chunks' = <<>> /\ limit' = 0 /\ base' = 0 /\ next' = 0 /\ failed' = TRUE
         \/ \E a \in Addresses :
              /\ a > 0 /\ a % Alignment = 0 /\ a + FirstSize <= Top
              /\ chunks' = <<[at |-> a, limit |-> a + FirstSize]>> /\ limit' = a + FirstSize
              /\ base' = a + Header /\ next' = a + Header /\ failed' = FALSE
  BY DEF Begin
<1>2. mem' \in Words /\ objs' \in Seq(Object) /\ empty' \in BOOLEAN /\ Len(objs') = 0
  <2>1. Junk \in Bytes \cup {Junk}
    OBVIOUS
  <2>2. mem' \in Words
    BY <1>1, <2>1 DEF Words
  <2>3. objs' \in Seq(Object) /\ Len(objs') = 0
    BY <1>1
  <2>. QED  BY <1>1, <2>2, <2>3
<1>3. /\ FirstSize \in Nat /\ FirstSize >= Header /\ Header \in Nat /\ Top \in Nat
      /\ Alignment \in Nat \ {0} /\ Header % Alignment = 0
  BY ObstackAssumption
<1>4. CASE \E a \in Addresses :
             /\ a > 0 /\ a % Alignment = 0 /\ a + FirstSize <= Top
             /\ chunks' = <<[at |-> a, limit |-> a + FirstSize]>> /\ limit' = a + FirstSize
             /\ base' = a + Header /\ next' = a + Header /\ failed' = FALSE
  <2>1. PICK a \in Addresses :
             /\ a > 0 /\ a % Alignment = 0 /\ a + FirstSize <= Top
             /\ chunks' = <<[at |-> a, limit |-> a + FirstSize]>> /\ limit' = a + FirstSize
             /\ base' = a + Header /\ next' = a + Header /\ failed' = FALSE
    BY <1>4
  <2>2. /\ a \in Nat /\ a + FirstSize \in Nat /\ a + FirstSize <= Top /\ a + Header \in Nat
        /\ a + Header <= a + FirstSize
    BY <1>3, <2>1 DEF Addresses
  <2>3. PICK c : c = [at |-> a, limit |-> a + FirstSize]
    OBVIOUS
  <2>4. c \in Chunk /\ c.at = a /\ c.limit = a + FirstSize
    BY <1>3, <2>2, <2>3 DEF Chunk
  <2>5. chunks' = <<c>>
    BY <2>1, <2>3
  <2>6. chunks' \in Seq(Chunk) /\ Len(chunks') = 1 /\ chunks' # <<>> /\ chunks'[1] = c
    BY <2>4, <2>5
  <2>7. ChunksOK(chunks')
    BY <2>1, <2>2, <2>4, <2>6 DEF ChunksOK
  <2>8. Placed(chunks', objs') /\ Below(chunks', objs', base', empty') /\ InOrder(chunks', objs')
    BY <1>2 DEF Placed, Below, InOrder
  <2>9. StartsWell(base', limit')
    <3>1. a \in Int /\ Header \in Int /\ a % Alignment = 0
      BY <1>3, <2>1, <2>2
    <3>2. (a + Header) % Alignment = 0
      BY <1>3, <3>1, SumAligned
    <3>. QED  BY <2>1, <3>2 DEF StartsWell
  <2>10. /\ base' \in Nat /\ next' \in Nat /\ limit' \in Nat /\ base' <= next' /\ next' <= limit'
         /\ limit' <= Top /\ limit' = chunks'[1].limit /\ chunks'[1].at + Header <= base'
    BY <2>1, <2>2, <2>4, <2>6
  <2>11. failed' \in BOOLEAN
    BY <2>1
  <2>. QED  BY <1>1, <1>2, <2>6, <2>7, <2>8, <2>9, <2>10, <2>11, LiveInv
<1>5. CASE chunks' = <<>> /\ limit' = 0 /\ base' = 0 /\ next' = 0 /\ failed' = TRUE
  <2>1. /\ 0 \in 0 .. Top /\ failed' \in BOOLEAN /\ chunks' \in Seq(Chunk) /\ Len(chunks') = 0
        /\ failed' /\ objs' = <<>> /\ base' = next' /\ base' = limit' /\ state' = "live"
    BY <1>1, <1>3, <1>5
  <2>2. ObstackTypeOK'
    BY <1>1, <1>2, <1>5, <2>1 DEF ObstackTypeOK, Words, Object
  <2>3. ChunksOK(chunks') /\ GrowingOK(chunks', base', next', limit')
    BY <1>5, <2>1 DEF ChunksOK, GrowingOK
  <2>4. Placed(chunks', objs') /\ Below(chunks', objs', base', empty') /\ InOrder(chunks', objs')
    BY <1>2, <1>5 DEF Placed, Below, InOrder
  <2>5. StartsWell(base', limit')
    BY <2>1 DEF StartsWell
  <2>. QED  BY <2>1, <2>2, <2>3, <2>4, <2>5 DEF ObstackInv
<1>. QED  BY <1>1, <1>4, <1>5

LEMMA FinishInv == ASSUME ObstackInv, Finish PROVE ObstackInv'
<1>1. PICK o : o = [at |-> base, len |-> next - base]
  OBVIOUS
<1>2. PICK b : b = FinishAt(next, limit)
  OBVIOUS
<1>3. /\ state = "live" /\ ~failed /\ objs' = Append(objs, o) /\ next' = b /\ base' = b
      /\ empty' = (empty \/ next = base) /\ UNCHANGED <<state, chunks, limit, failed, mem>>
  BY <1>1, <1>2 DEF Finish
<1>4. /\ base \in Nat /\ next \in Nat /\ limit \in Nat /\ base <= next /\ next <= limit /\ limit <= Top
      /\ chunks \in Seq(Chunk) /\ objs \in Seq(Object) /\ Top \in Nat
  BY ObstackTypes
<1>5. o \in Object /\ o.at = base /\ o.len = next - base
  <2>1. base \in 0 .. Top /\ next - base \in 0 .. Top
    BY <1>4
  <2>. QED  BY <1>1, <2>1 DEF Object
<1>6. b \in Nat /\ b >= next /\ b <= limit /\ StartsWell(b, limit)
  <2>1. b \in next .. limit /\ StartsWell(b, limit)
    BY <1>2, <1>4, FinishAtIs
  <2>. QED  BY <1>4, <2>1
<1>7. chunks # <<>>
  BY <1>3 DEF ObstackInv
<1>8. limit = chunks[1].limit /\ chunks[1].at + Header <= base /\ StartsWell(base, limit)
  BY <1>3, <1>7 DEF ObstackInv, GrowingOK
<1>9. empty \in BOOLEAN /\ empty' \in BOOLEAN /\ (empty => empty')
  BY <1>3 DEF ObstackInv, ObstackTypeOK
<1>10. o.len > 0 \/ empty'
  <2>1. next # base => next - base > 0
    BY <1>4
  <2>2. next = base => empty'
    BY <1>3
  <2>. QED  BY <1>5, <2>1, <2>2
<1>11. Has(chunks[1], o) /\ o.at + o.len <= b
  BY <1>4, <1>5, <1>6, <1>8 DEF Has
<1>12. /\ ChunksOK(chunks) /\ Placed(chunks, objs) /\ InOrder(chunks, objs)
       /\ Below(chunks, objs, o.at, empty)
       /\ StartsWell(o.at, chunks[1].limit)
  BY <1>3, <1>5, <1>8 DEF ObstackInv
<1>13. /\ objs' \in Seq(Object) /\ Placed(chunks, objs') /\ InOrder(chunks, objs')
       /\ Below(chunks, objs', b, empty')
  BY <1>3, <1>4, <1>5, <1>6, <1>7, <1>9, <1>10, <1>11, <1>12, MoreObjects
<1>14. chunks[1].at + Header <= b
  <2>1. chunks[1] \in Chunk /\ Header \in Nat
    BY <1>4, <1>7, ObstackAssumption
  <2>2. chunks[1].at \in Nat
    BY <2>1, ChunkIs
  <2>. QED  BY <1>4, <1>6, <1>8, <2>1, <2>2
<1>15. failed' \in BOOLEAN /\ mem' \in Words /\ state' = "live"
  BY <1>3 DEF ObstackInv, ObstackTypeOK, Words
<1>16. /\ chunks' \in Seq(Chunk) /\ chunks' # <<>> /\ ChunksOK(chunks')
       /\ limit' = chunks'[1].limit /\ chunks'[1].at + Header <= base' /\ StartsWell(base', limit')
       /\ Placed(chunks', objs') /\ Below(chunks', objs', base', empty') /\ InOrder(chunks', objs')
  BY <1>3, <1>4, <1>6, <1>7, <1>8, <1>12, <1>13, <1>14
<1>17. /\ base' \in Nat /\ next' \in Nat /\ limit' \in Nat /\ base' <= next' /\ next' <= limit'
       /\ limit' <= Top
  BY <1>3, <1>4, <1>6
<1>. QED  BY <1>9, <1>13, <1>15, <1>16, <1>17, LiveInv

\* Nothing moves, but memory may have run out.
LEMMA SameInv ==
  ASSUME ObstackInv, state' \in {state, "dead"}, failed' \in BOOLEAN, (failed => failed'),
         UNCHANGED <<chunks, base, next, limit, empty, mem, objs>>
  PROVE  ObstackInv'
<1>1. ObstackTypeOK' /\ ChunksOK(chunks') /\ GrowingOK(chunks', base', next', limit')
  BY DEF ObstackInv, ObstackTypeOK
<1>2. state' = "live" => state = "live"
  OBVIOUS
<1>3. CASE state' # "live"
  BY <1>1, <1>3 DEF ObstackInv
<1>4. CASE state = "live"
  <2>1. chunks' = <<>> => failed' /\ objs' = <<>> /\ base' = next'
    BY <1>4 DEF ObstackInv
  <2>2. /\ StartsWell(base', limit') /\ Placed(chunks', objs') /\ Below(chunks', objs', base', empty')
        /\ InOrder(chunks', objs')
    BY <1>4 DEF ObstackInv
  <2>. QED  BY <1>1, <2>1, <2>2 DEF ObstackInv
<1>. QED  BY <1>2, <1>3, <1>4

LEMMA FreeAllInv == ASSUME ObstackInv, FreeAll PROVE ObstackInv'
<1>1. /\ state' = "none" /\ objs' = <<>> /\ chunks' = <<>> /\ base' = 0 /\ next' = 0 /\ limit' = 0
      /\ empty' = FALSE /\ failed' = FALSE /\ mem' = [a \in Addresses |-> Junk]
  BY DEF FreeAll
<1>2. /\ 0 \in 0 .. Top /\ chunks' \in Seq(Chunk) /\ objs' \in Seq(Object) /\ Len(chunks') = 0
      /\ mem' \in Words
  BY <1>1, ObstackAssumption DEF Words
<1>3. ObstackTypeOK'
  BY <1>1, <1>2 DEF ObstackTypeOK, Words, Object
<1>4. ChunksOK(chunks') /\ GrowingOK(chunks', base', next', limit')
  BY <1>1, <1>2 DEF ChunksOK, GrowingOK
<1>. QED  BY <1>1, <1>3, <1>4 DEF ObstackInv

LEMMA ObstackInitInv == ObstackInit => ObstackInv
<1> SUFFICES ASSUME ObstackInit PROVE ObstackInv
  OBVIOUS
<1>1. /\ state = "none" /\ objs = <<>> /\ chunks = <<>> /\ base = 0 /\ next = 0 /\ limit = 0
      /\ empty = FALSE /\ failed = FALSE /\ mem = [a \in Addresses |-> Junk]
  BY DEF ObstackInit
<1>2. /\ 0 \in 0 .. Top /\ chunks \in Seq(Chunk) /\ objs \in Seq(Object) /\ Len(chunks) = 0
      /\ mem \in Words
  BY <1>1, ObstackAssumption DEF Words
<1>3. ObstackTypeOK
  BY <1>1, <1>2 DEF ObstackTypeOK, Words, Object
<1>4. ChunksOK(chunks) /\ GrowingOK(chunks, base, next, limit)
  BY <1>1, <1>2 DEF ChunksOK, GrowingOK
<1>. QED  BY <1>1, <1>3, <1>4 DEF ObstackInv

LEMMA ObstackNextInv == ObstackInv /\ [ObstackNext]_obstackVars => ObstackInv'
<1> SUFFICES ASSUME ObstackInv, [ObstackNext]_obstackVars PROVE ObstackInv'
  OBVIOUS
<1>1. CASE Begin
  BY <1>1, BeginInv
<1>2. CASE Finish
  BY <1>2, FinishInv
<1>3. CASE FinishRefused \/ UNCHANGED obstackVars
  <2>1. UNCHANGED <<state, chunks, base, next, limit, empty, failed, mem, objs>>
    BY <1>3 DEF FinishRefused, obstackVars, h
  <2>2. failed \in BOOLEAN
    BY DEF ObstackInv, ObstackTypeOK
  <2>. QED  BY <2>1, <2>2, SameInv
<1>4. CASE FreeAll
  BY <1>4, FreeAllInv
<1>5. ASSUME NEW t \in Texts, Grow(t) \/ Alloc(t) PROVE ObstackInv'
  BY <1>5, GrowInv, AllocInv
<1>6. ASSUME NEW n \in Lens, Calloc(n) PROVE ObstackInv'
  BY <1>6, NulsAreText, AllocInv DEF Calloc
<1>7. ASSUME NEW n \in Lens, Refuse(n) \/ WritesToNull(n) PROVE ObstackInv'
  <2>1. /\ state' \in {state, "dead"} /\ failed' = TRUE
        /\ UNCHANGED <<chunks, base, next, limit, empty, mem, objs>>
    BY <1>7 DEF Refuse, WritesToNull, Die
  <2>2. failed' \in BOOLEAN /\ (failed => failed')
    BY <2>1
  <2>. QED  BY <2>1, <2>2, SameInv
<1>8. ASSUME NEW i \in DOMAIN objs, FreeFrom(i) \/ \E t \in Texts : Realloc(i, t) PROVE ObstackInv'
  <2>1. i \in 1 .. Len(objs)
    BY ObstackTypes
  <2>. QED  BY <1>8, <2>1, FreeFromInv, ReallocInv
<1>. QED  BY <1>1, <1>2, <1>3, <1>4, <1>5, <1>6, <1>7, <1>8 DEF ObstackNext

LEMMA ApartObjects ==
  ASSUME NEW c \in Chunk, NEW d \in Chunk, NEW o \in Object, NEW p \in Object,
         Has(c, o), Has(d, p), Apart(c, d)
  PROVE  o.at + o.len <= p.at \/ p.at + p.len <= o.at
<1>1. PICK ca \in Nat, cl \in Nat, da \in Nat, dl \in Nat :
        ca = c.at /\ cl = c.limit /\ da = d.at /\ dl = d.limit
  BY ChunkIs
<1>2. PICK oa \in Nat, ol \in Nat, pa \in Nat, pl \in Nat :
        oa = o.at /\ ol = o.len /\ pa = p.at /\ pl = p.len
  BY ObjectIs
<1>3. ca + Header <= oa /\ oa + ol <= cl /\ da + Header <= pa /\ pa + pl <= dl
  BY <1>1, <1>2 DEF Has
<1>4. cl <= da \/ dl <= ca
  BY <1>1 DEF Apart
<1>5. oa + ol <= pa \/ pa + pl <= oa
  BY <1>3, <1>4, ObstackAssumption
<1>. QED  BY <1>2, <1>5

LEMMA ObstackInvWellPlaced == ObstackInv => WellPlaced
<1> SUFFICES ASSUME ObstackInv PROVE WellPlaced
  OBVIOUS
<1>1. ASSUME state = "live", NEW i \in DOMAIN objs
      PROVE  /\ InOneChunk(objs[i]) /\ AllocatedP(objs[i].at)
             /\ objs[i].len > 0 => objs[i].at % Alignment = 0
             /\ \A j \in 1 .. i - 1 :
                  objs[i].at >= objs[j].at + objs[j].len \/ objs[i].at + objs[i].len <= objs[j].at
  <2>1. i \in 1 .. Len(objs)
    BY ObstackTypes
  <2>2. PICK k \in 1 .. Len(chunks) : Has(chunks[k], objs[i]) /\ StartsWell(objs[i].at, chunks[k].limit)
    BY <1>1, <2>1 DEF ObstackInv, Placed
  <2>3. InOneChunk(objs[i])
    BY <2>2, ObstackTypes DEF InOneChunk, Has
  <2>4. objs[i].at \in Nat /\ objs[i].len \in Nat /\ chunks[k].at \in Nat /\ chunks[k].limit \in Nat
    BY <2>1, ObstackTypes
  <2>5. objs[i].len > 0 => objs[i].at % Alignment = 0
    BY <2>2, <2>4 DEF Has, StartsWell
  <2>6. ASSUME NEW j \in 1 .. i - 1
        PROVE  objs[i].at >= objs[j].at + objs[j].len \/ objs[i].at + objs[i].len <= objs[j].at
    <3>1. j \in 1 .. Len(objs) /\ j < i
      BY <2>1
    <3>2. PICK m \in 1 .. Len(chunks) : Has(chunks[m], objs[j])
      BY <1>1, <3>1 DEF ObstackInv, Placed
    <3>3. objs[j].at \in Nat /\ objs[j].len \in Nat /\ chunks[m].at \in Nat /\ chunks[m].limit \in Nat
      BY <3>1, ObstackTypes
    <3>4. CASE m = k
      <4>1. objs[j].at + objs[j].len <= objs[i].at
        BY <1>1, <2>1, <2>2, <3>1, <3>2, <3>4 DEF ObstackInv, InOrder
      <4>. QED  BY <2>4, <3>3, <4>1
    <3>5. CASE m # k
      <4>1. Apart(chunks[m], chunks[k])
        BY <3>5 DEF ObstackInv, ChunksOK
      <4>2. chunks[k] \in Chunk /\ chunks[m] \in Chunk /\ objs[i] \in Object /\ objs[j] \in Object
        BY <2>1, <3>1, ObstackTypes
      <4>3. objs[j].at + objs[j].len <= objs[i].at \/ objs[i].at + objs[i].len <= objs[j].at
        BY <2>2, <3>2, <4>1, <4>2, ApartObjects
      <4>. QED  BY <2>4, <3>3, <4>3
    <3>. QED  BY <3>4, <3>5
  <2>. QED  BY <1>1, <2>1, <2>3, <2>5, <2>6, FreeKnows
<1>2. /\ chunks # <<>> => limit = chunks[1].limit /\ chunks[1].at + Header <= base
      /\ base <= next /\ next <= limit /\ ObstackTypeOK
  BY DEF ObstackInv, GrowingOK
<1>. QED  BY <1>1, <1>2 DEF WellPlaced

\* Every object lies in one chunk, aligned, and apart from the others,
\* whatever was allocated, grown and freed and wherever malloc puts the
\* chunks; the object that grows is in the newest.
THEOREM ObstackPlacement == ObstackSpec => []WellPlaced
<1>1. ObstackInv /\ [ObstackNext]_obstackVars => ObstackInv'
  BY ObstackNextInv
<1>2. ObstackSpec => []ObstackInv
  BY <1>1, ObstackInitInv, PTL DEF ObstackSpec
<1>. QED  BY <1>2, ObstackInvWellPlaced, PTL

-----------------------------------------------------------------------------
\* Functions on 1 .. n are sequences.
LEMMA AsSequence ==
  ASSUME NEW n \in Nat, NEW f, f = [i \in 1 .. n |-> f[i]], NEW S, \A i \in 1 .. n : f[i] \in S
  PROVE  f \in Seq(S) /\ Len(f) = n /\ DOMAIN f = 1 .. n
<1>1. f \in [1 .. n -> S]
  OBVIOUS
<1>. QED  BY <1>1

LEMMA AsAppend ==
  ASSUME NEW n \in Nat, NEW S, NEW f \in Seq(S), Len(f) = n, NEW t \in S,
         NEW e \in Seq(S), Len(e) = n + 1, e[n + 1] = t, \A i \in 1 .. n : e[i] = f[i]
  PROVE  e = Append(f, t)
  OBVIOUS

LEMMA AsPrefix ==
  ASSUME NEW S, NEW f \in Seq(S), NEW k \in 0 .. Len(f), NEW e \in Seq(S), Len(e) = k,
         \A i \in 1 .. k : e[i] = f[i]
  PROVE  e = SubSeq(f, 1, k)
  OBVIOUS

LEMMA AsConcat ==
  ASSUME NEW S, NEW f \in Seq(S), NEW g \in Seq(S), NEW e \in Seq(S), Len(e) = Len(f) + Len(g),
         \A i \in 1 .. Len(f) : e[i] = f[i], \A i \in 1 .. Len(g) : e[Len(f) + i] = g[i]
  PROVE  e = f \o g
<1>1. PICK both : both = f \o g
  OBVIOUS
<1>2. both \in Seq(S) /\ Len(both) = Len(f) + Len(g)
  BY <1>1
<1>3. ASSUME NEW i \in 1 .. Len(both) PROVE both[i] = e[i]
  <2>1. CASE i <= Len(f)
    BY <1>1, <1>2, <2>1
  <2>2. CASE i > Len(f)
    <3>1. PICK j \in 1 .. Len(g) : i = Len(f) + j
      <4>1. i - Len(f) \in 1 .. Len(g) /\ i = Len(f) + (i - Len(f))
        BY <1>2, <2>2
      <4>. QED  BY <4>1
    <3>2. both[i] = g[j]
      BY <1>1, <3>1
    <3>. QED  BY <3>1, <3>2
  <2>. QED  BY <2>1, <2>2, <1>2
<1>. QED  BY <1>1, <1>2, <1>3

-----------------------------------------------------------------------------
\* What is in memory m from b on, and in objects os.
TextIn(m, b, n) == [i \in 1 .. n |-> m[b + i - 1]]
TextsOf(m, os)  == [i \in DOMAIN os |-> TextIn(m, os[i].at, os[i].len)]

Inside(o) == o.at .. o.at + o.len - 1

LEMMA SameTexts ==
  ASSUME NEW os \in Seq(Object), NEW m, NEW w,
         \A i \in 1 .. Len(os) : \A a \in Inside(os[i]) : w[a] = m[a]
  PROVE  TextsOf(w, os) = TextsOf(m, os)
<1>1. ASSUME NEW i \in DOMAIN os PROVE TextIn(w, os[i].at, os[i].len) = TextIn(m, os[i].at, os[i].len)
  <2>1. i \in 1 .. Len(os) /\ os[i] \in Object
    OBVIOUS
  <2>2. PICK at \in Nat, len \in Nat : at = os[i].at /\ len = os[i].len
    BY <2>1, ObjectIs
  <2>3. \A j \in 1 .. len : at + j - 1 \in Inside(os[i])
    BY <2>2 DEF Inside
  <2>4. \A j \in 1 .. len : w[at + j - 1] = m[at + j - 1]
    BY <2>1, <2>3
  <2>. QED  BY <2>2, <2>4 DEF TextIn
<1>. QED  BY <1>1 DEF TextsOf

LEMMA TextsAre ==
  ASSUME NEW S, NEW m, NEW os \in Seq(Object), NEW f, f = TextsOf(m, os),
         \A i \in 1 .. Len(os) : TextIn(m, os[i].at, os[i].len) \in S
  PROVE  /\ f \in Seq(S) /\ Len(f) = Len(os) /\ DOMAIN f = 1 .. Len(os)
         /\ \A i \in 1 .. Len(os) : f[i] = TextIn(m, os[i].at, os[i].len)
<1>1. DOMAIN os = 1 .. Len(os) /\ Len(os) \in Nat
  OBVIOUS
<1>2. f = [i \in 1 .. Len(os) |-> f[i]] /\ \A i \in 1 .. Len(os) : f[i] = TextIn(m, os[i].at, os[i].len)
  BY <1>1 DEF TextsOf
<1>. QED  BY <1>1, <1>2, AsSequence

LEMMA OneMoreText ==
  ASSUME NEW os \in Seq(Object), NEW o \in Object, NEW m, NEW ps, ps = Append(os, o)
  PROVE  TextsOf(m, ps) = Append(TextsOf(m, os), TextIn(m, o.at, o.len))
<1>1. PICK t : t = TextIn(m, o.at, o.len)
  OBVIOUS
<1>2. PICK f : f = TextsOf(m, os)
  OBVIOUS
<1>3. PICK e : e = TextsOf(m, ps)
  OBVIOUS
<1>4. /\ ps \in Seq(Object) /\ Len(ps) = Len(os) + 1 /\ Len(os) \in Nat /\ ps[Len(os) + 1] = o
      /\ \A i \in 1 .. Len(os) : ps[i] = os[i]
  OBVIOUS
<1>5. PICK S : S = {TextIn(m, ps[i].at, ps[i].len) : i \in 1 .. Len(ps)}
  OBVIOUS
<1>6. /\ f \in Seq(S) /\ Len(f) = Len(os)
      /\ \A i \in 1 .. Len(os) : f[i] = TextIn(m, os[i].at, os[i].len)
  <2>1. \A i \in 1 .. Len(os) : TextIn(m, os[i].at, os[i].len) \in S
    BY <1>4, <1>5
  <2>. QED  BY <1>2, <2>1, TextsAre
<1>7. /\ e \in Seq(S) /\ Len(e) = Len(os) + 1
      /\ \A i \in 1 .. Len(ps) : e[i] = TextIn(m, ps[i].at, ps[i].len)
  <2>1. \A i \in 1 .. Len(ps) : TextIn(m, ps[i].at, ps[i].len) \in S
    BY <1>5
  <2>2. PICK qs : qs = ps
    OBVIOUS
  <2>3. /\ qs \in Seq(Object) /\ e = TextsOf(m, qs)
        /\ \A i \in 1 .. Len(qs) : TextIn(m, qs[i].at, qs[i].len) \in S
    BY <1>3, <1>4, <2>1, <2>2
  <2>4. /\ e \in Seq(S) /\ Len(e) = Len(qs)
        /\ \A i \in 1 .. Len(qs) : e[i] = TextIn(m, qs[i].at, qs[i].len)
    BY <2>3, TextsAre
  <2>. QED  BY <1>4, <2>2, <2>4
<1>8. t \in S /\ e[Len(os) + 1] = t /\ \A i \in 1 .. Len(os) : e[i] = f[i]
  <2>1. Len(os) + 1 \in 1 .. Len(ps)
    BY <1>4
  <2>2. t \in S /\ e[Len(os) + 1] = t
    BY <1>1, <1>4, <1>5, <1>7, <2>1
  <2>3. \A i \in 1 .. Len(os) : e[i] = f[i]
    BY <1>4, <1>6, <1>7
  <2>. QED  BY <2>2, <2>3
<1>9. e = Append(f, t)
  BY <1>4, <1>6, <1>7, <1>8, AsAppend
<1>. QED  BY <1>1, <1>2, <1>3, <1>9

LEMMA FewerTexts ==
  ASSUME NEW os \in Seq(Object), NEW i \in 1 .. Len(os), NEW m, NEW ps \in Seq(Object),
         Len(ps) = i - 1, \A j \in 1 .. i - 1 : ps[j] = os[j]
  PROVE  TextsOf(m, ps) = SubSeq(TextsOf(m, os), 1, i - 1)
<1>1. PICK f : f = TextsOf(m, os)
  OBVIOUS
<1>2. PICK e : e = TextsOf(m, ps)
  OBVIOUS
<1>3. PICK S : S = {TextIn(m, os[j].at, os[j].len) : j \in 1 .. Len(os)}
  OBVIOUS
<1>4. /\ f \in Seq(S) /\ Len(f) = Len(os)
      /\ \A j \in 1 .. Len(os) : f[j] = TextIn(m, os[j].at, os[j].len)
  <2>1. \A j \in 1 .. Len(os) : TextIn(m, os[j].at, os[j].len) \in S
    BY <1>3
  <2>. QED  BY <1>1, <2>1, TextsAre
<1>5. /\ e \in Seq(S) /\ Len(e) = i - 1
      /\ \A j \in 1 .. Len(ps) : e[j] = TextIn(m, ps[j].at, ps[j].len)
  <2>1. DOMAIN ps = 1 .. i - 1 /\ i - 1 \in Nat /\ Len(ps) = i - 1
    OBVIOUS
  <2>2. e = [j \in 1 .. i - 1 |-> TextIn(m, ps[j].at, ps[j].len)]
    BY <1>2, <2>1 DEF TextsOf
  <2>3. DOMAIN e = 1 .. i - 1 /\ \A j \in 1 .. i - 1 : e[j] = TextIn(m, ps[j].at, ps[j].len)
    BY <2>2
  <2>4. \A j \in 1 .. i - 1 : e[j] \in S
    <3>1. ASSUME NEW j \in 1 .. i - 1 PROVE TextIn(m, ps[j].at, ps[j].len) \in S
      <4>1. j \in 1 .. Len(os) /\ ps[j] = os[j]
        OBVIOUS
      <4>. QED  BY <1>3, <4>1
    <3>. QED  BY <2>3, <3>1
  <2>5. e = [j \in 1 .. i - 1 |-> e[j]]
    BY <2>2, <2>3
  <2>6. e \in Seq(S) /\ Len(e) = i - 1
    BY <2>1, <2>4, <2>5, AsSequence
  <2>. QED  BY <2>1, <2>3, <2>6
<1>6. \A j \in 1 .. i - 1 : e[j] = f[j]
  <2>1. ASSUME NEW j \in 1 .. i - 1 PROVE e[j] = f[j]
    <3>1. j \in 1 .. Len(os) /\ j \in 1 .. Len(ps) /\ ps[j] = os[j]
      OBVIOUS
    <3>2. e[j] = TextIn(m, ps[j].at, ps[j].len)
      BY <1>5, <3>1
    <3>3. f[j] = TextIn(m, os[j].at, os[j].len)
      BY <1>4, <3>1
    <3>. QED  BY <3>1, <3>2, <3>3
  <2>. QED  BY <2>1
<1>7. i - 1 \in 0 .. Len(f)
  BY <1>4
<1>8. e = SubSeq(f, 1, i - 1)
  BY <1>4, <1>5, <1>6, <1>7, AsPrefix
<1>. QED  BY <1>1, <1>2, <1>8

LEMMA NoText == ASSUME NEW m, NEW b PROVE TextIn(m, b, 0) = <<>> /\ TextsOf(m, <<>>) = <<>>
<1>1. TextIn(m, b, 0) = <<>>
  BY DEF TextIn
<1>. QED  BY <1>1 DEF TextsOf

-----------------------------------------------------------------------------
\* A byte of an object is a byte of the chunk it lies in.
LEMMA ByteInChunk ==
  ASSUME NEW ca \in Nat, NEW cl \in Nat, cl <= Top, NEW at \in Nat, NEW len \in Nat,
         ca + Header <= at, at + len <= cl, NEW a \in Int, at <= a, a < at + len
  PROVE  a \in Addresses /\ ca <= a /\ a < cl
<1>1. Header \in Nat /\ Top \in Nat
  BY ObstackAssumption
<1>. QED  BY <1>1 DEF Addresses

\* An object lies below the one that grows, or in another chunk.
LEMMA ObjectOutside ==
  ASSUME NEW cs \in Seq(Chunk), cs # <<>>, ChunksOK(cs), NEW os \in Seq(Object), Placed(cs, os),
         NEW b \in Nat, NEW emp, Below(cs, os, b, emp), cs[1].at + Header <= b,
         NEW i \in 1 .. Len(os), NEW a \in Inside(os[i])
  PROVE  a \in Addresses /\ (a < b \/ a >= cs[1].limit)
<1>1. PICK k \in 1 .. Len(cs) : Has(cs[k], os[i])
  BY DEF Placed
<1>2. cs[1] \in Chunk /\ cs[k] \in Chunk /\ os[i] \in Object /\ 1 \in 1 .. Len(cs)
  OBVIOUS
<1>3. PICK fa \in Nat, fl \in Nat, ca \in Nat, cl \in Nat, at \in Nat, len \in Nat :
        /\ fa = cs[1].at /\ fl = cs[1].limit /\ ca = cs[k].at /\ cl = cs[k].limit /\ cl <= Top
        /\ at = os[i].at /\ len = os[i].len
  <2>1. /\ cs[1].at \in Nat /\ cs[1].limit \in Nat /\ cs[k].at \in Nat /\ cs[k].limit \in Nat
        /\ cs[k].limit <= Top /\ os[i].at \in Nat /\ os[i].len \in Nat
    <3>1. Top \in Nat
      BY ObstackAssumption
    <3>2. cs[1].at \in Nat /\ cs[1].limit \in Nat
      BY <1>2, <3>1, ChunkIs
    <3>3. cs[k].at \in Nat /\ cs[k].limit \in Nat /\ cs[k].limit <= Top
      BY <1>2, <3>1, ChunkIs
    <3>4. os[i].at \in Nat /\ os[i].len \in Nat
      BY <1>2, <3>1, ObjectIs
    <3>. QED  BY <3>2, <3>3, <3>4
  <2>. USE <2>1
  <2>. WITNESS cs[1].at \in Nat, cs[1].limit \in Nat, cs[k].at \in Nat, cs[k].limit \in Nat,
               os[i].at \in Nat, os[i].len \in Nat
  <2>. QED  OBVIOUS
<1>4. ca + Header <= at /\ at + len <= cl /\ Header \in Nat /\ Top \in Nat
  <2>1. Header \in Nat /\ Top \in Nat
    BY ObstackAssumption
  <2>2. ca + Header <= at /\ at + len <= cl
    BY <1>1, <1>3 DEF Has
  <2>. QED  BY <2>1, <2>2
<1>5. a \in Int /\ at <= a /\ a < at + len
  <2>1. a \in at .. at + len - 1
    BY <1>3 DEF Inside
  <2>. QED  BY <2>1
<1>6. a \in Addresses
  BY <1>3, <1>4, <1>5, ByteInChunk, Zenon
<1>7. CASE k = 1
  <2>1. os[i].at + os[i].len <= b
    BY <1>1, <1>7 DEF Below
  <2>2. at + len <= b
    BY <1>3, <2>1
  <2>. QED  BY <1>5, <1>6, <2>2, <1>3
<1>8. CASE k # 1
  <2>1. Apart(cs[1], cs[k])
    BY <1>2, <1>8 DEF ChunksOK
  <2>2. fl <= ca \/ cl <= fa
    BY <1>3, <2>1 DEF Apart
  <2>3. fa + Header <= b
    BY <1>3
  <2>4. fa \in Int /\ fl \in Int /\ ca \in Int /\ cl \in Int /\ at \in Int /\ len \in Int
    OBVIOUS
  <2>5. a < b \/ a >= fl
    BY <1>4, <1>5, <2>2, <2>3, <2>4
  <2>. QED  BY <1>3, <1>6, <2>5
<1>. QED  BY <1>7, <1>8

\* What stands in the obstack stays when the object that grows moves.
RoomKeeps(rb, rm) ==
  /\ \A i \in 1 .. Len(objs) : \A a \in Inside(objs[i]) : rm[a] = mem[a]
  /\ \A d \in 0 .. next - base - 1 : rm[rb + d] = mem[base + d]

LEMMA CopiedKeeps ==
  ASSUME ObstackInv, state = "live", NEW n \in Nat, NEW c \in Malloc(NewSize(n)),
         NEW i \in 1 .. Len(objs), NEW a \in Inside(objs[i])
  PROVE  Copied(c.at + Header)[a] = mem[a]
<1>1. PICK k \in 1 .. Len(chunks) : Has(chunks[k], objs[i])
  BY DEF ObstackInv, Placed
<1>2. chunks # <<>> /\ 1 \in 1 .. Len(chunks)
  BY <1>1, ObstackTypes
<1>3. /\ chunks \in Seq(Chunk) /\ objs \in Seq(Object) /\ ChunksOK(chunks) /\ Placed(chunks, objs)
      /\ Below(chunks, objs, base, empty) /\ base \in Nat /\ next \in Nat /\ limit \in Nat
      /\ chunks[1].at + Header <= base /\ next <= limit /\ limit = chunks[1].limit /\ base <= next
  BY <1>2, ObstackTypes DEF ObstackInv, GrowingOK
<1>4. a \in Addresses /\ (a < base \/ a >= limit)
  BY <1>2, <1>3, ObjectOutside
<1>5. /\ c.at \in Nat /\ c.limit \in Nat /\ c.at + Header + (next - base) + n <= c.limit
      /\ Apart(c, chunks[k]) /\ Header \in Nat
  BY MallocIs, ObstackAssumption
<1>6. PICK fa \in Nat, fl \in Nat, ca \in Nat, cl \in Nat, at \in Nat, len \in Nat :
        /\ fa = chunks[1].at /\ fl = chunks[1].limit /\ ca = chunks[k].at /\ cl = chunks[k].limit
        /\ at = objs[i].at /\ len = objs[i].len
  <2>1. /\ chunks[1].at \in Nat /\ chunks[1].limit \in Nat /\ chunks[k].at \in Nat
        /\ chunks[k].limit \in Nat
        /\ objs[i].at \in Nat /\ objs[i].len \in Nat
    <3>1. \A m \in 1 .. Len(chunks) : chunks[m].at \in Nat /\ chunks[m].limit \in Nat
      BY ObstackTypes
    <3>2. objs[i].at \in Nat /\ objs[i].len \in Nat
      BY ObstackTypes
    <3>. QED  BY <1>2, <3>1, <3>2
  <2>. USE <2>1
  <2>. WITNESS chunks[1].at \in Nat, chunks[1].limit \in Nat, chunks[k].at \in Nat,
               chunks[k].limit \in Nat, objs[i].at \in Nat, objs[i].len \in Nat
  <2>. QED  OBVIOUS
<1>7. ca + Header <= at /\ at + len <= cl
  BY <1>1, <1>6 DEF Has
<1>8. a \in Int /\ at <= a /\ a < at + len
  <2>1. a \in at .. at + len - 1
    BY <1>6 DEF Inside
  <2>. QED  BY <2>1
<1>9. /\ fa \in Int /\ fl \in Int /\ ca \in Int /\ cl \in Int /\ at \in Int /\ len \in Int
      /\ Header \in Nat
  <2>1. Header \in Nat
    BY ObstackAssumption
  <2>2. fa \in Int /\ fl \in Int /\ ca \in Int /\ cl \in Int /\ at \in Int /\ len \in Int
    OBVIOUS
  <2>. QED  BY <2>1, <2>2
<1>10. a \notin (c.at + Header) .. (c.at + Header) + (next - base) - 1
  <2>1. PICK na \in Nat, nl \in Nat, d \in Nat : na = c.at /\ nl = c.limit /\ d = next - base
    BY <1>3, <1>5
  <2>2. na \in Int /\ nl \in Int /\ d \in Nat
    BY <2>1
  <2>3. na + Header + d + n <= nl
    BY <1>5, <2>1
  <2>4. nl <= ca \/ cl <= na
    BY <1>5, <1>6, <2>1 DEF Apart
  <2>5. a < na \/ a >= nl
    BY <1>9, <1>7, <1>8, <2>2, <2>4
  <2>6. a \notin (na + Header) .. (na + Header) + d - 1
    BY <1>9, <1>8, <2>2, <2>3, <2>5
  <2>. QED  BY <2>1, <2>6
<1>11. a \notin base .. next - 1
  BY <1>3, <1>4, <1>8
<1>12. ~(OnlyThat /\ Within(a, chunks[1]))
  <2> SUFFICES ASSUME OnlyThat, Within(a, chunks[1]) PROVE FALSE
    OBVIOUS
  <2>1. k # 1
    BY <1>1, NoneInFirst
  <2>2. Apart(chunks[1], chunks[k])
    BY <1>2, <1>3, <2>1 DEF ChunksOK
  <2>3. fl <= ca \/ cl <= fa
    BY <1>6, <2>2 DEF Apart
  <2>4. fa <= a /\ a < fl
    BY <1>6, <1>8 DEF Within
  <2>. QED  BY <1>9, <1>7, <1>8, <2>3, <2>4
<1>. QED  BY <1>4, <1>10, <1>11, <1>12 DEF Copied

LEMMA RoomIsKept ==
  ASSUME ObstackInv, state = "live", NEW n \in Nat, NEW room \in WithRoom(n)
  PROVE  RoomKeeps(room.base, room.mem)
<1>1. CASE Fits(n)
  <2>1. room.base = base /\ room.mem = mem
    BY <1>1 DEF WithRoom
  <2>. QED  BY <2>1 DEF RoomKeeps
<1>2. CASE ~Fits(n)
  <2>1. PICK c \in Malloc(NewSize(n)) : room = NewChunk(c)
    BY <1>2 DEF WithRoom
  <2>2. PICK to : to = c.at + Header
    OBVIOUS
  <2>3. room.base = to /\ room.mem = Copied(to)
    BY <2>1, <2>2 DEF NewChunk
  <2>4. \A i \in 1 .. Len(objs) : \A a \in Inside(objs[i]) : Copied(to)[a] = mem[a]
    BY <2>2, CopiedKeeps
  <2>5. /\ c.at \in Nat /\ c.limit \in Nat /\ c.limit <= Top
        /\ c.at + Header + (next - base) + n <= c.limit
        /\ Header \in Nat /\ Top \in Nat /\ next - base \in Nat
    <3>1. /\ c.at \in Nat /\ c.limit \in Nat /\ c.limit <= Top
          /\ c.at + Header + (next - base) + n <= c.limit
      BY MallocIs
    <3>2. Header \in Nat /\ Top \in Nat /\ next - base \in Nat
      BY ObstackTypes
    <3>. QED  BY <3>1, <3>2
  <2>6. to \in Nat /\ to + (next - base) <= Top
    <3>1. PICK d \in Nat : d = next - base
      BY <2>5
    <3>2. c.at + Header + d + n <= c.limit
      BY <2>5, <3>1
    <3>3. to \in Nat /\ to + d + n <= c.limit
      BY <2>2, <2>5, <3>2
    <3>4. to + d <= Top
      BY <2>5, <3>1, <3>3
    <3>. QED  BY <3>1, <3>3, <3>4
  <2>7. ASSUME NEW d \in 0 .. next - base - 1 PROVE Copied(to)[to + d] = mem[base + d]
    <3>1. to + d \in Addresses
      <4>1. PICK e \in Nat : e = next - base
        BY <2>5
      <4>2. d \in 0 .. e - 1 /\ to + e <= Top
        BY <2>6, <4>1
      <4>. QED  BY <2>5, <2>6, <4>1, <4>2 DEF Addresses
    <3>. QED  BY <2>6, <3>1, CopiedIs
  <2>. QED  BY <2>3, <2>4, <2>7 DEF RoomKeeps
<1>. QED  BY <1>1, <1>2

\* A text put behind the one that is growing.
LEMMA PutKeeps ==
  ASSUME ObstackInv, state = "live", NEW t \in Seq(Bytes \cup {Junk}), NEW room, NEW w,
         RoomOK(room.chunks, room.base, room.next, room.limit, room.empty, room.mem, Len(t)),
         RoomKeeps(room.base, room.mem),
         w = Put(room.mem, room.next, t)
  PROVE  /\ TextsOf(w, objs) = TextsOf(mem, objs)
         /\ TextIn(w, room.base, room.next - room.base + Len(t)) = TextIn(mem, base, next - base) \o t
<1>1. /\ room.chunks \in Seq(Chunk) /\ room.chunks # <<>> /\ ChunksOK(room.chunks)
      /\ room.base \in Nat /\ room.next \in Nat /\ room.limit \in Nat /\ room.limit <= Top
      /\ room.mem \in Words
      /\ room.next - room.base = next - base /\ room.next + Len(t) <= room.limit
      /\ room.limit = room.chunks[1].limit /\ room.chunks[1].at + Header <= room.base
      /\ Placed(room.chunks, objs) /\ Below(room.chunks, objs, room.base, room.empty)
  BY DEF RoomOK
<1>2. objs \in Seq(Object) /\ Top \in Nat
  BY ObstackTypes
<1>3. PICK k \in Nat : k = Len(t)
  OBVIOUS
<1>4. PICK n \in Nat : n = next - base
  BY ObstackTypes
<1>5. PICK rb \in Nat, rn \in Nat, rl \in Nat : rb = room.base /\ rn = room.next /\ rl = room.limit
  BY <1>1
<1>6. rn = rb + n /\ rn + k <= rl /\ rl <= Top
  BY <1>1, <1>3, <1>4, <1>5
<1>7. /\ \A a \in Addresses : a \notin rn .. rn + k - 1 => w[a] = room.mem[a]
      /\ \A a \in Addresses : a \in rn .. rn + k - 1 => w[a] = t[a - rn + 1]
  <2>1. PICK rm \in Words : rm = room.mem
    BY <1>1
  <2>2. w = Put(rm, rn, t)
    BY <1>5, <2>1
  <2>3. /\ \A a \in Addresses : a \notin rn .. rn + Len(t) - 1 => Put(rm, rn, t)[a] = rm[a]
        /\ \A a \in Addresses : a \in rn .. rn + Len(t) - 1 => Put(rm, rn, t)[a] = t[a - rn + 1]
    BY PutIs
  <2>. QED  BY <1>3, <2>1, <2>2, <2>3, Zenon
<1>8. ASSUME NEW i \in 1 .. Len(objs), NEW a \in Inside(objs[i]) PROVE w[a] = mem[a]
  <2>1. a \in Addresses /\ (a < room.base \/ a >= room.limit)
    BY <1>1, <1>2, ObjectOutside
  <2>2. a \in Int /\ (a < rb \/ a >= rl)
    BY <1>5, <2>1 DEF Addresses
  <2>3. a \notin rn .. rn + k - 1
    BY <1>6, <2>2
  <2>. QED  BY <1>7, <2>1, <2>3 DEF RoomKeeps
<1>9. TextsOf(w, objs) = TextsOf(mem, objs)
  BY <1>2, <1>8, SameTexts
<1>10. ASSUME NEW j \in 1 .. n
       PROVE  w[rb + j - 1] = mem[base + j - 1] /\ mem[base + j - 1] \in Bytes \cup {Junk}
  <2>1. /\ rb + j - 1 \in Addresses /\ rb + j - 1 \notin rn .. rn + k - 1 /\ rb + j - 1 = rb + (j - 1)
        /\ j - 1 \in 0 .. n - 1
    BY <1>2, <1>6 DEF Addresses
  <2>2. base + j - 1 = base + (j - 1) /\ base + j - 1 \in Addresses
    BY <1>4, ObstackTypes DEF Addresses
  <2>3. room.mem[rb + (j - 1)] = mem[base + (j - 1)]
    BY <1>4, <1>5, <2>1 DEF RoomKeeps
  <2>4. mem[base + j - 1] \in Bytes \cup {Junk}
    BY <2>2 DEF ObstackInv, ObstackTypeOK
  <2>. QED  BY <1>7, <2>1, <2>2, <2>3, <2>4
<1>11. ASSUME NEW j \in 1 .. Len(t) PROVE w[rb + n + j - 1] = t[j]
  <2>1. /\ rb + n + j - 1 \in Addresses /\ rb + n + j - 1 \in rn .. rn + k - 1
        /\ (rb + n + j - 1) - rn + 1 = j
    BY <1>2, <1>3, <1>6 DEF Addresses
  <2>2. w[rb + n + j - 1] = t[(rb + n + j - 1) - rn + 1]
    BY <1>7, <2>1
  <2>. QED  BY <2>1, <2>2
<1>12. PICK g : g = TextIn(mem, base, n)
  OBVIOUS
<1>13. PICK e : e = TextIn(w, rb, n + k)
  OBVIOUS
<1>14. PICK S : S = Bytes \cup {Junk}
  OBVIOUS
<1>15. t \in Seq(S) /\ \A i \in 1 .. k : t[i] \in S
  BY <1>3, <1>14
<1>16. g = [i \in 1 .. n |-> mem[base + i - 1]] /\ e = [i \in 1 .. n + k |-> w[rb + i - 1]]
  BY <1>12, <1>13 DEF TextIn
<1>17. g \in Seq(S) /\ Len(g) = n
  <2>1. g = [i \in 1 .. n |-> g[i]] /\ \A i \in 1 .. n : g[i] \in S
    BY <1>10, <1>14, <1>16
  <2>. QED  BY <1>4, <2>1, AsSequence
<1>18. \A i \in 1 .. n : e[i] = g[i]
  BY <1>10, <1>16
<1>19. ASSUME NEW i \in 1 .. k PROVE e[n + i] = t[i]
  <2>1. n + i \in 1 .. n + k /\ rb + (n + i) - 1 = rb + n + i - 1
    BY <1>5
  <2>2. e[n + i] = w[rb + (n + i) - 1]
    BY <1>16, <2>1
  <2>3. w[rb + n + i - 1] = t[i]
    BY <1>3, <1>11
  <2>. QED  BY <2>1, <2>2, <2>3
<1>20. ASSUME NEW i \in 1 .. n + k PROVE e[i] \in S
  <2>1. CASE i \in 1 .. n
    BY <1>10, <1>14, <1>16, <2>1
  <2>2. CASE i > n
    <3>1. i - n \in 1 .. k /\ n + (i - n) = i
      BY <2>2
    <3>2. e[i] = t[i - n]
      BY <1>19, <3>1
    <3>. QED  BY <1>15, <3>1, <3>2
  <2>. QED  BY <2>1, <2>2
<1>21. e \in Seq(S) /\ Len(e) = n + k
  <2>1. e = [i \in 1 .. n + k |-> e[i]] /\ n + k \in Nat
    BY <1>16
  <2>. QED  BY <1>20, <2>1, AsSequence
<1>22. e = g \o t
  <2>1. /\ Len(e) = Len(g) + Len(t) /\ \A i \in 1 .. Len(g) : e[i] = g[i]
        /\ \A i \in 1 .. Len(t) : e[Len(g) + i] = t[i]
    BY <1>3, <1>17, <1>18, <1>19, <1>21
  <2>. QED  BY <1>15, <1>17, <1>21, <2>1, AsConcat
<1>23. n + k = room.next - room.base + Len(t)
  BY <1>1, <1>3, <1>4
<1>. QED  BY <1>4, <1>5, <1>9, <1>12, <1>13, <1>22, <1>23

-----------------------------------------------------------------------------
\* The steps of the obstack are those of the stack.
LEMMA BeginIsNew == ASSUME ObstackInv, Begin PROVE Stack!New
<1>1. /\ state # "live" /\ state' = "live" /\ objs' = <<>> /\ next' = base' /\ base' \in Int
      /\ failed' \in BOOLEAN
  <2>1. state # "live" /\ state' = "live" /\ objs' = <<>> /\ next' = base' /\ failed' \in BOOLEAN
    BY DEF Begin
  <2>2. base' \in Int
    BY BeginInv, ObstackAssumption DEF ObstackInv, ObstackTypeOK
  <2>. QED  BY <2>1, <2>2
<1>2. next' - base' = 0
  <2>1. PICK b \in Int : b = next' /\ b = base'
    BY <1>1
  <2>2. b - b = 0
    OBVIOUS
  <2>. QED  BY <2>1, <2>2
<1>3. TextIn(mem', base', next' - base') = <<>> /\ TextsOf(mem', objs') = <<>>
  BY <1>1, <1>2, NoText
<1>. QED  BY <1>1, <1>3 DEF Stack!New, Text, TextIn, TextsOf

LEMMA GrowIsGrow == ASSUME ObstackInv, NEW t \in Texts, Grow(t) PROVE Stack!Grow(t)
<1>1. t \in Seq(Bytes \cup {Junk}) /\ Len(t) \in Nat /\ state = "live"
  BY TextIs DEF Grow
<1>2. PICK room \in WithRoom(Len(t)) :
        next' = room.next + Len(t) /\ mem' = Put(room.mem, room.next, t) /\ base' = room.base
  BY DEF Grow
<1>3. state' = "live" /\ failed' = FALSE /\ objs' = objs
  BY DEF Grow
<1>4. /\ RoomOK(room.chunks, room.base, room.next, room.limit, room.empty, room.mem, Len(t))
      /\ RoomKeeps(room.base, room.mem)
  BY <1>1, RoomIs, RoomIsKept
<1>5. PICK w : w = Put(room.mem, room.next, t)
  OBVIOUS
<1>6. /\ TextsOf(w, objs) = TextsOf(mem, objs)
      /\ TextIn(w, room.base, room.next - room.base + Len(t)) = TextIn(mem, base, next - base) \o t
  BY <1>1, <1>4, <1>5, PutKeeps
<1>7. next' - base' = room.next - room.base + Len(t)
  <2>1. PICK rn \in Nat, rb \in Nat, k \in Nat : rn = room.next /\ rb = room.base /\ k = Len(t)
    BY <1>1, <1>4 DEF RoomOK
  <2>2. PICK d : d = rn - rb + k
    OBVIOUS
  <2>3. (rn + k) - rb = d
    BY <2>2
  <2>4. next' = rn + k /\ base' = rb
    BY <1>2, <2>1
  <2>5. next' - base' = d
    BY <2>3, <2>4
  <2>6. d = room.next - room.base + Len(t)
    BY <2>1, <2>2
  <2>. QED  BY <2>5, <2>6
<1>8. TextsOf(mem', objs') = TextsOf(mem, objs)
  BY <1>2, <1>3, <1>5, <1>6
<1>9. TextIn(mem', base', next' - base') = TextIn(mem, base, next - base) \o t
  BY <1>2, <1>5, <1>6, <1>7
<1>. QED  BY <1>1, <1>3, <1>8, <1>9 DEF Stack!Grow, Text, TextIn, TextsOf

\* An object in the room lies below the top.
LEMMA RoomBelow ==
  ASSUME NEW b \in Nat, NEW n \in Nat, NEW lim \in Nat, NEW k \in Nat, NEW d \in Nat, NEW top \in Nat,
         n - b = d, n + k <= lim, lim <= top
  PROVE  b \in 0 .. top /\ n - b + k \in 0 .. top
OBVIOUS

\* What is carved out of the room for t.
LEMMA CarveTexts ==
  ASSUME ObstackInv, state = "live", NEW t \in Seq(Bytes \cup {Junk}), NEW room, Carve(room, t),
         RoomOK(room.chunks, room.base, room.next, room.limit, room.empty, room.mem, Len(t)),
         RoomKeeps(room.base, room.mem)
  PROVE  /\ TextsOf(mem', objs') = Append(TextsOf(mem, objs), TextIn(mem, base, next - base) \o t)
         /\ TextIn(mem', base', next' - base') = <<>>
         /\ state' = "live" /\ failed' = FALSE
<1>1. PICK w : w = Put(room.mem, room.next, t)
  OBVIOUS
<1>2. PICK o : o = [at |-> room.base, len |-> room.next - room.base + Len(t)]
  OBVIOUS
<1>3. mem' = w /\ objs' = Append(objs, o) /\ next' = base' /\ state' = "live" /\ failed' = FALSE
  BY <1>1, <1>2 DEF Carve
<1>4. /\ TextsOf(w, objs) = TextsOf(mem, objs)
      /\ TextIn(w, room.base, room.next - room.base + Len(t)) = TextIn(mem, base, next - base) \o t
  BY <1>1, PutKeeps
<1>5. o \in Object /\ o.at = room.base /\ o.len = room.next - room.base + Len(t)
  <2>1. PICK rb \in Nat, rn \in Nat, rl \in Nat : rb = room.base /\ rn = room.next /\ rl = room.limit
    BY DEF RoomOK
  <2>2. PICK k \in Nat : k = Len(t)
    OBVIOUS
  <2>3. PICK n \in Nat : n = next - base
    BY ObstackTypes
  <2>4. rn - rb = n /\ rn + k <= rl /\ rl <= Top /\ Top \in Nat
    BY <2>1, <2>2, <2>3, ObstackAssumption DEF RoomOK
  <2>5. rb \in 0 .. Top /\ rn - rb + k \in 0 .. Top
    BY <2>4, <2>1, <2>2, <2>3, RoomBelow, Zenon
  <2>. QED  BY <1>2, <2>1, <2>2, <2>5 DEF Object
<1>6. objs \in Seq(Object)
  BY ObstackTypes
<1>7. TextsOf(w, objs') = Append(TextsOf(w, objs), TextIn(w, o.at, o.len))
  BY <1>3, <1>5, <1>6, OneMoreText
<1>8. base' \in Nat
  <2>1. ObstackInv'
    BY CarveInv
  <2>. QED  BY <2>1, ObstackAssumption DEF ObstackInv, ObstackTypeOK
<1>9. next' - base' = 0
  <2>1. PICK b \in Nat : b = next' /\ b = base'
    BY <1>3, <1>8
  <2>2. b - b = 0
    OBVIOUS
  <2>. QED  BY <2>1, <2>2
<1>10. TextIn(mem', base', next' - base') = <<>>
  BY <1>9, NoText
<1>11. TextsOf(mem', objs') = Append(TextsOf(mem, objs), TextIn(mem, base, next - base) \o t)
  BY <1>3, <1>4, <1>5, <1>7
<1>. QED  BY <1>3, <1>10, <1>11

LEMMA AllocIsPush == ASSUME ObstackInv, NEW t \in Texts, Alloc(t) PROVE Stack!Push(t)
<1>1. t \in Seq(Bytes \cup {Junk}) /\ Len(t) \in Nat /\ state = "live"
  BY TextIs DEF Alloc
<1>2. PICK room \in WithRoom(Len(t)) : Carve(room, t)
  BY DEF Alloc
<1>3. /\ TextsOf(mem', objs') = Append(TextsOf(mem, objs), TextIn(mem, base, next - base) \o t)
      /\ TextIn(mem', base', next' - base') = <<>>
      /\ state' = "live" /\ failed' = FALSE
  BY <1>1, <1>2, RoomIs, RoomIsKept, CarveTexts
<1>. QED  BY <1>1, <1>3 DEF Stack!Push, Text, TextIn, TextsOf

LEMMA ReallocIsPushLonger ==
  ASSUME ObstackInv, NEW i \in 1 .. Len(objs), NEW t \in Texts, Realloc(i, t)
  PROVE  Stack!PushLonger(i, t)
<1>1. t \in Seq(Bytes \cup {Junk}) /\ Len(t) \in Nat /\ state = "live" /\ base = next
  BY TextIs DEF Realloc
<1>2. PICK room \in WithRoom(objs[i].len + Len(t)) :
        Carve(room, [j \in 1 .. objs[i].len |-> room.mem[objs[i].at + j - 1]] \o t)
  BY DEF Realloc
<1>3. objs[i].len \in Nat /\ objs[i].at \in Nat /\ objs \in Seq(Object) /\ next - base = 0
  BY <1>1, ObstackTypes
<1>4. /\ RoomOK(room.chunks, room.base, room.next, room.limit, room.empty,
                room.mem, objs[i].len + Len(t))
      /\ RoomKeeps(room.base, room.mem)
  BY <1>1, <1>3, RoomIs, RoomIsKept
<1>5. PICK old : old = [j \in 1 .. objs[i].len |-> room.mem[objs[i].at + j - 1]]
  OBVIOUS
<1>6. old \in Seq(Bytes \cup {Junk}) /\ Len(old) = objs[i].len
  BY <1>1, <1>4, <1>5, OldTextIs DEF RoomOK
<1>7. PICK all : all = old \o t
  OBVIOUS
<1>8. all \in Seq(Bytes \cup {Junk}) /\ Len(all) = objs[i].len + Len(t)
  BY <1>1, <1>6, <1>7, BothTexts
<1>9. Carve(room, all)
  BY <1>2, <1>5, <1>7
<1>10. /\ TextsOf(mem', objs') = Append(TextsOf(mem, objs), TextIn(mem, base, next - base) \o all)
       /\ TextIn(mem', base', next' - base') = <<>>
       /\ state' = "live" /\ failed' = FALSE
  BY <1>1, <1>4, <1>8, <1>9, CarveTexts
<1>11. TextIn(mem, base, next - base) = <<>>
  BY <1>3, NoText
<1>12. old = TextIn(mem, objs[i].at, objs[i].len)
  <2>1. PICK at \in Nat, len \in Nat : at = objs[i].at /\ len = objs[i].len
    BY <1>3
  <2>2. ASSUME NEW j \in 1 .. len PROVE room.mem[at + j - 1] = mem[at + j - 1]
    <3>1. at + j - 1 \in Inside(objs[i])
      BY <2>1 DEF Inside
    <3>. QED  BY <1>4, <3>1 DEF RoomKeeps
  <2>. QED  BY <1>5, <2>1, <2>2 DEF TextIn
<1>13. TextsOf(mem, objs)[i] = old
  BY <1>3, <1>12 DEF TextsOf
<1>14. PICK f : f = TextsOf(mem, objs)
  OBVIOUS
<1>15. TextsOf(mem', objs') = Append(f, <<>> \o (f[i] \o t))
  BY <1>7, <1>10, <1>11, <1>13, <1>14
<1>16. Stack!Push(f[i] \o t) /\ <<>> = TextIn(mem, base, next - base) /\ f = TextsOf(mem, objs)
  BY <1>1, <1>10, <1>11, <1>14, <1>15 DEF Stack!Push, Text, TextIn, TextsOf
<1>17. TextIn(mem, base, next - base) = <<>> /\ Stack!Push(TextsOf(mem, objs)[i] \o t)
  BY <1>16
<1>. QED  BY <1>17 DEF Stack!PushLonger, Text, TextIn, TextsOf

LEMMA FinishIsFinish == ASSUME ObstackInv, Finish PROVE Stack!Finish
<1>1. PICK o : o = [at |-> base, len |-> next - base]
  OBVIOUS
<1>2. /\ state = "live" /\ ~failed /\ objs' = Append(objs, o) /\ base' = next'
      /\ state' = state /\ failed' = failed /\ mem' = mem
  BY <1>1 DEF Finish
<1>3. o \in Object /\ o.at = base /\ o.len = next - base /\ objs \in Seq(Object)
  <2>1. base \in 0 .. Top /\ next - base \in 0 .. Top
    BY ObstackTypes
  <2>. QED  BY <1>1, <2>1, ObstackTypes DEF Object
<1>4. TextsOf(mem, objs') = Append(TextsOf(mem, objs), TextIn(mem, o.at, o.len))
  BY <1>2, <1>3, OneMoreText
<1>5. base' \in Nat
  BY FinishInv, ObstackAssumption DEF ObstackInv, ObstackTypeOK
<1>6. next' - base' = 0
  <2>1. PICK b \in Nat : b = next' /\ b = base'
    BY <1>2, <1>5
  <2>2. b - b = 0
    OBVIOUS
  <2>. QED  BY <2>1, <2>2
<1>7. TextIn(mem', base', next' - base') = <<>>
  BY <1>6, NoText
<1>8. TextsOf(mem', objs') = Append(TextsOf(mem, objs), TextIn(mem, base, next - base))
  BY <1>2, <1>3, <1>4
<1>. QED  BY <1>2, <1>7, <1>8 DEF Stack!Finish, Text, TextIn, TextsOf

\* What lies below the object freed, in its chunk or one that stays, is kept.
LEMMA BelowStays ==
  ASSUME chunks \in Seq(Chunk), ChunksOK(chunks), NEW q \in 1 .. Len(chunks), NEW k \in 1 .. q,
         NEW o \in Object, Has(chunks[q], o), NEW e \in Nat, q = k => o.at + o.len <= e,
         NEW a \in Inside(o)
  PROVE  Kept(k, e)[a] = mem[a]
<1>1. Header \in Nat /\ Top \in Nat
  BY ObstackAssumption
<1>2. \A m \in 1 .. Len(chunks) :
        chunks[m].at \in Nat /\ chunks[m].limit \in Nat /\ chunks[m].limit <= Top
  <2>1. ASSUME NEW m \in 1 .. Len(chunks)
        PROVE  chunks[m].at \in Nat /\ chunks[m].limit \in Nat /\ chunks[m].limit <= Top
    <3>1. chunks[m] \in Chunk
      OBVIOUS
    <3>. QED  BY <1>1, <3>1, ChunkIs
  <2>. QED  BY <2>1
<1>3. PICK at \in Nat, len \in Nat : at = o.at /\ len = o.len
  BY <1>1, ObjectIs
<1>4. PICK qa \in Nat : qa = chunks[q].at
  BY <1>2
<1>5. PICK ql \in Nat : ql = chunks[q].limit
  BY <1>2
<1>6. qa + Header <= at /\ at + len <= ql
  BY <1>3, <1>4, <1>5 DEF Has
<1>7. ql <= Top
  BY <1>2, <1>5
<1>8. a \in Int /\ at <= a /\ a < at + len
  <2>1. a \in at .. at + len - 1
    BY <1>3 DEF Inside
  <2>. QED  BY <2>1
<1>9. a \in Addresses /\ qa <= a /\ a < ql
  BY <1>6, <1>7, <1>8, ByteInChunk
<1>10. ASSUME NEW m \in 1 .. Len(chunks), m # q PROVE ~Within(a, chunks[m])
  <2>1. Apart(chunks[m], chunks[q])
    BY <1>10 DEF ChunksOK
  <2>2. PICK ma \in Nat : ma = chunks[m].at
    BY <1>2
  <2>3. PICK ml \in Nat : ml = chunks[m].limit
    BY <1>2
  <2>4. ml <= qa \/ ql <= ma
    BY <1>4, <1>5, <2>1, <2>2, <2>3 DEF Apart
  <2>5. ~(a \in ma .. ml - 1)
    BY <1>8, <1>9, <2>4
  <2>. QED  BY <2>2, <2>3, <2>5 DEF Within
<1>11. ~(Within(a, chunks[k]) /\ a >= e)
  <2>1. CASE q = k
    <3>1. at + len <= e
      BY <1>3, <2>1
    <3>. QED  BY <1>8, <3>1
  <2>2. CASE q # k
    <3>1. k \in 1 .. Len(chunks)
      OBVIOUS
    <3>. QED  BY <1>10, <2>2, <3>1
  <2>. QED  BY <2>1, <2>2
<1>12. ~\E m \in 1 .. k - 1 : Within(a, chunks[m])
  <2>1. ASSUME NEW m \in 1 .. k - 1 PROVE ~Within(a, chunks[m])
    <3>1. m \in 1 .. Len(chunks) /\ m # q
      OBVIOUS
    <3>. QED  BY <1>10, <3>1
  <2>. QED  BY <2>1
<1>. QED  BY <1>9, <1>11, <1>12 DEF Kept

LEMMA FreeFromIsFree == ASSUME ObstackInv, NEW i \in 1 .. Len(objs), FreeFrom(i) PROVE Stack!Free(i)
<1>1. PICK ps : ps = SubSeq(objs, 1, i - 1)
  OBVIOUS
<1>2. state = "live" /\ objs' = ps
  BY <1>1 DEF FreeFrom
<1>3. PICK k \in 1 .. Len(chunks) : FreedIn(k, i, ps)
  BY <1>1, <1>2, BeforeIs
<1>4. /\ ps \in Seq(Object) /\ Len(ps) = i - 1 /\ \A j \in 1 .. i - 1 : ps[j] = objs[j]
      /\ Placed(chunks, ps) /\ Has(chunks[k], objs[i])
      /\ \A m \in 1 .. Len(chunks) : Holds(chunks[m], objs[i].at) => m = k
      /\ \A j \in 1 .. Len(ps) : Has(chunks[k], ps[j]) => ps[j].at + ps[j].len <= objs[i].at
      /\ \A j \in 1 .. Len(ps), m \in 1 .. k - 1 : ~Has(chunks[m], ps[j])
  BY <1>3 DEF FreedIn
<1>5. objs \in Seq(Object) /\ objs[i].at \in Nat
  BY ObstackTypes
<1>6. /\ base' = objs[i].at /\ next' = objs[i].at /\ failed' = failed /\ state' = "live"
      /\ \/ mem' = mem
         \/ mem' = Kept(k, objs[i].at)
  <2>1. CASE InChunk(objs[i].at)
    BY <1>2, <2>1 DEF FreeFrom
  <2>2. CASE ~InChunk(objs[i].at)
    <3>1. /\ base' = objs[i].at /\ next' = objs[i].at /\ failed' = failed
          /\ \E m \in DOMAIN chunks : BackTo(m, objs[i].at)
      BY <1>2, <2>2, FreeKnows DEF FreeFrom
    <3>2. PICK m \in 1 .. Len(chunks) : BackTo(m, objs[i].at)
      BY <3>1, ObstackTypes
    <3>3. m = k
      BY <1>4, <3>2 DEF BackTo
    <3>. QED  BY <1>2, <3>1, <3>2, <3>3 DEF BackTo
  <2>. QED  BY <2>1, <2>2
<1>7. ASSUME NEW j \in 1 .. Len(ps), NEW a \in Inside(ps[j]) PROVE Kept(k, objs[i].at)[a] = mem[a]
  <2>1. PICK q \in 1 .. Len(chunks) : Has(chunks[q], ps[j])
    BY <1>4 DEF Placed
  <2>2. k \in 1 .. q
    <3>1. ~(q \in 1 .. k - 1)
      BY <1>4, <2>1
    <3>. QED  BY <3>1
  <2>3. ps[j] \in Object /\ objs[i].at \in Nat /\ chunks \in Seq(Chunk) /\ ChunksOK(chunks)
    <3>1. ps[j] \in Object
      BY <1>4
    <3>2. chunks \in Seq(Chunk)
      BY ObstackTypes
    <3>3. ChunksOK(chunks)
      BY <1>2 DEF ObstackInv
    <3>. QED  BY <1>5, <3>1, <3>2, <3>3
  <2>4. q = k => ps[j].at + ps[j].len <= objs[i].at
    BY <1>4, <2>1
  <2>. QED  BY <2>1, <2>2, <2>3, <2>4, BelowStays
<1>8. PICK w : w = mem'
  OBVIOUS
<1>9. ASSUME NEW j \in 1 .. Len(ps), NEW a \in Inside(ps[j]) PROVE w[a] = mem[a]
  BY <1>6, <1>7, <1>8
<1>10. TextsOf(w, ps) = TextsOf(mem, ps)
  BY <1>4, <1>9, SameTexts
<1>11. TextsOf(mem, ps) = SubSeq(TextsOf(mem, objs), 1, i - 1)
  BY <1>4, <1>5, FewerTexts
<1>12. TextsOf(mem', objs') = SubSeq(TextsOf(mem, objs), 1, i - 1)
  BY <1>2, <1>8, <1>10, <1>11
<1>13. next' - base' = 0
  <2>1. PICK b \in Nat : b = next' /\ b = base'
    BY <1>5, <1>6
  <2>2. b - b = 0
    OBVIOUS
  <2>. QED  BY <2>1, <2>2
<1>14. TextIn(mem', base', next' - base') = <<>>
  BY <1>13, NoText
<1>. QED  BY <1>2, <1>6, <1>12, <1>14 DEF Stack!Free, Text, TextIn, TextsOf

LEMMA FreeAllIsFreeAll == ASSUME FreeAll PROVE Stack!FreeAll
<1>1. /\ state = "live" /\ state' = "none" /\ objs' = <<>> /\ base' = 0 /\ next' = 0 /\ failed' = FALSE
  BY DEF FreeAll
<1>2. next' - base' = 0
  BY <1>1
<1>3. TextIn(mem', base', next' - base') = <<>> /\ TextsOf(mem', objs') = <<>>
  BY <1>1, <1>2, NoText
<1>. QED  BY <1>1, <1>3 DEF Stack!FreeAll, Text, TextIn, TextsOf

LEMMA SameStack ==
  ASSUME UNCHANGED <<base, next, mem, objs>>
  PROVE  /\ TextIn(mem', base', next' - base') = TextIn(mem, base, next - base)
         /\ TextsOf(mem', objs') = TextsOf(mem, objs)
  OBVIOUS

LEMMA RefuseIsRefuse == ASSUME NEW n \in Lens, Refuse(n) PROVE Stack!Refuse
<1>1. state = "live" /\ state' = "live" /\ failed' = TRUE /\ UNCHANGED <<base, next, mem, objs>>
  BY DEF Refuse
<1>. QED  BY <1>1, SameStack DEF Stack!Refuse, Text, TextIn, TextsOf

LEMMA WritesToNullIsDie == ASSUME NEW n \in Lens, WritesToNull(n) PROVE Stack!Die
<1>1. state = "live" /\ state' = "dead" /\ failed' = TRUE /\ UNCHANGED <<base, next, mem, objs>>
  BY DEF WritesToNull, Die
<1>. QED  BY <1>1, SameStack DEF Stack!Die, Text, TextIn, TextsOf

LEMMA ObstackInitIsStack == ObstackInit => Stack!Init
<1> SUFFICES ASSUME ObstackInit PROVE Stack!Init
  OBVIOUS
<1>1. state = "none" /\ objs = <<>> /\ base = 0 /\ next = 0 /\ failed = FALSE
  BY DEF ObstackInit
<1>2. next - base = 0
  BY <1>1
<1>3. TextIn(mem, base, next - base) = <<>> /\ TextsOf(mem, objs) = <<>>
  BY <1>1, <1>2, NoText
<1>. QED  BY <1>1, <1>3 DEF Stack!Init, Text, TextIn, TextsOf

LEMMA ObstackNextIsStack ==
  ObstackInv /\ [ObstackNext]_obstackVars => [Stack!Next]_(Stack!vars)
<1> SUFFICES ASSUME ObstackInv, [ObstackNext]_obstackVars PROVE [Stack!Next]_(Stack!vars)
  OBVIOUS
<1>1. ASSUME Begin PROVE Stack!Next
  BY <1>1, BeginIsNew DEF Stack!Next
<1>2. ASSUME Finish PROVE Stack!Next
  BY <1>2, FinishIsFinish DEF Stack!Next
<1>3. ASSUME FinishRefused \/ UNCHANGED obstackVars PROVE UNCHANGED Stack!vars
  <2>1. UNCHANGED <<state, base, next, failed, mem, objs>>
    BY <1>3 DEF FinishRefused, obstackVars, h
  <2>. QED  BY <2>1 DEF Stack!vars, Text
<1>4. ASSUME FreeAll PROVE Stack!Next
  BY <1>4, FreeAllIsFreeAll DEF Stack!Next
<1>5. ASSUME NEW t \in Texts, Grow(t) \/ Alloc(t) PROVE Stack!Next
  BY <1>5, GrowIsGrow, AllocIsPush DEF Stack!Next
<1>6. ASSUME NEW n \in Lens, Calloc(n) PROVE Stack!Next
  <2>1. PICK t \in Texts : Alloc(t)
    BY <1>6, NulsAreText DEF Calloc
  <2>. QED  BY <2>1, AllocIsPush DEF Stack!Next
<1>7. ASSUME NEW n \in Lens, Refuse(n) \/ WritesToNull(n) PROVE Stack!Next
  BY <1>7, RefuseIsRefuse, WritesToNullIsDie DEF Stack!Next
<1>8. ASSUME NEW i \in DOMAIN objs, FreeFrom(i) \/ \E t \in Texts : Realloc(i, t) PROVE Stack!Next
  <2>1. i \in 1 .. Len(objs)
    BY ObstackTypes
  <2>2. FreeFrom(i) => Stack!Free(i)
    BY <2>1, FreeFromIsFree
  <2>3. \A t \in Texts : Realloc(i, t) => Stack!PushLonger(i, t)
    BY <2>1, ReallocIsPushLonger
  <2>4. i \in DOMAIN [j \in DOMAIN objs |-> Text(objs[j].at, objs[j].len)]
    OBVIOUS
  <2>. QED  BY <1>8, <2>2, <2>3, <2>4 DEF Stack!Next
<1>. QED  BY <1>1, <1>2, <1>3, <1>4, <1>5, <1>6, <1>7, <1>8 DEF ObstackNext

\* The obstack implements the stack of objects: every one keeps what was put
\* in it while others come, grow, move and are freed, and all of them can be.
THEOREM ObstackIsAStack == ObstackSpec => IsAStack
<1>1. ObstackInv /\ [ObstackNext]_obstackVars => ObstackInv'
  BY ObstackNextInv
<1>2. ObstackSpec => []ObstackInv
  BY <1>1, ObstackInitInv, PTL DEF ObstackSpec
<1>3. ObstackInv /\ [ObstackNext]_obstackVars => [Stack!Next]_(Stack!vars)
  BY ObstackNextIsStack
<1>. QED  BY <1>2, <1>3, ObstackInitIsStack, PTL DEF ObstackSpec, IsAStack, Stack!Spec
=============================================================================
