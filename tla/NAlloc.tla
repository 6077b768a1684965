------------------------------- MODULE NAlloc -------------------------------
(***************************************************************************)
(* nmalloc.c, n_obj_ref.h and ntuple.c: an allocator that its users share  *)
(* by counting references, the table of the strings it was asked for,      *)
(* which holds a reference itself, and a tuple in its memory.              *)
(*                                                                         *)
(* An operator called Bug... is the operator defined after it with a       *)
(* mistake the code might have had; no action uses it.                     *)
(***************************************************************************)
EXTENDS Integers, Sequences, FiniteSets

CONSTANTS
  Users,         \* who may hold a reference: callers, tables made with it
  Strings,       \* the strings asked for
  LenOf,         \* their lengths
  Requests,      \* <<string, width>>: what is asked for, with a length
                 \* of 8 or of 16 bits
  Mod8, Mod16,   \* 2^8 and 2^16
  Items,         \* the pointers in tuples, numbers in the order of cmpf
  KeyOf,         \* what cmpf compares of an item
  MaxRefs,       \* bound: the references to a tuple
  MaxTuple       \* bound: the length of a tuple

ASSUME AllocAssumption ==
  /\ IsFiniteSet(Users)
  /\ Mod8 \in Nat /\ Mod16 \in Nat /\ Mod8 < Mod16
  /\ LenOf \in [Strings -> Nat] /\ Requests \subseteq Strings \X {8, 16}
  /\ Items \subseteq Nat /\ KeyOf \in [Items -> Nat]
  /\ MaxRefs \in Nat /\ MaxTuple \in Nat

VARIABLES
  life,              \* of the allocator: "none", "live"; "dead": an assertion
  kind,              \* TN_ALLOC_MALLOC or TN_ALLOC_OBSTACK
  refcnt,            \* _refcnt: the references but one
  held,              \* who has one
  ht,                \* there is a table of strings
  strs,              \* what is stored of each string in it
  got,               \* the answer of na_alloc_str8 or 16
  tuple, trefs,      \* the items of the tuple, its references; -1: freed
  pc, l, r, key, idx \* the loops of n_tuple_bsearch_idx_ex

arena  == <<life, kind, refcnt, held, ht, strs, got>>
search == <<pc, l, r, key, idx>>
vars   == <<arena, tuple, trefs, search>>

Nothing == [width |-> 0, len |-> 0]
Stored  == [width : {8, 16}, len : Nat]
NoStrs  == [s \in {} |-> Nothing]
Modulus(width) == IF width = 8 THEN Mod8 ELSE Mod16

TypeOK ==
  /\ life \in {"none", "live", "dead"} /\ kind \in {"malloc", "obstack"}
  /\ refcnt \in 0 .. Mod16 - 1 /\ held \subseteq Users /\ ht \in BOOLEAN
  /\ DOMAIN strs \subseteq Strings /\ \A s \in DOMAIN strs : strs[s] \in Stored
  /\ (got # <<>> => got \in Strings \X Stored \X {8, 16})
  /\ tuple \in Seq(Items) /\ trefs \in -1 .. MaxRefs
  /\ pc \in {"idle", "halve", "back"} /\ l \in Nat /\ r \in Nat /\ key \in Nat /\ idx \in Int

Init ==
  /\ life = "none" /\ kind = "malloc" /\ refcnt = 0 /\ held = {}
  /\ ht = FALSE /\ strs = NoStrs /\ got = <<>>
  /\ tuple = <<>> /\ trefs = -1
  /\ pc = "idle" /\ l = 0 /\ r = 0 /\ key = 0 /\ idx = -1

(***************************************************************************)
(* n_alloc_new, n_ref, n_alloc_free                                        *)
(***************************************************************************)
New(u, k) ==
  /\ life = "none" /\ life' = "live" /\ kind' = k
  /\ refcnt' = 0 /\ held' = {u}
  /\ ht' = FALSE /\ strs' = NoStrs /\ got' = <<>>
  /\ UNCHANGED <<tuple, trefs, search>>

\* The assertion of n_ref, which keeps a count of 16 bits
BugCanRef == TRUE
CanRef    == refcnt < Mod16 - 2

Ref(u, v) ==
  /\ life = "live" /\ u \in held /\ v \notin held
  /\ IF CanRef THEN refcnt' = refcnt + 1 /\ held' = held \cup {v} /\ UNCHANGED life
               ELSE life' = "dead" /\ UNCHANGED <<refcnt, held>>
  /\ UNCHANGED <<kind, ht, strs, got, tuple, trefs, search>>

\* With nobody else left the table of strings is freed first, and gives up
\* its own reference.
BugTableIsLast == FALSE
TableIsLast    == refcnt = 1 /\ ht

Free(u) ==
  /\ life = "live" /\ u \in held /\ held' = held \ {u}
  /\ LET left == IF TableIsLast THEN refcnt - 1 ELSE refcnt
     IN  IF left > 0
         THEN refcnt' = left - 1 /\ UNCHANGED <<life, ht, strs>>
         ELSE refcnt' = 0 /\ life' = "none" /\ ht' = FALSE /\ strs' = NoStrs
  \* A caller frees what it has in the allocator before.
  /\ life' = "none" => trefs = -1
  /\ UNCHANGED <<kind, got, tuple, trefs, search>>

(***************************************************************************)
(* na_alloc_str8, na_alloc_str16 of an obstack: a string is stored once.   *)
(***************************************************************************)
Len8or16(s, width) == LenOf[s] % Modulus(width)

\* Its assertions on the length, the tighter one of n_oash_put on that of a
\* key, and n_ref's for a table made with na
CanStore(s) == LenOf[s] \in 1 .. Mod16 - 2 /\ (ht \/ CanRef)

AllocStr(u, s, width) ==
  /\ life = "live" /\ kind = "obstack" /\ u \in held /\ <<s, width>> \in Requests
  /\ IF CanStore(s)
     THEN /\ ht' = TRUE
          /\ refcnt' = IF ht THEN refcnt ELSE refcnt + 1
          /\ strs' = IF s \in DOMAIN strs THEN strs
                     ELSE [t \in DOMAIN strs \cup {s} |->
                             IF t = s THEN [width |-> width, len |-> Len8or16(s, width)]
                                      ELSE strs[t]]
          /\ got' = <<s, strs'[s], width>>
          /\ UNCHANGED life
     ELSE life' = "dead" /\ UNCHANGED <<ht, refcnt, strs, got>>
  /\ UNCHANGED <<kind, held, tuple, trefs, search>>

(***************************************************************************)
(* n_tuple_new, n_tuple_new_fromarray, n_ref, n_tuple_free; set_nth, sort  *)
(***************************************************************************)
HasTuple == life = "live" /\ trefs >= 0 /\ pc = "idle"

TupleNew(t) ==
  /\ life = "live" /\ trefs = -1
  /\ IF Len(t) < Mod16 - 1
     THEN tuple' = t /\ trefs' = 0 /\ UNCHANGED life
     ELSE life' = "dead" /\ UNCHANGED <<tuple, trefs>>
  /\ UNCHANGED <<kind, refcnt, held, ht, strs, got, search>>

TupleRef ==
  /\ HasTuple /\ trefs < MaxRefs /\ trefs' = trefs + 1
  /\ UNCHANGED <<arena, tuple, search>>

TupleFree ==
  /\ HasTuple /\ trefs' = trefs - 1
  /\ UNCHANGED <<arena, tuple, search>>

SetNth(i, x) ==
  /\ HasTuple
  /\ IF i \in 0 .. Len(tuple) - 1
     THEN tuple' = [tuple EXCEPT ![i + 1] = x] /\ UNCHANGED life
     ELSE life' = "dead" /\ UNCHANGED tuple
  /\ UNCHANGED <<kind, refcnt, held, ht, strs, got, trefs, search>>

Sorted(t) == \A i, j \in DOMAIN t : i < j => KeyOf[t[i]] <= KeyOf[t[j]]
CountIn(t, x) == Cardinality({i \in DOMAIN t : t[i] = x})

\* The sort functions are those of arrays: the items, in the order of cmpf.
Sort ==
  /\ HasTuple
  /\ tuple' \in {t \in [DOMAIN tuple -> Items] :
                   Sorted(t) /\ \A x \in Items : CountIn(t, x) = CountIn(tuple, x)}
  /\ UNCHANGED <<arena, trefs, search>>

(***************************************************************************)
(* n_tuple_bsearch_idx_ex of a sorted tuple                                *)
(***************************************************************************)
\* arr[i]
Nth(i) == KeyOf[tuple[i + 1]]

\* A tuple of one item is not searched.
Bsearch(k) ==
  /\ HasTuple /\ Sorted(tuple) /\ key' = k
  /\ IF Len(tuple) > 1
     THEN l' = 0 /\ r' = Len(tuple) /\ idx' = -1 /\ pc' = "halve"
     ELSE /\ idx' = IF Len(tuple) = 1 /\ Nth(0) = k THEN 0 ELSE -1
          /\ UNCHANGED <<l, r, pc>>
  /\ UNCHANGED <<arena, tuple, trefs>>

Middle == (l + r) \div 2

AfterMiddle    == Middle + 1

Halve ==
  /\ pc = "halve" /\ l < r
  /\ \/ Nth(Middle) = key /\ idx' = Middle /\ pc' = "back" /\ UNCHANGED <<l, r>>
     \/ Nth(Middle) > key /\ r' = Middle /\ UNCHANGED <<l, idx, pc>>
     \/ Nth(Middle) < key /\ l' = AfterMiddle /\ UNCHANGED <<r, idx, pc>>
  /\ UNCHANGED <<arena, tuple, trefs, key>>

NotFound == pc = "halve" /\ l >= r /\ pc' = "idle" /\ UNCHANGED <<arena, tuple, trefs, l, r, key, idx>>

\* Back to the first of the items that are the same.
BugGoesBack == FALSE
GoesBack    == idx > 0 /\ Nth(idx - 1) = key

Back ==
  /\ pc = "back"
  /\ IF GoesBack THEN idx' = idx - 1 /\ UNCHANGED pc ELSE pc' = "idle" /\ UNCHANGED idx
  /\ UNCHANGED <<arena, tuple, trefs, l, r, key>>

(***************************************************************************)
Tuples == UNION {[1 .. n -> Items] : n \in 0 .. MaxTuple}
Loops  == Halve \/ NotFound \/ Back

Next ==
  \/ \E u \in Users : Free(u) \/ (\E k \in {"malloc", "obstack"} : New(u, k)) \/ \E v \in Users : Ref(u, v)
  \/ \E u \in Users, q \in Requests : AllocStr(u, q[1], q[2])
  \/ \E t \in Tuples : TupleNew(t)
  \/ TupleRef \/ TupleFree \/ Sort
  \/ \E i \in -1 .. MaxTuple, x \in Items : SetNth(i, x)
  \/ \E x \in Items : Bsearch(KeyOf[x])
  \/ Loops

Spec == Init /\ [][Next]_vars

(***************************************************************************)
(* What is checked                                                         *)
(***************************************************************************)
\* The allocator lives as long as a user holds it, and no longer: its count
\* is that of the users' references and the one of its own table.
References == Cardinality(held) + (IF ht THEN 1 ELSE 0)

LivesWhileHeld ==
  /\ life = "live" => References = refcnt + 1 /\ held # {}
  /\ life = "none" => held = {} /\ ~ht

\* Whoever asks for a string gets that string, with its length, at the width
\* asked for.
StringsRight == got # <<>> => got[2] = [width |-> got[3], len |-> LenOf[got[1]]]

\* What its users avoid: to ask for a string at a width it does not fit, or
\* for one string at both.
OneWidth ==
  \A q \in Requests :
    /\ LenOf[q[1]] < Modulus(q[2])
    /\ \A p \in Requests : p[1] = q[1] => p = q

\* Sharing an allocator makes no difference to its users.
SharedWell == LivesWhileHeld /\ StringsRight

\* "if there are more than one the same items, always returns first
\* position; If item not found returns -1"
FirstOfEquals ==
  [][Loops /\ pc' = "idle" =>
       /\ idx' = -1 => \A i \in DOMAIN tuple : KeyOf[tuple[i]] # key
       /\ idx' # -1 => /\ Nth(idx') = key
                       /\ \A i \in 0 .. idx' - 1 : Nth(i) # key]_vars
=============================================================================
