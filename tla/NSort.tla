-------------------------------- MODULE NSort --------------------------------
(***************************************************************************)
(* The two sorts of n_array_sorts.c that tuples are sorted with:           *)
(* trurl_qsort_voidp_arr and trurl_isort_voidp_arr.  They keep no state:   *)
(* each is an operator on an array, a function from 0 to items, which are  *)
(* told apart by their places in the array that was given.                 *)
(*                                                                         *)
(* An operator called Bug... is the operator defined after it with a       *)
(* mistake the code might have had.                                        *)
(***************************************************************************)
EXTENDS Integers, FiniteSets, FiniteSetsExt, Functions

\* cmpf
Cmp(x, y) == x.key - y.key

\* trurl_default_cmpf, for arrays made without a cmpf: the difference of two
\* pointers as an int, of which there are 2 * half.
DefaultCmpf(a, b, half) ==
  LET d == (a - b) % (2 * half) IN IF d < half THEN d ELSE d - 2 * half

Swap(arr, i, j) == [arr EXCEPT ![i] = arr[j], ![j] = arr[i]]

(***************************************************************************)
(* trurl_qsort_voidp_arr of the n items from lo on; arr[lo] is the pivot.  *)
(***************************************************************************)
\* j goes down to an item that belongs on the left, and i up to one that
\* belongs on the right, or to j.
Down(arr, lo, j)  == Max({k \in 0 .. j - 1 : k = 0 \/ Cmp(arr[lo + k], arr[lo]) <= 0})
Up(arr, lo, i, j) == Min({k \in i + 1 .. Max({i + 1, j}) : k >= j \/ Cmp(arr[lo + k], arr[lo]) >= 0})

\* Items are exchanged until i and j meet, and then the pivot with arr[j].
RECURSIVE Partition(_, _, _, _)
Partition(arr, lo, i, j) ==
  LET dn == Down(arr, lo, j)
      up == Up(arr, lo, i, dn)
  IN IF up >= dn THEN [arr |-> Swap(arr, lo + dn, lo), at |-> dn]
     ELSE Partition(Swap(arr, lo + up, lo + dn), lo, up, dn)

\* The function calls itself for the smaller part and goes on with the other;
\* depth is how deep the calls went.
BugFirst(ln, rn) == TRUE
First(ln, rn)    == ln < rn

RECURSIVE QSort(_, _, _)
QSort(arr, lo, n) ==
  IF n <= 1 THEN [arr |-> arr, depth |-> 0]
  ELSE LET p     == Partition(Swap(arr, lo, lo + n \div 2), lo, 0, n)
           left  == [lo |-> lo, n |-> p.at]
           right == [lo |-> lo + p.at + 1, n |-> n - p.at - 1]
           parts == IF First(left.n, right.n) THEN <<left, right>> ELSE <<right, left>>
           call  == QSort(p.arr, parts[1].lo, parts[1].n)
           rest  == QSort(call.arr, parts[2].lo, parts[2].n)
       IN [arr |-> rest.arr, depth |-> Max({call.depth + 1, rest.depth})]

(***************************************************************************)
(* trurl_isort_voidp_arr                                                   *)
(***************************************************************************)
\* Where the item at i belongs among the ones before it
BugPlace(arr, i) == Min({j \in 0 .. i : \A k \in j .. i - 1 : Cmp(arr[i], arr[k]) <= 0})
Place(arr, i)    == Min({j \in 0 .. i : \A k \in j .. i - 1 : Cmp(arr[i], arr[k]) < 0})

MovedTo(arr, j, i) ==
  [k \in DOMAIN arr |-> IF k = j THEN arr[i] ELSE IF k \in j + 1 .. i THEN arr[k - 1] ELSE arr[k]]

ISort(arr, n) ==
  LET sorted[i \in 1 .. n] ==
        IF i = 1 THEN arr
        ELSE MovedTo(sorted[i - 1], Place(sorted[i - 1], i - 1), i - 1)
  IN IF n = 0 THEN arr ELSE sorted[n]

-----------------------------------------------------------------------------
(***************************************************************************)
(* What the sorts promise of the array of n items with these keys          *)
(***************************************************************************)
ArrayOf(keys) == [i \in DOMAIN keys |-> [key |-> keys[i], place |-> i]]

InOrder(arr)     == \A i, j \in DOMAIN arr : i < j => Cmp(arr[i], arr[j]) <= 0
SameItems(a, b)  == DOMAIN a = DOMAIN b /\ Range(a) = Range(b)
Stable(arr)      ==
  \A i, j \in DOMAIN arr : i < j /\ Cmp(arr[i], arr[j]) = 0 => arr[i].place < arr[j].place

\* Pointers that are less than half of the ints apart are ordered as pointers.
\* (Others are not: two that are as far apart as there are ints are the same.)
DefaultOrders(n, half) ==
  \A a, b \in 0 .. n :
    a - b \in 1 - half .. half - 1 =>
      /\ DefaultCmpf(a, b, half) < 0 <=> a < b
      /\ DefaultCmpf(a, b, half) = 0 <=> a = b

\* Each sort leaves the items it was given, in order; the insertion sort does
\* not exchange items that compare equal, and the calls of the quicksort are
\* no deeper than the logarithm of the number of items.
SortsKeep(keys) ==
  LET n == Cardinality(DOMAIN keys)
      a == ArrayOf(keys)
      q == QSort(a, 0, n)
      s == ISort(a, n)
  IN /\ SameItems(q.arr, a) /\ InOrder(q.arr) /\ (n > 0 => 2 ^ q.depth <= n)
     /\ SameItems(s, a) /\ InOrder(s) /\ Stable(s)
=============================================================================
