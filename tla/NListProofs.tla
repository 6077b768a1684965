---------------------------- MODULE NListProofs ----------------------------
(***************************************************************************)
(* What is proved of NList, for any number of nodes, data and positions.   *)
(***************************************************************************)
EXTENDS NList, FiniteSetTheorems, SequenceTheorems, WellFoundedInduction, TLAPS

-----------------------------------------------------------------------------
(***************************************************************************)
(* Chains of nodes: q is the chain that starts at h, when nx are the links *)
(* and lv the nodes that are allocated.                                    *)
(***************************************************************************)
First(q)    == IF Len(q) = 0 THEN NULL ELSE q[1]
After(q, i) == IF i = Len(q) THEN NULL ELSE q[i + 1]

Links(q, h, nx, lv) ==
  /\ q \in Seq(Nodes)
  /\ h = First(q)
  /\ \A i \in 1 .. Len(q) : q[i] \in lv /\ nx[q[i]] = After(q, i)
  /\ \A i, j \in 1 .. Len(q) : q[i] = q[j] => i = j

\* Chain and From, of any links.
ChainOf(n, nx, lv) ==
  LET walk[i \in 0 .. Cardinality(Nodes)] ==
        IF i = 0 THEN n ELSE IF walk[i - 1] \in lv THEN nx[walk[i - 1]] ELSE NULL
  IN  walk
NodesOf(walk) ==
  LET len == Cardinality({i \in DOMAIN walk : walk[i] # NULL})
  IN  [i \in 1 .. len |-> walk[i - 1]]

\* The least-number principle.
LEMMA LeastElement ==
  ASSUME NEW T \in SUBSET Nat, T # {}
  PROVE  \E n \in T : \A m \in T : n <= m
<1>. DEFINE R == {ss \in Nat \X Nat : ss[1] < ss[2]}
<1>1. R = OpToRel(<, Nat)
  BY DEF OpToRel
<1>2. IsWellFoundedOn(R, Nat)
  BY <1>1, NatLessThanWellFounded
<1>3. PICK x \in T : \A y \in T : <<y, x>> \notin R
  <2>. HIDE DEF R
  <2>. QED  BY <1>2, WFMin
<1>4. ASSUME NEW y \in T PROVE x <= y
  <2>1. <<y, x>> \in Nat \X Nat
    OBVIOUS
  <2>2. ~(y < x)
    BY <1>3, <2>1
  <2>. QED  BY <2>2
<1>. QED  BY <1>4

LEMMA Counted ==
  ASSUME NEW n \in Nat
  PROVE  Cardinality(1 .. n) = n /\ Cardinality(0 .. n - 1) = n
<1>1. Cardinality(1 .. n) = IF 1 <= n THEN n - 1 + 1 ELSE 0
  BY FS_Interval
<1>2. Cardinality(0 .. n - 1) = IF 0 <= n - 1 THEN (n - 1) - 0 + 1 ELSE 0
  BY FS_Interval
<1>. QED  BY <1>1, <1>2

\* No chain is longer than there are nodes.
LEMMA ChainFits ==
  ASSUME NEW q, NEW n, NEW nx, NEW lv, Links(q, n, nx, lv)
  PROVE  Len(q) \in Nat /\ Cardinality(Nodes) \in Nat /\ Len(q) <= Cardinality(Nodes)
<1>1. q \in Seq(Nodes) /\ Len(q) \in Nat /\ \A i \in 1 .. Len(q) : q[i] \in Nodes
  BY DEF Links
<1>2. IsFiniteSet(Nodes) /\ Cardinality(Nodes) \in Nat
  BY NodesAssumption, FS_CardinalityType
<1>3. q \in Injection(1 .. Len(q), Nodes)
  BY <1>1 DEF Links, Injection, IsInjective
<1>4. Cardinality(1 .. Len(q)) <= Cardinality(Nodes)
  BY <1>2, <1>3, FS_Injection
<1>5. Cardinality(1 .. Len(q)) = Len(q)
  BY <1>1, Counted
<1>. QED  BY <1>1, <1>2, <1>4, <1>5

\* A walk over the links finds the nodes of the chain, and NULL after them.
LEMMA ChainFound ==
  ASSUME NEW q, NEW n, NEW nx, NEW lv \in SUBSET Nodes, Links(q, n, nx, lv)
  PROVE  ChainOf(n, nx, lv) =
           [i \in 0 .. Cardinality(Nodes) |-> IF i < Len(q) THEN q[i + 1] ELSE NULL]
<1>. DEFINE C == 0 .. Cardinality(Nodes)
            W == [i \in C |-> IF i < Len(q) THEN q[i + 1] ELSE NULL]
            Step_(w, i) == IF i = 0 THEN n ELSE IF w[i - 1] \in lv THEN nx[w[i - 1]] ELSE NULL
<1>1. /\ q \in Seq(Nodes) /\ Len(q) \in Nat /\ Cardinality(Nodes) \in Nat
      /\ NULL \notin lv
  BY ChainFits, NodesAssumption DEF Links
<1>2. ASSUME NEW i \in C PROVE W[i] = Step_(W, i)
  <2>1. CASE i = 0
    BY <1>1, <2>1 DEF Links, First
  <2>2. CASE i # 0 /\ i - 1 < Len(q)
    <3>1. i \in 1 .. Len(q) /\ i - 1 \in C /\ W[i - 1] = q[i]
      BY <1>1, <2>2
    <3>2. q[i] \in lv /\ nx[q[i]] = After(q, i)
      BY <3>1 DEF Links
    <3>. QED  BY <1>1, <2>2, <3>1, <3>2 DEF After
  <2>3. CASE i # 0 /\ ~(i - 1 < Len(q))
    <3>1. i - 1 \in C /\ W[i - 1] = NULL /\ W[i] = NULL
      BY <1>1, <2>3
    <3>. QED  BY <1>1, <2>3, <3>1
  <2>. QED  BY <2>1, <2>2, <2>3
<1>3. W = [i \in C |-> Step_(W, i)]
  BY <1>2
<1>4. ASSUME NEW w, w = [i \in C |-> Step_(w, i)] PROVE w = W
  <2>. DEFINE T == {i \in C : w[i] # W[i]}
  <2>1. SUFFICES ASSUME T # {} PROVE FALSE
    <3>1. DOMAIN w = C
      BY <1>4
    <3>2. w = [i \in C |-> w[i]]
      BY <1>4, <3>1
    <3>. QED  BY <2>1, <3>2
  <2>2. PICK i \in T : \A j \in T : i <= j
    <3>1. T \in SUBSET Nat
      BY <1>1
    <3>. HIDE DEF T
    <3>. QED  BY <2>1, <3>1, LeastElement
  <2>3. i \in C /\ w[i] # W[i] /\ w[i] = Step_(w, i) /\ W[i] = Step_(W, i)
    BY <1>2, <1>4, <2>2
  <2>4. i # 0
    BY <2>3
  <2>5. w[i - 1] = W[i - 1]
    <3>1. i - 1 \in C /\ i - 1 < i
      BY <1>1, <2>3, <2>4
    <3>. QED  BY <2>2, <3>1
  <2>. QED  BY <2>3, <2>4, <2>5
<1>5. ChainOf(n, nx, lv) = CHOOSE w : w = [i \in C |-> Step_(w, i)]
  BY DEF ChainOf
<1>. HIDE DEF W, Step_
<1>6. ChainOf(n, nx, lv) = W
  BY <1>3, <1>4, <1>5
<1>. QED  BY <1>6 DEF W

LEMMA NodesFound ==
  ASSUME NEW q, NEW n, NEW nx, NEW lv \in SUBSET Nodes, Links(q, n, nx, lv)
  PROVE  NodesOf(ChainOf(n, nx, lv)) = q
<1>. DEFINE W == [i \in 0 .. Cardinality(Nodes) |-> IF i < Len(q) THEN q[i + 1] ELSE NULL]
<1>1. /\ q \in Seq(Nodes) /\ Len(q) \in Nat /\ Cardinality(Nodes) \in Nat
      /\ Len(q) <= Cardinality(Nodes) /\ q = [i \in 1 .. Len(q) |-> q[i]]
      /\ \A i \in 1 .. Len(q) : q[i] # NULL
  <2>1. Len(q) \in Nat /\ Cardinality(Nodes) \in Nat /\ Len(q) <= Cardinality(Nodes)
    BY ChainFits
  <2>2. q \in Seq(Nodes)
    BY DEF Links
  <2>. QED  BY <2>1, <2>2, NodesAssumption
<1>2. {i \in DOMAIN W : W[i] # NULL} = 0 .. Len(q) - 1
  BY <1>1
<1>3. Cardinality(0 .. Len(q) - 1) = Len(q)
  BY <1>1, Counted
<1>4. NodesOf(W) = [i \in 1 .. Len(q) |-> W[i - 1]]
  BY <1>2, <1>3 DEF NodesOf
<1>5. \A i \in 1 .. Len(q) : W[i - 1] = q[i]
  BY <1>1
<1>6. NodesOf(W) = q
  <2>. HIDE DEF W
  <2>. QED  BY <1>1, <1>4, <1>5
<1>7. ChainOf(n, nx, lv) = W
  BY ChainFound
<1>. HIDE DEF W
<1>. QED  BY <1>6, <1>7

\* What follows the first k nodes.
Rest(q, k) == [j \in 1 .. Len(q) - k |-> q[j + k]]

LEMMA RestLinks ==
  ASSUME NEW q, NEW n, NEW nx, NEW lv, Links(q, n, nx, lv), NEW k \in 0 .. Len(q)
  PROVE  Links(Rest(q, k), IF k = Len(q) THEN NULL ELSE q[k + 1], nx, lv)
<1>1. q \in Seq(Nodes) /\ Len(q) \in Nat
  BY DEF Links
<1>2. Rest(q, k) \in Seq(Nodes) /\ Len(Rest(q, k)) = Len(q) - k
  <2>1. Len(q) - k \in Nat /\ \A j \in 1 .. Len(q) - k : q[j + k] \in Nodes
    BY <1>1
  <2>. QED  BY <2>1 DEF Rest
<1>3. \A j \in 1 .. Len(q) - k : Rest(q, k)[j] = q[j + k] /\ j + k \in 1 .. Len(q)
  BY <1>1 DEF Rest
<1>4. (IF k = Len(q) THEN NULL ELSE q[k + 1]) = First(Rest(q, k))
  BY <1>1, <1>2, <1>3 DEF First
<1>5. ASSUME NEW i \in 1 .. Len(Rest(q, k))
      PROVE  Rest(q, k)[i] \in lv /\ nx[Rest(q, k)[i]] = After(Rest(q, k), i)
  <2>1. q[i + k] \in lv /\ nx[q[i + k]] = After(q, i + k)
    BY <1>2, <1>3 DEF Links
  <2>2. After(q, i + k) = After(Rest(q, k), i)
    <3>1. CASE i = Len(q) - k
      BY <1>1, <1>2, <3>1 DEF After
    <3>2. CASE i # Len(q) - k
      <4>1. i + 1 \in 1 .. Len(q) - k /\ i + k # Len(q) /\ (i + 1) + k = i + k + 1
        BY <1>1, <1>2, <3>2
      <4>2. Rest(q, k)[i + 1] = q[(i + 1) + k]
        BY <1>3, <4>1
      <4>. QED  BY <1>2, <3>2, <4>1, <4>2 DEF After
    <3>. QED  BY <3>1, <3>2
  <2>. QED  BY <1>2, <1>3, <2>1, <2>2
<1>6. ASSUME NEW i \in 1 .. Len(Rest(q, k)), NEW j \in 1 .. Len(Rest(q, k)),
             Rest(q, k)[i] = Rest(q, k)[j]
      PROVE  i = j
  <2>1. i + k \in 1 .. Len(q) /\ j + k \in 1 .. Len(q) /\ q[i + k] = q[j + k]
    BY <1>2, <1>3, <1>6
  <2>2. i + k = j + k
    BY <2>1 DEF Links
  <2>. QED  BY <1>1, <1>2, <2>2
<1>. QED  BY <1>2, <1>4, <1>5, <1>6 DEF Links

-----------------------------------------------------------------------------
(***************************************************************************)
(* Subsequences                                                            *)
(***************************************************************************)
\* Positions have different ranks, and there is one for each rank.
LEMMA Ranks ==
  ASSUME NEW I \in SUBSET Nat, IsFiniteSet(I)
  PROVE  /\ Cardinality(I) \in Nat
         /\ \A i \in I : RankIn(I, i) \in 1 .. Cardinality(I)
         /\ \A i, j \in I : RankIn(I, i) = RankIn(I, j) => i = j
         /\ \A r \in 1 .. Cardinality(I) : \E i \in I : RankIn(I, i) = r
<1>. DEFINE Upto(i) == {j \in I : j <= i}
            n == Cardinality(I)
<1>1. n \in Nat
  BY FS_CardinalityType
<1>2. ASSUME NEW i \in I PROVE IsFiniteSet(Upto(i)) /\ RankIn(I, i) = Cardinality(Upto(i))
                               /\ RankIn(I, i) \in 1 .. n
  <2>1. IsFiniteSet(Upto(i)) /\ Cardinality(Upto(i)) <= n
    BY FS_Subset
  <2>2. Cardinality(Upto(i)) \in Nat /\ Cardinality(Upto(i)) # 0
    <3>1. i \in Upto(i)
      OBVIOUS
    <3>. QED  BY <2>1, <3>1, FS_EmptySet, FS_CardinalityType
  <2>. QED  BY <1>1, <2>1, <2>2 DEF RankIn
<1>3. ASSUME NEW i \in I, NEW j \in I, i < j PROVE RankIn(I, i) # RankIn(I, j)
  <2>1. \A k \in Nat : k <= i => k <= j
    BY <1>3
  <2>2. ~(j <= i) /\ j <= j
    BY <1>3
  <2>3. Upto(i) \in SUBSET Upto(j) /\ j \in Upto(j) /\ j \notin Upto(i)
    BY <2>1, <2>2
  <2>4. Cardinality(Upto(i)) # Cardinality(Upto(j))
    <3>1. Cardinality(Upto(j)) = Cardinality(Upto(i)) => Upto(j) = Upto(i)
      <4>. HIDE DEF Upto
      <4>. QED  BY <1>2, <2>3, FS_Subset
    <3>. QED  BY <2>3, <3>1
  <2>. QED  BY <1>2, <2>4
<1>4. \A i, j \in I : RankIn(I, i) = RankIn(I, j) => i = j
  <2>1. \A i, j \in I : i < j \/ j < i \/ i = j
    OBVIOUS
  <2>. QED  BY <1>3, <2>1
<1>. DEFINE f == [i \in I |-> RankIn(I, i)]
<1>5. f \in Injection(I, 1 .. n)
  BY <1>2, <1>4 DEF Injection, IsInjective
<1>6. IsFiniteSet(1 .. n) /\ Cardinality(1 .. n) = n
  BY <1>1, FS_Interval, Counted
<1>7. f \in Surjection(I, 1 .. n)
  <2>. HIDE DEF f
  <2>. QED  BY <1>5, <1>6, FS_Injection
<1>8. ASSUME NEW r \in 1 .. n PROVE \E i \in I : RankIn(I, i) = r
  BY <1>7 DEF Surjection
<1>. QED  BY <1>1, <1>2, <1>4, <1>8

\* The same items, when the positions are numbered otherwise in the same order.
LEMMA Renumbered ==
  ASSUME NEW I \in SUBSET Nat, IsFiniteSet(I), NEW J \in SUBSET Nat,
         NEW u \in [J -> I], \A i \in I : \E j \in J : u[j] = i,
         \A i, j \in J : i <= j <=> u[i] <= u[j],
         NEW s, NEW t, \A j \in J : t[j] = s[u[j]]
  PROVE  Only(t, J) = Only(s, I) /\ Cardinality(J) = Cardinality(I)
<1>1. \A i, j \in J : u[i] = u[j] => i = j
  <2>1. SUFFICES ASSUME NEW i \in J, NEW j \in J, u[i] = u[j] PROVE i = j
    OBVIOUS
  <2>2. i <= j /\ j <= i
    BY <2>1
  <2>. QED  BY <2>2
<1>2. u \in Bijection(J, I) /\ u \in Injection(J, I) /\ u \in Surjection(J, I)
  BY <1>1 DEF Bijection, Injection, Surjection, IsInjective
<1>3. IsFiniteSet(J) /\ Cardinality(J) = Cardinality(I)
  BY <1>2, FS_Injection
<1>4. ASSUME NEW j \in J PROVE RankIn(J, j) = RankIn(I, u[j])
  <2>. DEFINE A == {i \in J : i <= j}
              B == {i \in I : i <= u[j]}
              g == [i \in A |-> u[i]]
  <2>1. g \in [A -> B]
    OBVIOUS
  <2>2. \A b \in B : \E a \in A : g[a] = b
    OBVIOUS
  <2>3. g \in Injection(A, B) /\ g \in Surjection(A, B)
    BY <1>1, <2>1, <2>2 DEF Injection, Surjection, IsInjective
  <2>4. IsFiniteSet(B)
    BY FS_Subset
  <2>5. Cardinality(A) = Cardinality(B)
    <3>. HIDE DEF A, B, g
    <3>. QED  BY <2>3, <2>4, FS_Injection
  <2>. QED  BY <2>5 DEF RankIn
<1>5. ASSUME NEW r \in 1 .. Cardinality(I)
      PROVE  t[CHOOSE j \in J : RankIn(J, j) = r] = s[CHOOSE i \in I : RankIn(I, i) = r]
  <2>. DEFINE j == CHOOSE j \in J : RankIn(J, j) = r
              i == CHOOSE i \in I : RankIn(I, i) = r
  <2>1. j \in J /\ RankIn(J, j) = r
    <3>1. \E k \in J : RankIn(J, k) = r
      BY <1>3, Ranks
    <3>. QED  BY <3>1
  <2>2. i \in I /\ RankIn(I, i) = r
    <3>1. \E k \in I : RankIn(I, k) = r
      BY Ranks
    <3>. QED  BY <3>1
  <2>. HIDE DEF i, j
  <2>3. RankIn(I, u[j]) = r /\ u[j] \in I
    BY <1>4, <2>1
  <2>4. u[j] = i
    <3>1. \A k, l \in I : RankIn(I, k) = RankIn(I, l) => k = l
      BY Ranks
    <3>. QED  BY <2>2, <2>3, <3>1
  <2>5. t[j] = s[i]
    BY <2>1, <2>4
  <2>. QED  BY <2>5 DEF i, j
<1>. QED  BY <1>3, <1>5 DEF Only

\* All of them.
LEMMA OnlyAll ==
  ASSUME NEW S, NEW s \in Seq(S)
  PROVE  Only(s, DOMAIN s) = s /\ Only(s, 1 .. Len(s)) = s
<1>. DEFINE n == Len(s)
<1>1. n \in Nat /\ DOMAIN s = 1 .. n /\ s = [r \in 1 .. n |-> s[r]]
  OBVIOUS
<1>2. Cardinality(1 .. n) = n
  BY <1>1, Counted
<1>3. ASSUME NEW i \in 1 .. n PROVE RankIn(1 .. n, i) = i
  <2>1. {j \in 1 .. n : j <= i} = 1 .. i /\ i \in Nat
    BY <1>1
  <2>. QED  BY <2>1, Counted DEF RankIn
<1>4. ASSUME NEW r \in 1 .. n PROVE (CHOOSE i \in 1 .. n : RankIn(1 .. n, i) = r) = r
  <2>1. \E i \in 1 .. n : RankIn(1 .. n, i) = r
    BY <1>3
  <2>. QED  BY <1>3, <2>1
<1>5. ASSUME NEW r \in 1 .. n PROVE s[CHOOSE i \in 1 .. n : RankIn(1 .. n, i) = r] = s[r]
  BY <1>4
<1>. HIDE DEF n
<1>6. Only(s, 1 .. n) = [r \in 1 .. n |-> s[r]]
  BY <1>2, <1>5 DEF Only
<1>. QED  BY <1>1, <1>6 DEF n

-----------------------------------------------------------------------------
(***************************************************************************)
(* The invariant                                                           *)
(***************************************************************************)
\* Every allocated node is on the chain q from head to tail.
Chained(q) ==
  /\ Links(q, head, next, live)
  /\ \A c \in live : \E i \in 1 .. Len(q) : c = q[i]
  /\ size = Len(q)
  /\ Len(q) # 0 => tail = q[Len(q)]

\* How far the second loop of n_list_remove_ex has come.
Cursors(q) ==
  pc = "rest" =>
    \E i \in 1 .. Len(q) :
      /\ prev = q[i] /\ node = After(q, i)
      /\ \A j \in 1 .. i : KeyOf[data[q[j]]] # key

\* How far the iterator has.
Ahead(q) ==
  it # NULL =>
    \E i \in 1 .. Len(q) :
      it = q[i] /\ {data[q[j]] : j \in i .. Len(q)} = due \ seen

\* Nodes and data belong to each other.
Owned ==
  /\ \A c \in live : data[c] \in Data /\ owner[data[c]] = "list"
  /\ \A c, e \in live : data[c] = data[e] => c = e
  /\ \A d \in Data : owner[d] = "list" => \E c \in live : data[c] = d
  /\ \A d \in seen : owner[d] = "list"
  /\ uniq => \A c, e \in live : KeyOf[data[c]] = KeyOf[data[e]] => c = e

\* What n_list_remove_ex has done so far, and what its caller sees to.
Calling ==
  /\ pc = "none" => head = NULL
  /\ pc \in {"first", "rest"} => key \in Keys /\ (it # NULL => KeyOf[data[it]] # key)
  /\ pc = "first" /\ uniq /\ removed > 0 => \A c \in live : KeyOf[data[c]] # key
  /\ pc = "rest" /\ uniq => removed = 0

IndInv ==
  /\ TypeOK /\ NoFault /\ Owned /\ Calling
  /\ \E q \in Seq(Nodes) : Chained(q) /\ Cursors(q) /\ Ahead(q)

\* List and Items, of a chain.
LEMMA ListFound ==
  ASSUME TypeOK, NEW q, Chained(q)
  PROVE  /\ List = q /\ Len(q) \in Nat /\ Len(q) = size /\ q \in Seq(Nodes)
         /\ Items = [i \in 1 .. Len(q) |-> data[q[i]]]
         /\ Range(List) = live
<1>1. Links(q, head, next, live) /\ live \in SUBSET Nodes
  BY DEF Chained, TypeOK
<1>2. List = NodesOf(ChainOf(head, next, live))
  BY DEF List, From, Chain, NodesOf, ChainOf
<1>3. List = q
  BY <1>1, <1>2, NodesFound
<1>4. q \in Seq(Nodes) /\ Len(q) \in Nat /\ DOMAIN q = 1 .. Len(q)
  BY <1>1 DEF Links
<1>5. Range(q) = live
  BY <1>1, <1>4 DEF Range, Links, Chained
<1>. QED  BY <1>3, <1>4, <1>5 DEF Items, Chained

LEMMA ItemsAfter ==
  ASSUME live' \subseteq Nodes, NEW q, Chained(q)'
  PROVE  Items' = [i \in 1 .. Len(q) |-> data'[q[i]]]
<1>1. Links(q, head', next', live') /\ live' \in SUBSET Nodes
  BY DEF Chained
<1>2. List' = NodesOf(ChainOf(head', next', live'))
  BY DEF List, From, Chain, NodesOf, ChainOf
<1>3. List' = q
  BY <1>1, <1>2, NodesFound
<1>4. DOMAIN q = 1 .. Len(q)
  BY <1>1 DEF Links
<1>. QED  BY <1>3, <1>4 DEF Items

-----------------------------------------------------------------------------
(***************************************************************************)
(* A node is taken out of the chain                                        *)
(***************************************************************************)
Without(q, p)  == [i \in 1 .. Len(q) - 1 |-> IF i < p THEN q[i] ELSE q[i + 1]]
LinksCut(q, p) == IF p = 1 THEN next ELSE [next EXCEPT ![q[p - 1]] = After(q, p)]

LEMMA WithoutIs ==
  ASSUME NEW q \in Seq(Nodes), NEW p \in 1 .. Len(q)
  PROVE  /\ Without(q, p) \in Seq(Nodes) /\ Len(Without(q, p)) = Len(q) - 1 /\ Len(q) \in Nat
         /\ \A i \in 1 .. Len(q) - 1 :
              Without(q, p)[i] = (IF i < p THEN q[i] ELSE q[i + 1])
<1>1. Len(q) \in Nat /\ Len(q) - 1 \in Nat /\ \A i \in 1 .. Len(q) : q[i] \in Nodes
  OBVIOUS
<1>2. \A i \in 1 .. Len(q) - 1 : (IF i < p THEN q[i] ELSE q[i + 1]) \in Nodes
  BY <1>1
<1>. QED  BY <1>1, <1>2 DEF Without

\* The links after the cut are those of what is left.
LEMMA CutLinks ==
  ASSUME TypeOK, NEW q, Chained(q), NEW p \in 1 .. Len(q),
         NEW whom, Dealloc(q[p], whom, LinksCut(q, p))
  PROVE  /\ next' \in [Nodes -> Ptr]
         /\ Links(Without(q, p), First(Without(q, p)), next', live')
<1>. DEFINE w == Without(q, p)
<1>1. /\ q \in Seq(Nodes) /\ Len(q) \in Nat /\ \A i \in 1 .. Len(q) : q[i] \in Nodes
      /\ \A i \in 1 .. Len(q) : q[i] \in live /\ next[q[i]] = After(q, i)
      /\ \A i, j \in 1 .. Len(q) : q[i] = q[j] => i = j
  BY DEF Chained, Links
<1>2. /\ w \in Seq(Nodes) /\ Len(w) = Len(q) - 1
      /\ \A i \in 1 .. Len(q) - 1 : w[i] = (IF i < p THEN q[i] ELSE q[i + 1])
  BY <1>1, WithoutIs
<1>. HIDE DEF w
<1>3. After(q, p) \in Ptr
  BY <1>1 DEF After, Ptr
<1>4. LinksCut(q, p) \in [Nodes -> Ptr]
  BY <1>3 DEF LinksCut, TypeOK
<1>5. next' = [LinksCut(q, p) EXCEPT ![q[p]] = NULL] /\ live' = live \ {q[p]}
  BY DEF Dealloc
<1>6. next' \in [Nodes -> Ptr]
  BY <1>1, <1>4, <1>5 DEF Ptr
<1>7. ASSUME NEW i \in 1 .. Len(w) PROVE w[i] \in live' /\ next'[w[i]] = After(w, i)
  <2>1. CASE i < p - 1
    <3>1. w[i] = q[i] /\ i \in 1 .. Len(q) /\ i + 1 < p /\ i + 1 \in 1 .. Len(q) - 1 /\ p # 1
      BY <1>1, <1>2, <2>1
    <3>2. w[i] # q[p] /\ w[i] # q[p - 1] /\ w[i] \in live
      BY <1>1, <2>1, <3>1
    <3>3. next'[w[i]] = next[q[i]]
      BY <1>1, <1>4, <1>5, <3>1, <3>2 DEF LinksCut, TypeOK
    <3>4. After(q, i) = q[i + 1] /\ After(w, i) = w[i + 1] /\ w[i + 1] = q[i + 1]
      BY <1>1, <1>2, <3>1 DEF After
    <3>. QED  BY <1>1, <1>5, <3>1, <3>2, <3>3, <3>4
  <2>2. CASE i = p - 1
    <3>1. w[i] = q[p - 1] /\ p - 1 \in 1 .. Len(q) /\ p # 1
      BY <1>1, <1>2, <2>2
    <3>2. w[i] # q[p] /\ w[i] \in live
      BY <1>1, <3>1
    <3>3. next'[w[i]] = After(q, p)
      BY <1>1, <1>4, <1>5, <3>1, <3>2 DEF LinksCut, TypeOK
    <3>4. After(q, p) = After(w, i)
      <4>1. CASE p = Len(q)
        BY <1>1, <1>2, <2>2, <4>1 DEF After
      <4>2. CASE p # Len(q)
        <5>1. i + 1 \in 1 .. Len(q) - 1 /\ i + 1 = p
          BY <1>1, <1>2, <2>2, <4>2
        <5>2. w[i + 1] = q[p + 1]
          BY <1>2, <5>1
        <5>. QED  BY <1>1, <1>2, <2>2, <4>2, <5>1, <5>2 DEF After
      <4>. QED  BY <4>1, <4>2
    <3>. QED  BY <1>5, <3>2, <3>3, <3>4
  <2>3. CASE i > p - 1
    <3>1. w[i] = q[i + 1] /\ i + 1 \in 1 .. Len(q) /\ i + 1 # p
      BY <1>1, <1>2, <2>3
    <3>2. w[i] # q[p] /\ w[i] \in live /\ (p # 1 => w[i] # q[p - 1])
      BY <1>1, <2>3, <3>1
    <3>3. next'[w[i]] = next[q[i + 1]]
      BY <1>1, <1>4, <1>5, <3>1, <3>2 DEF LinksCut, TypeOK
    <3>4. After(q, i + 1) = After(w, i)
      <4>1. CASE i + 1 = Len(q)
        BY <1>1, <1>2, <4>1 DEF After
      <4>2. CASE i + 1 # Len(q)
        <5>1. i + 1 \in 1 .. Len(q) - 1 /\ ~(i + 1 < p)
          BY <1>1, <1>2, <2>3, <4>2
        <5>2. w[i + 1] = q[i + 1 + 1]
          BY <1>2, <5>1
        <5>. QED  BY <1>1, <1>2, <4>2, <5>1, <5>2 DEF After
      <4>. QED  BY <4>1, <4>2
    <3>. QED  BY <1>1, <1>5, <3>1, <3>2, <3>3, <3>4
  <2>. QED  BY <1>1, <1>2, <2>1, <2>2, <2>3
<1>8. ASSUME NEW i \in 1 .. Len(w), NEW j \in 1 .. Len(w), w[i] = w[j]
      PROVE  i = j
  <2>. DEFINE u(k) == IF k < p THEN k ELSE k + 1
  <2>1. u(i) \in 1 .. Len(q) /\ u(j) \in 1 .. Len(q) /\ w[i] = q[u(i)] /\ w[j] = q[u(j)]
    BY <1>1, <1>2
  <2>2. u(i) = u(j)
    BY <1>1, <1>8, <2>1
  <2>. QED  BY <1>1, <1>2, <2>2
<1>9. Links(w, First(w), next', live')
  BY <1>2, <1>7, <1>8 DEF Links
<1>. QED  BY <1>6, <1>9 DEF w

\* The other nodes and data still belong to each other.
LEMMA OwnedCut ==
  ASSUME TypeOK, Owned, NEW c \in live, NEW links,
         NEW whom \in {"caller", "freed"}, Dealloc(c, whom, links), uniq' = uniq
  PROVE  /\ Owned' /\ data[c] \in Data
         /\ live' \subseteq Nodes /\ data' \in [Nodes -> Data \cup {NULL}]
         /\ owner' \in [Data -> {"caller", "list", "freed"}]
         /\ due' \subseteq Data /\ seen' \subseteq Data
         /\ \A e \in live' : e \in live /\ data'[e] = data[e]
<1>1. /\ data[c] \in Data /\ c \in Nodes /\ live \subseteq Nodes
      /\ data \in [Nodes -> Data \cup {NULL}] /\ owner \in [Data -> {"caller", "list", "freed"}]
  BY DEF Owned, TypeOK
<1>2. /\ live' = live \ {c} /\ data' = [data EXCEPT ![c] = NULL]
      /\ owner' = [owner EXCEPT ![data[c]] = whom]
      /\ due' = due \ {data[c]} /\ seen' = seen \ {data[c]}
  BY DEF Dealloc
<1>3. /\ live' \subseteq Nodes /\ data' \in [Nodes -> Data \cup {NULL}]
      /\ owner' \in [Data -> {"caller", "list", "freed"}]
      /\ due' \subseteq Data /\ seen' \subseteq Data
  BY <1>1, <1>2 DEF TypeOK
<1>4. ASSUME NEW e \in live'
      PROVE  /\ e \in live /\ data'[e] = data[e] /\ data[e] \in Data /\ data[e] # data[c]
             /\ owner'[data[e]] = "list"
  BY <1>1, <1>2 DEF Owned
<1>5. ASSUME NEW d \in Data, owner'[d] = "list"
      PROVE  owner[d] = "list" /\ \E e \in live' : data'[e] = d
  <2>1. d # data[c] /\ owner[d] = "list"
    BY <1>1, <1>2, <1>5
  <2>2. PICK e \in live : data[e] = d
    BY <2>1 DEF Owned
  <2>. QED  BY <1>1, <1>2, <2>1, <2>2
<1>6. \A d \in seen' : owner'[d] = "list"
  BY <1>1, <1>2 DEF Owned, TypeOK
<1>7. \A e, f \in live' : data'[e] = data'[f] => e = f
  BY <1>4 DEF Owned
<1>8. uniq' => \A e, f \in live' : KeyOf[data'[e]] = KeyOf[data'[f]] => e = f
  BY <1>4 DEF Owned
<1>9. Owned'
  BY <1>4, <1>5, <1>6, <1>7, <1>8 DEF Owned
<1>. QED  BY <1>1, <1>3, <1>4, <1>9

\* The iterator stands on another node, and has the same items ahead but the
\* one that left.
LEMMA AheadCut ==
  ASSUME TypeOK, Owned, NEW q, Chained(q), Ahead(q), NEW p \in 1 .. Len(q), it # q[p],
         NEW whom, Dealloc(q[p], whom, LinksCut(q, p))
  PROVE  Ahead(Without(q, p))'
<1>. DEFINE w == Without(q, p)
<1>1. /\ q \in Seq(Nodes) /\ Len(q) \in Nat
      /\ \A i \in 1 .. Len(q) : q[i] \in live /\ q[i] \in Nodes /\ data[q[i]] \in Data
      /\ \A i, j \in 1 .. Len(q) : data[q[i]] = data[q[j]] => i = j
  BY DEF Chained, Links, Owned
<1>2. /\ w \in Seq(Nodes) /\ Len(w) = Len(q) - 1
      /\ \A i \in 1 .. Len(q) - 1 : w[i] = (IF i < p THEN q[i] ELSE q[i + 1])
  BY <1>1, WithoutIs
<1>. HIDE DEF w
<1>3. /\ data' = [data EXCEPT ![q[p]] = NULL] /\ it' = it
      /\ due' = due \ {data[q[p]]} /\ seen' = seen \ {data[q[p]]}
      /\ data \in [Nodes -> Data \cup {NULL}]
  BY DEF Dealloc, TypeOK
<1>4. \A i \in 1 .. Len(q) : i # p => data'[q[i]] = data[q[i]] /\ data[q[i]] # data[q[p]]
  BY <1>1, <1>3
<1>5. SUFFICES ASSUME it # NULL
               PROVE  \E u \in 1 .. Len(w) :
                        it = w[u] /\ {data'[w[j]] : j \in u .. Len(w)} = due' \ seen'
  BY <1>3 DEF Ahead, w
<1>6. PICK i \in 1 .. Len(q) : it = q[i] /\ {data[q[j]] : j \in i .. Len(q)} = due \ seen
  BY <1>5 DEF Ahead
<1>7. i # p
  BY <1>6
<1>. DEFINE u == IF i < p THEN i ELSE i - 1
<1>8. u \in 1 .. Len(w) /\ w[u] = it
  BY <1>1, <1>2, <1>6, <1>7
<1>9. ASSUME NEW j \in u .. Len(w) PROVE data'[w[j]] \in due' \ seen'
  <2>. DEFINE k == IF j < p THEN j ELSE j + 1
  <2>1. k \in i .. Len(q) /\ k \in 1 .. Len(q) /\ k # p /\ w[j] = q[k]
    BY <1>1, <1>2, <1>7
  <2>2. data[q[k]] \in due \ seen
    BY <1>6, <2>1
  <2>. HIDE DEF k
  <2>. QED  BY <1>3, <1>4, <2>1, <2>2
<1>10. ASSUME NEW d \in due' \ seen' PROVE \E j \in u .. Len(w) : d = data'[w[j]]
  <2>1. d \in due \ seen /\ d # data[q[p]]
    BY <1>3
  <2>2. PICK k \in i .. Len(q) : d = data[q[k]]
    BY <1>6, <2>1
  <2>3. k # p /\ k \in 1 .. Len(q)
    BY <1>1, <2>1, <2>2
  <2>4. CASE k < p
    <3>1. k \in u .. Len(w) /\ w[k] = q[k]
      BY <1>1, <1>2, <2>3, <2>4
    <3>. QED  BY <1>4, <2>2, <2>3, <3>1
  <2>5. CASE ~(k < p)
    <3>1. k - 1 \in u .. Len(w) /\ k - 1 \in 1 .. Len(q) - 1 /\ ~(k - 1 < p)
      BY <1>1, <1>2, <1>7, <2>3, <2>5
    <3>2. w[k - 1] = q[k]
      BY <1>2, <3>1
    <3>. QED  BY <1>4, <2>2, <2>3, <3>1, <3>2
  <2>. QED  BY <2>4, <2>5
<1>11. {data'[w[j]] : j \in u .. Len(w)} = due' \ seen'
  BY <1>9, <1>10
<1>. QED  BY <1>8, <1>11

LEMMA Removed ==
  ASSUME TypeOK, Owned, NEW q, Chained(q), Ahead(q), NEW p \in 1 .. Len(q), it # q[p],
         NEW whom \in {"caller", "freed"}, Dealloc(q[p], whom, LinksCut(q, p)), uniq' = uniq,
         head' = First(Without(q, p)), size' = size - 1,
         Len(q) > 1 => tail' = Without(q, p)[Len(q) - 1]
  PROVE  /\ Chained(Without(q, p))' /\ Ahead(Without(q, p))' /\ Owned'
         /\ head' \in Ptr /\ size' \in Int /\ next' \in [Nodes -> Ptr] /\ it' \in Ptr
         /\ live' \subseteq Nodes /\ data' \in [Nodes -> Data \cup {NULL}]
         /\ owner' \in [Data -> {"caller", "list", "freed"}]
         /\ due' \subseteq Data /\ seen' \subseteq Data
         /\ \A e \in live' : e \in live /\ data'[e] = data[e]
         /\ p \in 1 .. Len(Items) /\ Items' = Without(Items, p) /\ Items[p] = data[q[p]]
<1>. DEFINE w == Without(q, p)
<1>1. /\ q \in Seq(Nodes) /\ Len(q) \in Nat /\ size = Len(q) /\ q[p] \in live
      /\ \A c \in live : \E i \in 1 .. Len(q) : c = q[i]
  BY DEF Chained, Links
<1>2. /\ w \in Seq(Nodes) /\ Len(w) = Len(q) - 1
      /\ \A i \in 1 .. Len(q) - 1 : w[i] = (IF i < p THEN q[i] ELSE q[i + 1])
  BY <1>1, WithoutIs
<1>3. next' \in [Nodes -> Ptr] /\ Links(w, head', next', live')
  BY CutLinks
<1>4. /\ Owned' /\ live' \subseteq Nodes /\ data' \in [Nodes -> Data \cup {NULL}]
      /\ owner' \in [Data -> {"caller", "list", "freed"}]
      /\ due' \subseteq Data /\ seen' \subseteq Data
      /\ \A e \in live' : e \in live /\ data'[e] = data[e]
  BY <1>1, OwnedCut
<1>5. Ahead(w)'
  BY AheadCut
<1>. HIDE DEF w
<1>6. ASSUME NEW c \in live' PROVE \E i \in 1 .. Len(w) : c = w[i]
  <2>1. c \in live /\ c # q[p]
    BY DEF Dealloc
  <2>2. PICK i \in 1 .. Len(q) : c = q[i]
    BY <1>1, <2>1
  <2>3. CASE i < p
    <3>1. i \in 1 .. Len(w) /\ w[i] = q[i]
      BY <1>1, <1>2, <2>3
    <3>. QED  BY <2>2, <3>1
  <2>4. CASE ~(i < p)
    <3>1. i # p
      BY <2>1, <2>2
    <3>2. i - 1 \in 1 .. Len(w) /\ w[i - 1] = q[i]
      BY <1>1, <1>2, <2>4, <3>1
    <3>. QED  BY <2>2, <3>2
  <2>. QED  BY <2>3, <2>4
<1>7. size' = Len(w) /\ (Len(w) # 0 => tail' = w[Len(w)]) /\ size' \in Int
  BY <1>1, <1>2 DEF w
<1>8. Chained(w)'
  BY <1>3, <1>6, <1>7 DEF Chained
<1>9. head' \in Ptr /\ it' \in Ptr
  BY <1>2 DEF First, w, Ptr, Dealloc, TypeOK
<1>10. /\ Items = [i \in 1 .. Len(q) |-> data[q[i]]] /\ Len(Items) = Len(q)
       /\ Items' = [i \in 1 .. Len(q) - 1 |-> data'[w[i]]]
  BY <1>1, <1>2, <1>4, <1>8, ListFound, ItemsAfter
<1>11. ASSUME NEW i \in 1 .. Len(q) - 1
       PROVE  data'[w[i]] = IF i < p THEN Items[i] ELSE Items[i + 1]
  <2>1. w[i] \in live' /\ i \in 1 .. Len(q) /\ i + 1 \in 1 .. Len(q)
    BY <1>1, <1>2, <1>3 DEF Links
  <2>. QED  BY <1>2, <1>4, <1>10, <2>1
<1>12. Items' = Without(Items, p) /\ p \in 1 .. Len(Items) /\ Items[p] = data[q[p]]
  BY <1>10, <1>11 DEF Without
<1>. QED  BY <1>3, <1>4, <1>5, <1>7, <1>8, <1>9, <1>12 DEF w

-----------------------------------------------------------------------------
(***************************************************************************)
(* The invariant is inductive: one lemma for the steps that share a reason *)
(***************************************************************************)
\* What TypeOK says of the list and the iterator.
Typed ==
  /\ head \in Ptr /\ tail \in Ptr /\ size \in Int
  /\ next \in [Nodes -> Ptr] /\ data \in [Nodes -> Data \cup {NULL}]
  /\ live \subseteq Nodes
  /\ uniq \in BOOLEAN /\ frees \in BOOLEAN /\ refs \in 0 .. MaxRefs
  /\ owner \in [Data -> {"caller", "list", "freed"}]
  /\ it \in Ptr /\ due \subseteq Data /\ seen \subseteq Data

\* A step that leaves the list and the iterator alone.
LEMMA Still ==
  ASSUME TypeOK, Owned, NEW q, Chained(q), Ahead(q), UNCHANGED <<list, iter>>
  PROVE  Typed' /\ Owned' /\ Chained(q)' /\ Ahead(q)'
<1>. USE DEF list, iter, fields, heap, flags
<1>1. Typed'
  <2>1. uniq' \in BOOLEAN /\ frees' \in BOOLEAN
    BY Zenon DEF TypeOK
  <2>. QED  BY <2>1 DEF TypeOK, Typed
<1>2. Owned'
  BY DEF Owned
<1>3. Chained(q)'
  BY DEF Chained
<1>4. Ahead(q)'
  BY DEF Ahead
<1>. QED  BY <1>1, <1>2, <1>3, <1>4

\* A call that returns leaves nothing else to show.
LEMMA Returned ==
  ASSUME NEW q \in Seq(Nodes), Typed', Owned', Chained(q)', Ahead(q)',
         NEW answer, Return(answer)
  PROVE  IndInv'
<1>1. TypeOK'
  BY DEF Typed, TypeOK, Return, Ptr
<1>2. NoFault' /\ Calling' /\ Cursors(q)'
  BY DEF NoFault, Calling, Cursors, Return
<1>. QED  BY <1>1, <1>2 DEF IndInv

LEMMA StillReturned ==
  ASSUME IndInv, UNCHANGED <<list, iter>>, NEW answer, Return(answer)
  PROVE  IndInv'
<1>1. PICK q \in Seq(Nodes) : Chained(q) /\ Cursors(q) /\ Ahead(q)
  BY DEF IndInv
<1>2. Typed' /\ Owned' /\ Chained(q)' /\ Ahead(q)'
  BY <1>1, Still DEF IndInv
<1>. QED  BY <1>2, Returned

LEMMA RemovedReturned ==
  ASSUME TypeOK, Owned, NEW q, Chained(q), Ahead(q), NEW p \in 1 .. Len(q), it # q[p],
         NEW whom \in {"caller", "freed"}, Dealloc(q[p], whom, LinksCut(q, p)),
         head' = First(Without(q, p)), size' = size - 1, tail' \in Ptr,
         Len(q) > 1 => tail' = Without(q, p)[Len(q) - 1],
         NEW answer, Return(answer)
  PROVE  /\ IndInv' /\ p \in 1 .. Len(Items) /\ Items' = Without(Items, p)
         /\ Items[p] = data[q[p]]
<1>1. uniq' = uniq /\ frees' = frees /\ refs' = refs
  BY DEF Dealloc, flags
<1>2. Without(q, p) \in Seq(Nodes)
  BY WithoutIs DEF Chained, Links
<1>3. /\ Chained(Without(q, p))' /\ Ahead(Without(q, p))' /\ Owned'
      /\ head' \in Ptr /\ size' \in Int /\ next' \in [Nodes -> Ptr] /\ it' \in Ptr
      /\ live' \subseteq Nodes /\ data' \in [Nodes -> Data \cup {NULL}]
      /\ owner' \in [Data -> {"caller", "list", "freed"}]
      /\ due' \subseteq Data /\ seen' \subseteq Data
      /\ p \in 1 .. Len(Items) /\ Items' = Without(Items, p) /\ Items[p] = data[q[p]]
  BY <1>1, Removed
<1>4. uniq' \in BOOLEAN /\ frees' \in BOOLEAN /\ refs' \in 0 .. MaxRefs
  BY <1>1, Zenon DEF TypeOK
<1>5. Typed'
  BY <1>3, <1>4 DEF Typed
<1>. QED  BY <1>2, <1>3, <1>5, Returned

\* The ends of the chain.
LEMMA Ends ==
  ASSUME TypeOK, NEW q, Chained(q)
  PROVE  /\ q \in Seq(Nodes) /\ Len(q) \in Nat /\ List = q /\ Range(List) = live
         /\ \A i \in 1 .. Len(q) : q[i] \in Nodes /\ q[i] # NULL /\ q[i] \in live
                                   /\ next[q[i]] = After(q, i)
         /\ \A i, j \in 1 .. Len(q) : q[i] = q[j] => i = j
         /\ (head = NULL <=> Len(q) = 0) /\ (Len(q) = 0 => live = {})
         /\ Len(q) # 0 => head = q[1] /\ tail = q[Len(q)] /\ tail \in live /\ head \in live
<1>1. /\ q \in Seq(Nodes) /\ Len(q) \in Nat /\ List = q /\ Range(List) = live
  BY ListFound
<1>2. \A i \in 1 .. Len(q) : q[i] \in Nodes /\ q[i] # NULL
  BY <1>1, NodesAssumption
<1>3. \A i \in 1 .. Len(q) : q[i] \in live /\ next[q[i]] = After(q, i)
  BY DEF Chained, Links
<1>4. \A i, j \in 1 .. Len(q) : q[i] = q[j] => i = j
  BY DEF Chained, Links
<1>5. head = First(q) /\ (Len(q) # 0 => tail = q[Len(q)])
      /\ \A c \in live : \E i \in 1 .. Len(q) : c = q[i]
  BY DEF Chained, Links
<1>6. (head = NULL <=> Len(q) = 0) /\ (Len(q) = 0 => live = {})
  BY <1>1, <1>2, <1>5 DEF First
<1>7. Len(q) # 0 => head = q[1] /\ tail = q[Len(q)] /\ tail \in live /\ head \in live
  BY <1>1, <1>3, <1>5 DEF First
<1>. QED  BY <1>1, <1>2, <1>3, <1>4, <1>6, <1>7

-----------------------------------------------------------------------------
(***************************************************************************)
(* Removals                                                                *)
(***************************************************************************)
\* A call that takes the p-th item returns it.
Took(p) ==
  /\ p \in 1 .. Len(Items) /\ Items' = Without(Items, p) /\ Return(Val(Items[p]))
  /\ uniq' = uniq

LEMMA PopLastInv ==
  ASSUME IndInv, head # NULL, PopLast
  PROVE  IndInv' /\ Took(Len(Items))
<1>1. PICK q \in Seq(Nodes) : Chained(q) /\ Cursors(q) /\ Ahead(q)
  BY DEF IndInv
<1>2. TypeOK /\ Owned
  BY DEF IndInv
<1>. DEFINE n == Len(q)
            w == Without(q, n)
<1>3. /\ n \in Nat /\ n # 0 /\ n \in 1 .. n /\ 1 \in 1 .. n /\ q \in Seq(Nodes)
      /\ tail = q[n] /\ head = q[1] /\ tail \in Range(List) /\ List = q
  BY <1>1, <1>2, Ends
<1>4. /\ Spares(tail) /\ CutLast /\ size' = size - 1 /\ Return(Val(data[tail]))
  BY <1>3 DEF PopLast
<1>5. /\ \A i \in 1 .. n : q[i] # NULL /\ next[q[i]] = After(q, i) /\ q[i] \in Nodes
      /\ \A i, j \in 1 .. n : q[i] = q[j] => i = j
  BY <1>1, <1>2, Ends
<1>6. Len(w) = n - 1 /\ \A i \in 1 .. n - 1 : w[i] = q[i]
  <2>1. Len(w) = n - 1 /\ \A i \in 1 .. n - 1 : w[i] = IF i < n THEN q[i] ELSE q[i + 1]
    BY <1>3, WithoutIs
  <2>2. \A i \in 1 .. n - 1 : i < n
    BY <1>3
  <2>. QED  BY <2>1, <2>2
<1>7. uniq' = uniq /\ Len(Items) = n
  <2>1. Len(Items) = n
    BY <1>1, <1>2, ListFound
  <2>. QED  BY <1>4, <2>1 DEF CutLast, CutTail, Dealloc, flags
<1>8. CASE head = tail
  <2>1. n = 1
    BY <1>3, <1>5, <1>8
  <2>2. head' = NULL /\ tail' = NULL /\ Dealloc(tail, "caller", next)
    BY <1>4, <1>8 DEF CutLast
  <2>3. First(w) = NULL /\ LinksCut(q, n) = next
    BY <1>6, <2>1 DEF First, LinksCut
  <2>4. /\ head' = First(w) /\ tail' \in Ptr /\ it # q[n] /\ n \in 1 .. Len(q)
        /\ Dealloc(q[n], "caller", LinksCut(q, n)) /\ ~(Len(q) > 1)
    BY <1>3, <1>4, <2>1, <2>2, <2>3 DEF Spares, Ptr
  <2>5. /\ IndInv' /\ n \in 1 .. Len(Items) /\ Items' = Without(Items, n)
        /\ Items[n] = data[q[n]]
    BY <1>1, <1>2, <1>4, <2>4, RemovedReturned
  <2>. QED  BY <1>3, <1>4, <1>7, <2>5 DEF Took
<1>9. CASE head # tail
  <2>1. n > 1
    BY <1>3, <1>9
  <2>2. PICK c \in Range(List) : next[c] = tail /\ CutTail(c) /\ UNCHANGED head
    BY <1>4, <1>9 DEF CutLast
  <2>3. PICK i \in 1 .. n : c = q[i]
    BY <1>3 DEF Range
  <2>4. i = n - 1
    <3>1. i # n /\ q[i + 1] = q[n]
      BY <1>3, <1>5, <2>2, <2>3 DEF After
    <3>2. i + 1 \in 1 .. n /\ n \in 1 .. n
      BY <1>3, <3>1
    <3>3. i + 1 = n
      BY <1>5, <3>1, <3>2
    <3>. QED  BY <1>3, <3>3
  <2>5. LinksCut(q, n) = [next EXCEPT ![c] = NULL]
    BY <1>3, <2>1, <2>3, <2>4 DEF LinksCut, After
  <2>6. tail' = c /\ Dealloc(q[n], "caller", LinksCut(q, n))
    BY <1>3, <2>2, <2>5 DEF CutTail
  <2>7. 1 \in 1 .. n - 1 /\ n - 1 \in 1 .. n - 1 /\ Len(w) # 0
    BY <1>3, <1>6, <2>1
  <2>8. head' = First(w) /\ tail' = w[n - 1] /\ tail' \in Ptr
    BY <1>3, <1>5, <1>6, <2>2, <2>3, <2>4, <2>6, <2>7 DEF First, Ptr
  <2>9. /\ IndInv' /\ n \in 1 .. Len(Items) /\ Items' = Without(Items, n)
        /\ Items[n] = data[q[n]]
    BY <1>1, <1>2, <1>3, <1>4, <2>1, <2>6, <2>8, RemovedReturned DEF Spares
  <2>. QED  BY <1>3, <1>4, <1>7, <2>9 DEF Took
<1>. QED  BY <1>8, <1>9

\* The first node is taken out; the tail is that of what is left.
LEMMA HeadCut ==
  ASSUME TypeOK, NEW q, Chained(q), head # NULL
  PROVE  /\ 1 \in 1 .. Len(q) /\ q[1] = head /\ next = LinksCut(q, 1)
         /\ next[head] = First(Without(q, 1))
         /\ Len(q) > 1 => next[head] # NULL /\ tail = Without(q, 1)[Len(q) - 1]
<1>1. Len(q) \in Nat /\ Len(q) # 0 /\ head = q[1] /\ tail = q[Len(q)] /\ next[head] = After(q, 1)
      /\ \A i \in 1 .. Len(q) : q[i] # NULL
  BY Ends
<1>2. /\ Len(Without(q, 1)) = Len(q) - 1
      /\ \A i \in 1 .. Len(q) - 1 : Without(q, 1)[i] = q[i + 1]
  BY <1>1, Ends, WithoutIs
<1>3. next[head] = First(Without(q, 1))
  BY <1>1, <1>2 DEF First, After
<1>4. Len(q) > 1 => next[head] # NULL /\ tail = Without(q, 1)[Len(q) - 1]
  BY <1>1, <1>2 DEF After
<1>. QED  BY <1>1, <1>3, <1>4 DEF LinksCut

LEMMA ShiftFirstInv ==
  ASSUME IndInv, head # NULL, Spares(head), ShiftFirst
  PROVE  IndInv' /\ Took(1)
<1>1. PICK q \in Seq(Nodes) : Chained(q) /\ Cursors(q) /\ Ahead(q)
  BY DEF IndInv
<1>2. TypeOK /\ Owned
  BY DEF IndInv
<1>3. /\ 1 \in 1 .. Len(q) /\ q[1] = head /\ next = LinksCut(q, 1)
      /\ next[head] = First(Without(q, 1))
      /\ Len(q) > 1 => next[head] # NULL /\ tail = Without(q, 1)[Len(q) - 1]
  BY <1>1, <1>2, HeadCut
<1>4. /\ head' = First(Without(q, 1)) /\ size' = size - 1 /\ tail' \in Ptr
      /\ Len(q) > 1 => tail' = Without(q, 1)[Len(q) - 1]
      /\ Dealloc(q[1], "caller", LinksCut(q, 1)) /\ Return(Val(data[head]))
      /\ it # q[1]
  BY <1>2, <1>3 DEF ShiftFirst, CutHead, TypeOK, Ptr, Spares
<1>5. /\ IndInv' /\ 1 \in 1 .. Len(Items) /\ Items' = Without(Items, 1)
      /\ Items[1] = data[q[1]]
  BY <1>1, <1>2, <1>3, <1>4, RemovedReturned
<1>6. uniq' = uniq
  BY <1>4 DEF Dealloc, flags
<1>. QED  BY <1>3, <1>4, <1>5, <1>6 DEF Took

LEMMA RemoveNthInv ==
  ASSUME IndInv, NEW i \in Places, RemoveNth(i)
  PROVE  IndInv' /\ ((Refuse /\ ~InBounds(i)) \/ Took(i + 1))
<1>1. PICK q \in Seq(Nodes) : Chained(q) /\ Cursors(q) /\ Ahead(q)
  BY DEF IndInv
<1>2. TypeOK /\ Owned /\ i \in Nat
  BY NodesAssumption DEF IndInv
<1>3. CASE Refuse /\ ~InBounds(i)
  BY <1>3, StillReturned DEF Refuse
<1>4. CASE InBounds(i) /\ i = 0 /\ Spares(head) /\ ShiftFirst
  BY <1>4, ShiftFirstInv DEF InBounds
<1>5. CASE InBounds(i) /\ i = size - 1 /\ PopLast
  <2>1. IndInv' /\ Took(Len(Items))
    BY <1>5, PopLastInv DEF InBounds
  <2>2. Len(Items) = size /\ size \in Nat
    BY <1>1, <1>2, ListFound
  <2>3. Len(Items) = i + 1
    BY <1>2, <1>5, <2>2
  <2>. QED  BY <2>1, <2>3
<1>6. CASE /\ InBounds(i) /\ i # 0 /\ i < size - 1 /\ Spares(List[i + 1])
           /\ Dealloc(List[i + 1], "caller", LinksWithout(List[i], List[i + 1]))
           /\ size' = size - 1
           /\ Return(Val(Items[i + 1])) /\ UNCHANGED <<head, tail>>
  <2>1. /\ List = q /\ size = Len(q) /\ Len(q) \in Nat /\ q \in Seq(Nodes)
    BY <1>1, <1>2, ListFound
  <2>2. i + 1 \in 1 .. Len(q) /\ i \in 1 .. Len(q) /\ i + 1 # Len(q) /\ Len(q) > 1
    BY <1>2, <1>6, <2>1
  <2>3. next[q[i + 1]] = After(q, i + 1) /\ tail = q[Len(q)] /\ head = q[1]
    BY <1>1, <1>2, <2>2, Ends
  <2>4. LinksWithout(List[i], List[i + 1]) = LinksCut(q, i + 1)
    <3>1. (i + 1) - 1 = i /\ i + 1 # 1
      BY <1>2, <1>6
    <3>. QED  BY <2>1, <2>3, <3>1 DEF LinksWithout, LinksCut
  <2>5. /\ Len(Without(q, i + 1)) = Len(q) - 1
        /\ \A j \in 1 .. Len(q) - 1 : Without(q, i + 1)[j] = IF j < i + 1 THEN q[j] ELSE q[j + 1]
    BY <2>1, <2>2, WithoutIs
  <2>6. head' = First(Without(q, i + 1)) /\ tail' = Without(q, i + 1)[Len(q) - 1] /\ tail' \in Ptr
    <3>1. /\ 1 \in 1 .. Len(q) - 1 /\ Len(q) - 1 \in 1 .. Len(q) - 1 /\ 1 < i + 1
          /\ ~(Len(q) - 1 < i + 1) /\ (Len(q) - 1) + 1 = Len(q) /\ Len(q) - 1 # 0
      BY <1>6, <2>1, <2>2
    <3>2. Without(q, i + 1)[1] = q[1] /\ Without(q, i + 1)[Len(q) - 1] = q[Len(q)]
      <4>1. Without(q, i + 1)[1] = q[1]
        BY <2>5, <3>1
      <4>2. Without(q, i + 1)[Len(q) - 1] = q[(Len(q) - 1) + 1]
        BY <2>5, <3>1
      <4>. QED  BY <3>1, <4>1, <4>2
    <3>3. head' = q[1] /\ tail' = q[Len(q)]
      BY <1>6, <2>3
    <3>4. tail' \in Ptr
      BY <1>2, <1>6 DEF TypeOK
    <3>. QED  BY <2>5, <3>1, <3>2, <3>3, <3>4 DEF First
  <2>7. /\ IndInv' /\ i + 1 \in 1 .. Len(Items) /\ Items' = Without(Items, i + 1)
    BY <1>1, <1>2, <1>6, <2>1, <2>2, <2>4, <2>6, RemovedReturned DEF Spares
  <2>. QED  BY <1>6, <2>7 DEF Took, Dealloc, flags
<1>. QED  BY <1>3, <1>4, <1>5, <1>6 DEF RemoveNth

-----------------------------------------------------------------------------
(***************************************************************************)
(* Additions                                                               *)
(***************************************************************************)
\* A new node for a datum of the caller's, which the list does not reject.
LEMMA OwnedMore ==
  ASSUME TypeOK, Owned, NEW q, Chained(q), NEW d \in Data, owner[d] = "caller", ~Rejects(d),
         NEW c \in Nodes, NEW n, Alloc(c, d, n), UNCHANGED <<flags, refs, it, seen>>
  PROVE  /\ Owned' /\ d \notin seen
         /\ live' = live \cup {c} /\ live' \subseteq Nodes
         /\ data' \in [Nodes -> Data \cup {NULL}] /\ data'[c] = d
         /\ owner' \in [Data -> {"caller", "list", "freed"}]
         /\ due' \subseteq Data
         /\ \A e \in live : e # c /\ data'[e] = data[e]
<1>1. /\ c \notin live /\ live' = live \cup {c} /\ data' = [data EXCEPT ![c] = d]
      /\ owner' = [owner EXCEPT ![d] = "list"] /\ due' \subseteq due \cup {d}
      /\ uniq' = uniq /\ seen' = seen
  BY DEF Alloc, flags
<1>2. /\ live \subseteq Nodes /\ data \in [Nodes -> Data \cup {NULL}] /\ seen \subseteq Data
      /\ owner \in [Data -> {"caller", "list", "freed"}] /\ due \subseteq Data
  BY DEF TypeOK
<1>3. /\ live' \subseteq Nodes
      /\ data' \in [Nodes -> Data \cup {NULL}] /\ data'[c] = d
      /\ owner' \in [Data -> {"caller", "list", "freed"}] /\ due' \subseteq Data
      /\ \A e \in live : e # c /\ data'[e] = data[e]
  BY <1>1, <1>2
<1>4. /\ owner'[d] = "list" /\ \A b \in Data : b # d => owner'[b] = owner[b]
      /\ \A e \in live : data[e] \in Data /\ data[e] # d /\ owner[data[e]] = "list"
      /\ d \notin seen
  BY <1>1, <1>2 DEF Owned
<1>5. uniq => \A e \in live : KeyOf[data[e]] # KeyOf[d]
  <2>1. SUFFICES ASSUME uniq, NEW e \in live PROVE KeyOf[data[e]] # KeyOf[d]
    OBVIOUS
  <2>2. Items = [i \in 1 .. Len(q) |-> data[q[i]]] /\ \E i \in 1 .. Len(q) : e = q[i]
    BY ListFound DEF Chained
  <2>. QED  BY <2>1, <2>2 DEF Rejects, OnList
<1>6. \A e \in live' : data'[e] \in Data /\ owner'[data'[e]] = "list"
  BY <1>1, <1>3, <1>4
<1>7. \A e, f \in live' : data'[e] = data'[f] => e = f
  BY <1>1, <1>3, <1>4 DEF Owned
<1>8. ASSUME NEW b \in Data, owner'[b] = "list" PROVE \E e \in live' : data'[e] = b
  BY <1>1, <1>3, <1>4, <1>8 DEF Owned
<1>9. \A b \in seen' : owner'[b] = "list"
  BY <1>1, <1>2, <1>4 DEF Owned
<1>10. ASSUME uniq', NEW e \in live', NEW f \in live', KeyOf[data'[e]] = KeyOf[data'[f]]
       PROVE  e = f
  BY <1>1, <1>3, <1>5, <1>10 DEF Owned
<1>11. Owned'
  BY <1>6, <1>7, <1>8, <1>9, <1>10 DEF Owned
<1>. QED  BY <1>1, <1>3, <1>4, <1>11

\* A node at the end of the chain: what has it ahead includes the new datum.
LEMMA Appended ==
  ASSUME TypeOK, Owned, NEW q, Chained(q), Ahead(q), NEW d \in Data, owner[d] = "caller",
         ~Rejects(d), NEW c \in Nodes, Alloc(c, d, NULL), UNCHANGED <<flags, refs, it, seen>>,
         IF head = NULL
         THEN head' = c /\ next' = [next EXCEPT ![c] = NULL]
         ELSE head' = head /\ next' = [next EXCEPT ![c] = NULL, ![tail] = c],
         tail' = c, size' = size + 1
  PROVE  /\ Typed' /\ Owned' /\ Chained(Append(q, c))' /\ Ahead(Append(q, c))'
         /\ Items' = Append(Items, d)
<1>. DEFINE w == Append(q, c)
<1>1. /\ Owned' /\ d \notin seen /\ live' = live \cup {c} /\ live' \subseteq Nodes
      /\ data' \in [Nodes -> Data \cup {NULL}] /\ data'[c] = d
      /\ owner' \in [Data -> {"caller", "list", "freed"}] /\ due' \subseteq Data
      /\ \A e \in live : e # c /\ data'[e] = data[e]
  BY OwnedMore
<1>2. /\ q \in Seq(Nodes) /\ Len(q) \in Nat
      /\ \A i \in 1 .. Len(q) : q[i] \in Nodes /\ q[i] \in live /\ next[q[i]] = After(q, i)
      /\ \A i, j \in 1 .. Len(q) : q[i] = q[j] => i = j
      /\ (head = NULL <=> Len(q) = 0)
      /\ Len(q) # 0 => head = q[1] /\ tail = q[Len(q)] /\ tail \in live
  BY Ends
<1>3. /\ w \in Seq(Nodes) /\ Len(w) = Len(q) + 1 /\ w[Len(w)] = c
      /\ \A i \in 1 .. Len(q) : w[i] = q[i]
  BY <1>2
<1>. HIDE DEF w
<1>4. next' \in [Nodes -> Ptr]
  BY <1>2 DEF TypeOK, Ptr
<1>5. /\ next'[c] = NULL
      /\ Len(q) # 0 => next'[q[Len(q)]] = c
      /\ \A i \in 1 .. Len(q) : i # Len(q) => next'[q[i]] = q[i + 1]
  <2>1. \A i \in 1 .. Len(q) : q[i] # c /\ (i # Len(q) => q[i] # q[Len(q)])
    BY <1>1, <1>2
  <2>2. c # tail \/ Len(q) = 0
    BY <1>1, <1>2
  <2>. QED  BY <1>2, <2>1, <2>2 DEF TypeOK, After
<1>6. ASSUME NEW i \in 1 .. Len(w) PROVE w[i] \in live' /\ next'[w[i]] = After(w, i)
  <2>1. CASE i = Len(w)
    BY <1>1, <1>3, <1>5, <2>1 DEF After
  <2>2. CASE i = Len(q) /\ i # 0
    <3>1. i \in 1 .. Len(q) /\ i + 1 = Len(w) /\ i # Len(w)
      BY <1>2, <1>3, <2>2
    <3>. QED  BY <1>1, <1>2, <1>3, <1>5, <2>2, <3>1 DEF After
  <2>3. CASE i < Len(q)
    <3>1. i \in 1 .. Len(q) /\ i + 1 \in 1 .. Len(q) /\ i # Len(q) /\ i # Len(w)
      BY <1>2, <1>3, <2>3
    <3>. QED  BY <1>1, <1>2, <1>3, <1>5, <3>1 DEF After
  <2>. QED  BY <1>2, <1>3, <2>1, <2>2, <2>3
<1>7. ASSUME NEW i \in 1 .. Len(w), NEW j \in 1 .. Len(w), w[i] = w[j] PROVE i = j
  <2>1. i \in 1 .. Len(q) \/ i = Len(w)
    BY <1>2, <1>3
  <2>2. j \in 1 .. Len(q) \/ j = Len(w)
    BY <1>2, <1>3
  <2>3. \A k \in 1 .. Len(q) : q[k] # c
    BY <1>1, <1>2
  <2>. QED  BY <1>2, <1>3, <1>7, <2>1, <2>2, <2>3
<1>8. head' = First(w) /\ head' \in Ptr /\ tail' \in Ptr
  <2>1. CASE Len(q) = 0
    BY <1>2, <1>3, <2>1 DEF First, Ptr
  <2>2. CASE Len(q) # 0
    <3>1. 1 \in 1 .. Len(q) /\ Len(w) # 0
      BY <1>2, <1>3, <2>2
    <3>. QED  BY <1>2, <1>3, <2>2, <3>1 DEF First, Ptr
  <2>. QED  BY <2>1, <2>2
<1>9. ASSUME NEW e \in live' PROVE \E i \in 1 .. Len(w) : e = w[i]
  <2>1. CASE e = c
    BY <1>2, <1>3, <2>1
  <2>2. CASE e # c
    <3>1. PICK i \in 1 .. Len(q) : e = q[i]
      BY <1>1, <2>2 DEF Chained
    <3>2. i \in 1 .. Len(w)
      BY <1>2, <1>3
    <3>. QED  BY <1>3, <3>1, <3>2
  <2>. QED  BY <2>1, <2>2
<1>10. size = Len(q) /\ size' = Len(w) /\ size' \in Int
  BY <1>2, <1>3 DEF Chained
<1>11. Chained(w)'
  BY <1>3, <1>6, <1>7, <1>8, <1>9, <1>10 DEF Chained, Links
<1>12. Ahead(w)'
  <2>1. SUFFICES ASSUME it # NULL
                 PROVE  \E i \in 1 .. Len(w) :
                          it = w[i] /\ {data'[w[j]] : j \in i .. Len(w)} = due' \ seen
    BY DEF Ahead
  <2>2. PICK i \in 1 .. Len(q) : it = q[i] /\ {data[q[j]] : j \in i .. Len(q)} = due \ seen
    BY <2>1 DEF Ahead
  <2>3. due' = due \cup {d}
    BY <2>1 DEF Alloc
  <2>4. i \in 1 .. Len(w) /\ it = w[i]
    BY <1>2, <1>3, <2>2
  <2>5. \A j \in i .. Len(q) : data'[w[j]] = data[q[j]]
    BY <1>1, <1>2, <1>3
  <2>6. i .. Len(w) = (i .. Len(q)) \cup {Len(w)}
    BY <1>2, <1>3
  <2>7. {data'[w[j]] : j \in i .. Len(w)} = {data[q[j]] : j \in i .. Len(q)} \cup {d}
    BY <1>1, <1>3, <2>5, <2>6
  <2>8. {data'[w[j]] : j \in i .. Len(w)} = due' \ seen
    BY <1>1, <2>2, <2>3, <2>7
  <2>. QED  BY <2>4, <2>8
<1>13. uniq' \in BOOLEAN /\ frees' \in BOOLEAN /\ refs' \in 0 .. MaxRefs
  BY Zenon DEF TypeOK, flags
<1>14. Typed'
  BY <1>1, <1>4, <1>8, <1>10, <1>13 DEF Typed, TypeOK
<1>15. Items' = Append(Items, d)
  <2>1. /\ Items = [i \in 1 .. Len(q) |-> data[q[i]]] /\ Items \in Seq(Data)
        /\ Items' = [i \in 1 .. Len(w) |-> data'[w[i]]]
    <3>1. \A i \in 1 .. Len(q) : data[q[i]] \in Data
      BY <1>2 DEF Owned
    <3>2. Items = [i \in 1 .. Len(q) |-> data[q[i]]]
      BY ListFound
    <3>. QED  BY <1>1, <1>2, <1>11, <3>1, <3>2, ItemsAfter
  <2>2. \A i \in 1 .. Len(w) : data'[w[i]] = IF i = Len(w) THEN d ELSE Items[i]
    BY <1>1, <1>2, <1>3, <2>1
  <2>3. Append(Items, d) = [i \in 1 .. Len(w) |-> IF i = Len(w) THEN d ELSE Items[i]]
    BY <1>2, <1>3, <2>1
  <2>4. [i \in 1 .. Len(w) |-> data'[w[i]]]
          = [i \in 1 .. Len(w) |-> IF i = Len(w) THEN d ELSE Items[i]]
    BY <2>2
  <2>. QED  BY <2>1, <2>3, <2>4, Zenon
<1>. QED  BY <1>1, <1>11, <1>12, <1>14, <1>15 DEF w

LEMMA PushInv ==
  ASSUME IndInv, NEW d \in Data, Push(d)
  PROVE  /\ IndInv'
         /\ \/ Refuse /\ (Rejects(d) \/ MallocMayFail)
            \/ ~Rejects(d) /\ Items' = Append(Items, d) /\ uniq' = uniq /\ Return(Ok)
<1>1. PICK q \in Seq(Nodes) : Chained(q) /\ Cursors(q) /\ Ahead(q)
  BY DEF IndInv
<1>2. TypeOK /\ Owned /\ owner[d] = "caller"
  BY DEF IndInv, Push
<1>3. CASE Refuse /\ (Rejects(d) \/ MallocMayFail)
  BY <1>3, StillReturned DEF Refuse
<1>4. CASE /\ ~Rejects(d)
           /\ \E c \in Nodes :
                /\ Alloc(c, d, NULL)
                /\ IF head = NULL
                   THEN head' = c /\ next' = [next EXCEPT ![c] = NULL]
                   ELSE tail \in live' /\ head' = head
                        /\ next' = [next EXCEPT ![c] = NULL, ![tail] = c]
                /\ tail' = c
           /\ size' = size + 1
           /\ Return(Ok) /\ UNCHANGED <<flags, refs, it, seen>>
  <2>1. PICK c \in Nodes :
          /\ Alloc(c, d, NULL)
          /\ IF head = NULL
             THEN head' = c /\ next' = [next EXCEPT ![c] = NULL]
             ELSE head' = head /\ next' = [next EXCEPT ![c] = NULL, ![tail] = c]
          /\ tail' = c
    BY <1>4
  <2>2. /\ Typed' /\ Owned' /\ Chained(Append(q, c))' /\ Ahead(Append(q, c))'
        /\ Items' = Append(Items, d)
    BY <1>1, <1>2, <1>4, <2>1, Appended
  <2>3. Append(q, c) \in Seq(Nodes)
    OBVIOUS
  <2>4. IndInv'
    BY <1>4, <2>2, <2>3, Returned
  <2>. QED  BY <1>4, <2>2, <2>4 DEF flags
<1>5. ~(head # NULL /\ tail \notin live)
  BY <1>1, <1>2, Ends
<1>. QED  BY <1>3, <1>4, <1>5 DEF Push

\* A node before the others: what an iterator has ahead stays.
LEMMA Prepended ==
  ASSUME TypeOK, Owned, NEW q, Chained(q), Ahead(q), NEW d \in Data, owner[d] = "caller",
         ~Rejects(d), head # NULL,
         NEW c \in Nodes, Alloc(c, d, head), UNCHANGED <<tail, flags, refs, it, seen>>,
         head' = c, next' = [next EXCEPT ![c] = head], size' = size + 1
  PROVE  /\ Typed' /\ Owned' /\ Chained(<<c>> \o q)' /\ Ahead(<<c>> \o q)'
         /\ Items' = <<d>> \o Items
<1>. DEFINE w == <<c>> \o q
<1>1. /\ Owned' /\ live' = live \cup {c} /\ live' \subseteq Nodes
      /\ data' \in [Nodes -> Data \cup {NULL}]
      /\ owner' \in [Data -> {"caller", "list", "freed"}] /\ due' \subseteq Data
      /\ data'[c] = d /\ \A e \in live : e # c /\ data'[e] = data[e]
  BY OwnedMore, Zenon
<1>2. /\ q \in Seq(Nodes) /\ Len(q) \in Nat /\ Len(q) # 0
      /\ \A i \in 1 .. Len(q) : q[i] \in Nodes /\ q[i] \in live /\ next[q[i]] = After(q, i)
      /\ \A i, j \in 1 .. Len(q) : q[i] = q[j] => i = j
      /\ head = q[1] /\ tail = q[Len(q)] /\ tail \in live
  BY Ends
<1>3. /\ w \in Seq(Nodes) /\ Len(w) = Len(q) + 1 /\ w[1] = c
      /\ \A i \in 1 .. Len(q) : w[i + 1] = q[i]
  BY <1>2
<1>. HIDE DEF w
<1>4. next' \in [Nodes -> Ptr] /\ head' \in Ptr /\ tail' \in Ptr
  BY <1>2 DEF TypeOK, Ptr
<1>5. /\ next'[c] = q[1] /\ \A i \in 1 .. Len(q) : next'[q[i]] = After(q, i)
  BY <1>1, <1>2 DEF TypeOK
<1>6. ASSUME NEW i \in 1 .. Len(w) PROVE w[i] \in live' /\ next'[w[i]] = After(w, i)
  <2>1. CASE i = 1
    <3>1. 1 \in 1 .. Len(q) /\ w[1 + 1] = q[1] /\ 1 # Len(w)
      BY <1>2, <1>3
    <3>. QED  BY <1>1, <1>3, <1>5, <2>1, <3>1 DEF After
  <2>2. CASE i # 1
    <3>. DEFINE k == i - 1
    <3>1. k \in 1 .. Len(q) /\ k + 1 = i /\ w[i] = q[k]
      BY <1>2, <1>3, <2>2
    <3>2. After(w, i) = After(q, k)
      <4>1. CASE k = Len(q)
        BY <1>3, <3>1, <4>1 DEF After
      <4>2. CASE k # Len(q)
        <5>1. k + 1 \in 1 .. Len(q) /\ i # Len(w)
          BY <1>2, <1>3, <3>1, <4>2
        <5>2. w[i + 1] = q[k + 1]
          BY <1>3, <3>1, <5>1
        <5>. QED  BY <4>2, <5>1, <5>2 DEF After
      <4>. QED  BY <4>1, <4>2
    <3>. QED  BY <1>1, <1>2, <1>5, <3>1, <3>2
  <2>. QED  BY <2>1, <2>2
<1>7. ASSUME NEW i \in 1 .. Len(w), NEW j \in 1 .. Len(w), w[i] = w[j] PROVE i = j
  <2>1. \A k \in 1 .. Len(w) : k = 1 \/ (k - 1 \in 1 .. Len(q) /\ w[k] = q[k - 1])
    <3>1. SUFFICES ASSUME NEW k \in 1 .. Len(w), k # 1
                   PROVE  k - 1 \in 1 .. Len(q) /\ w[k] = q[k - 1]
      OBVIOUS
    <3>2. k - 1 \in 1 .. Len(q) /\ (k - 1) + 1 = k
      BY <1>2, <1>3, <3>1
    <3>. QED  BY <1>3, <3>2
  <2>2. \A k \in 1 .. Len(q) : q[k] # c
    BY <1>1, <1>2
  <2>3. CASE i = 1
    BY <1>3, <1>7, <2>1, <2>2, <2>3
  <2>4. CASE i # 1
    <3>1. j # 1
      BY <1>3, <1>7, <2>1, <2>2, <2>4
    <3>2. i - 1 = j - 1
      BY <1>2, <1>7, <2>1, <2>4, <3>1
    <3>. QED  BY <1>2, <1>3, <3>2
  <2>. QED  BY <2>3, <2>4
<1>8. First(w) = c
  BY <1>2, <1>3 DEF First
<1>9. ASSUME NEW e \in live' PROVE \E i \in 1 .. Len(w) : e = w[i]
  <2>1. CASE e = c
    BY <1>2, <1>3, <2>1
  <2>2. CASE e # c
    <3>1. PICK i \in 1 .. Len(q) : e = q[i]
      BY <1>1, <2>2 DEF Chained
    <3>2. i + 1 \in 1 .. Len(w)
      BY <1>2, <1>3
    <3>. QED  BY <1>3, <3>1, <3>2
  <2>. QED  BY <2>1, <2>2
<1>10. size = Len(q) /\ size' = Len(w) /\ size' \in Int
  BY <1>2, <1>3 DEF Chained
<1>11. tail' = w[Len(w)]
  <2>1. Len(q) \in 1 .. Len(q)
    BY <1>2
  <2>. QED  BY <1>2, <1>3, <2>1
<1>12. Chained(w)'
  BY <1>3, <1>6, <1>7, <1>8, <1>9, <1>10, <1>11 DEF Chained, Links
<1>13. Ahead(w)'
  <2>1. SUFFICES ASSUME it # NULL
                 PROVE  \E i \in 1 .. Len(w) :
                          it = w[i] /\ {data'[w[j]] : j \in i .. Len(w)} = due' \ seen
    BY DEF Ahead
  <2>2. PICK i \in 1 .. Len(q) : it = q[i] /\ {data[q[j]] : j \in i .. Len(q)} = due \ seen
    BY <2>1 DEF Ahead
  <2>3. due' = due
    BY DEF Alloc
  <2>4. i + 1 \in 1 .. Len(w) /\ it = w[i + 1]
    BY <1>2, <1>3, <2>2
  <2>5. \A j \in i .. Len(q) : data'[w[j + 1]] = data[q[j]] /\ j + 1 \in i + 1 .. Len(w)
    BY <1>1, <1>2, <1>3
  <2>6. ASSUME NEW j \in i + 1 .. Len(w) PROVE data'[w[j]] \in due \ seen
    <3>1. j - 1 \in i .. Len(q) /\ (j - 1) + 1 = j
      BY <1>2, <1>3
    <3>2. data'[w[j]] = data[q[j - 1]]
      BY <2>5, <3>1
    <3>. QED  BY <2>2, <3>1, <3>2
  <2>7. ASSUME NEW b \in due \ seen PROVE \E j \in i + 1 .. Len(w) : b = data'[w[j]]
    <3>1. PICK j \in i .. Len(q) : b = data[q[j]]
      BY <2>2
    <3>. QED  BY <2>5, <3>1
  <2>8. {data'[w[j]] : j \in i + 1 .. Len(w)} = due' \ seen
    BY <2>3, <2>6, <2>7
  <2>. QED  BY <2>4, <2>8
<1>14. uniq' \in BOOLEAN /\ frees' \in BOOLEAN /\ refs' \in 0 .. MaxRefs
  BY Zenon DEF TypeOK, flags
<1>15. Typed'
  BY <1>1, <1>4, <1>10, <1>14 DEF Typed, TypeOK
<1>16. Items' = <<d>> \o Items
  <2>1. /\ Items = [i \in 1 .. Len(q) |-> data[q[i]]] /\ Items \in Seq(Data)
        /\ Items' = [i \in 1 .. Len(w) |-> data'[w[i]]]
    <3>1. \A i \in 1 .. Len(q) : data[q[i]] \in Data
      BY <1>2 DEF Owned
    <3>2. Items = [i \in 1 .. Len(q) |-> data[q[i]]]
      BY ListFound
    <3>. QED  BY <1>1, <1>2, <1>12, <3>1, <3>2, ItemsAfter
  <2>2. ASSUME NEW i \in 1 .. Len(w) PROVE data'[w[i]] = IF i = 1 THEN d ELSE Items[i - 1]
    <3>1. CASE i = 1
      BY <1>1, <1>3, <3>1
    <3>2. CASE i # 1
      <4>1. i - 1 \in 1 .. Len(q) /\ (i - 1) + 1 = i
        BY <1>2, <1>3, <3>2
      <4>2. data'[w[i]] = data[q[i - 1]]
        BY <1>1, <1>2, <1>3, <3>2, <4>1
      <4>3. Items[i - 1] = data[q[i - 1]]
        BY <2>1, <4>1
      <4>. QED  BY <3>2, <4>2, <4>3
    <3>. QED  BY <3>1, <3>2
  <2>3. <<d>> \o Items = [i \in 1 .. Len(w) |-> IF i = 1 THEN d ELSE Items[i - 1]]
    BY <1>2, <1>3, <2>1
  <2>4. [i \in 1 .. Len(w) |-> data'[w[i]]]
          = [i \in 1 .. Len(w) |-> IF i = 1 THEN d ELSE Items[i - 1]]
    BY <2>2
  <2>. QED  BY <2>1, <2>3, <2>4, Zenon
<1>. QED  BY <1>1, <1>12, <1>13, <1>15, <1>16 DEF w

LEMMA UnshiftInv ==
  ASSUME IndInv, ~UnshiftOnEmpty, NEW d \in Data, Unshift(d)
  PROVE  /\ IndInv'
         /\ \/ Refuse /\ (Rejects(d) \/ MallocMayFail)
            \/ ~Rejects(d) /\ Items' = <<d>> \o Items /\ uniq' = uniq /\ Return(Ok)
<1>1. PICK q \in Seq(Nodes) : Chained(q) /\ Cursors(q) /\ Ahead(q)
  BY DEF IndInv
<1>2. TypeOK /\ Owned /\ owner[d] = "caller" /\ head # NULL
  BY DEF IndInv, Unshift
<1>3. CASE Refuse /\ (Rejects(d) \/ MallocMayFail)
  BY <1>3, StillReturned DEF Refuse
<1>4. CASE /\ ~Rejects(d)
           /\ \E c \in Nodes :
                /\ Alloc(c, d, head)
                /\ head' = c /\ next' = [next EXCEPT ![c] = head]
           /\ size' = size + 1
           /\ Return(Ok) /\ UNCHANGED <<tail, flags, refs, it, seen>>
  <2>1. PICK c \in Nodes : Alloc(c, d, head) /\ head' = c /\ next' = [next EXCEPT ![c] = head]
    BY <1>4
  <2>2. /\ Typed' /\ Owned' /\ Chained(<<c>> \o q)' /\ Ahead(<<c>> \o q)'
        /\ Items' = <<d>> \o Items
    BY <1>1, <1>2, <1>4, <2>1, Prepended
  <2>3. <<c>> \o q \in Seq(Nodes)
    OBVIOUS
  <2>4. IndInv'
    BY <1>4, <2>2, <2>3, Returned
  <2>. QED  BY <1>4, <2>2, <2>4 DEF flags
<1>. QED  BY <1>3, <1>4 DEF Unshift

-----------------------------------------------------------------------------
(***************************************************************************)
(* n_list_remove_ex                                                        *)
(***************************************************************************)
LEMMA RemoveExInv ==
  ASSUME IndInv, NEW k \in Keys, RemoveEx(k)
  PROVE  IndInv'
<1>1. PICK q \in Seq(Nodes) : Chained(q) /\ Cursors(q) /\ Ahead(q)
  BY DEF IndInv
<1>2. TypeOK /\ Owned /\ (it # NULL => KeyOf[data[it]] # k)
  BY DEF IndInv, RemoveEx
<1>3. UNCHANGED <<list, iter>>
  BY DEF RemoveEx
<1>4. CASE Return(Count(0))
  BY <1>3, <1>4, StillReturned
<1>5. CASE key' = k /\ removed' = 0 /\ pc' = "first" /\ UNCHANGED <<prev, node, res>>
  <2>1. Typed' /\ Owned' /\ Chained(q)' /\ Ahead(q)'
    BY <1>1, <1>2, <1>3, Still
  <2>2. TypeOK'
    BY <1>2, <1>5, <2>1 DEF TypeOK, Typed
  <2>3. NoFault' /\ Calling' /\ Cursors(q)'
    BY <1>2, <1>3, <1>5 DEF NoFault, Calling, Cursors, list, heap, iter
  <2>. QED  BY <2>1, <2>2, <2>3 DEF IndInv
<1>. QED  BY <1>4, <1>5 DEF RemoveEx

LEMMA RemoveHeadInv ==
  ASSUME IndInv, RemoveHead
  PROVE  /\ IndInv' /\ uniq' = uniq
         /\ 1 \in 1 .. Len(Items) /\ Items' = Without(Items, 1) /\ KeyOf[Items[1]] = key
<1>1. PICK q \in Seq(Nodes) : Chained(q) /\ Cursors(q) /\ Ahead(q)
  BY DEF IndInv
<1>2. TypeOK /\ Owned /\ Calling /\ pc = "first" /\ head # NULL /\ KeyOf[data[head]] = key
  BY DEF IndInv, RemoveHead, Matches
<1>3. /\ head' = next[head] /\ Dealloc(head, Freed, next)
      /\ size' = size - 1 /\ removed' = removed + 1
      /\ UNCHANGED <<tail, pc, call, res, key, prev, node>>
  BY DEF RemoveHead
<1>4. /\ 1 \in 1 .. Len(q) /\ q[1] = head /\ next = LinksCut(q, 1)
      /\ next[head] = First(Without(q, 1))
      /\ Len(q) > 1 => tail = Without(q, 1)[Len(q) - 1]
  BY <1>1, <1>2, HeadCut
<1>5. it # head /\ (it # NULL => it \in live) /\ head \in live
  BY <1>1, <1>2, Ends DEF Calling, Ahead
<1>. DEFINE w == Without(q, 1)
<1>6. w \in Seq(Nodes)
  BY <1>4, WithoutIs
<1>7. uniq' = uniq /\ frees' = frees /\ refs' = refs /\ it' = it /\ live' = live \ {head}
  BY <1>3 DEF Dealloc, flags
<1>8. Freed \in {"caller", "freed"}
  BY DEF Freed
<1>9. /\ head' = First(w) /\ Dealloc(q[1], Freed, LinksCut(q, 1)) /\ it # q[1]
      /\ Len(q) > 1 => tail' = w[Len(q) - 1]
  BY <1>3, <1>4, <1>5
<1>. HIDE DEF w
<1>10. /\ Chained(w)' /\ Ahead(w)' /\ Owned'
       /\ head' \in Ptr /\ size' \in Int /\ next' \in [Nodes -> Ptr] /\ it' \in Ptr
       /\ live' \subseteq Nodes /\ data' \in [Nodes -> Data \cup {NULL}]
       /\ owner' \in [Data -> {"caller", "list", "freed"}]
       /\ due' \subseteq Data /\ seen' \subseteq Data
       /\ \A e \in live' : e \in live /\ data'[e] = data[e]
       /\ 1 \in 1 .. Len(Items) /\ Items' = Without(Items, 1) /\ Items[1] = data[q[1]]
  BY <1>1, <1>2, <1>3, <1>4, <1>7, <1>8, <1>9, Removed DEF w
<1>11. uniq' \in BOOLEAN /\ frees' \in BOOLEAN
  BY <1>2, <1>7, Zenon DEF TypeOK
<1>12. TypeOK'
  BY <1>2, <1>3, <1>7, <1>10, <1>11 DEF TypeOK
<1>13. it # NULL => data'[it] = data[it]
  BY <1>5, <1>7, <1>10
<1>14. uniq => \A e \in live' : KeyOf[data'[e]] # key
  BY <1>2, <1>5, <1>7, <1>10 DEF Owned
<1>15. NoFault' /\ Cursors(w)'
  BY <1>2, <1>3 DEF NoFault, Cursors
<1>16. Calling'
  BY <1>2, <1>3, <1>7, <1>13, <1>14 DEF Calling
<1>17. IndInv'
  BY <1>6, <1>10, <1>12, <1>15, <1>16 DEF IndInv
<1>. QED  BY <1>2, <1>4, <1>7, <1>10, <1>17

LEMMA HeadDoneInv ==
  ASSUME IndInv, HeadDone
  PROVE  IndInv'
<1>1. PICK q \in Seq(Nodes) : Chained(q) /\ Cursors(q) /\ Ahead(q)
  BY DEF IndInv
<1>2. TypeOK /\ Owned /\ Calling /\ pc = "first" /\ ~Matches(head) /\ UNCHANGED <<list, iter>>
  BY DEF IndInv, HeadDone
<1>3. CASE Return(Count(removed))
  BY <1>2, <1>3, StillReturned
<1>4. CASE /\ head # NULL /\ ~OneAtMost
           /\ prev' = head /\ node' = next[head] /\ pc' = "rest"
           /\ UNCHANGED <<res, key, removed>>
  <2>1. Typed' /\ Owned' /\ Chained(q)' /\ Ahead(q)'
    BY <1>1, <1>2, Still
  <2>2. /\ 1 \in 1 .. Len(q) /\ head = q[1] /\ next[head] = After(q, 1)
        /\ Len(q) \in Nat /\ head \in live
    BY <1>1, <1>2, <1>4, Ends
  <2>3. TypeOK'
    BY <1>2, <1>4, <2>1, <2>2 DEF TypeOK, Typed
  <2>4. NoFault'
    BY <1>4 DEF NoFault
  <2>5. Cursors(q)'
    <3>1. \A j \in 1 .. 1 : KeyOf[data[q[j]]] # key
      BY <1>2, <1>4, <2>2 DEF Matches
    <3>2. key' = key /\ data' = data
      BY <1>2, <1>4 DEF list, heap
    <3>. QED  BY <1>4, <2>2, <3>1, <3>2 DEF Cursors
  <2>6. Calling'
    <3>1. uniq => removed = 0
      BY <1>2, <1>4 DEF OneAtMost, TypeOK
    <3>. QED  BY <1>2, <1>4, <3>1 DEF Calling, list, heap, iter, flags
  <2>. QED  BY <2>1, <2>3, <2>4, <2>5, <2>6 DEF IndInv
<1>. QED  BY <1>3, <1>4 DEF HeadDone

LEMMA RestNextInv ==
  ASSUME IndInv, RestNext
  PROVE  IndInv'
<1>1. PICK q \in Seq(Nodes) : Chained(q) /\ Cursors(q) /\ Ahead(q)
  BY DEF IndInv
<1>2. /\ TypeOK /\ Owned /\ Calling /\ pc = "rest" /\ node # NULL /\ ~Matches(node)
      /\ prev' = node /\ node' = next[node]
      /\ UNCHANGED <<list, iter, pc, call, res, key, removed>>
  BY DEF IndInv, RestNext, Step
<1>3. PICK i \in 1 .. Len(q) :
        /\ prev = q[i] /\ node = After(q, i) /\ \A j \in 1 .. i : KeyOf[data[q[j]]] # key
  BY <1>1, <1>2 DEF Cursors
<1>4. i + 1 \in 1 .. Len(q) /\ node = q[i + 1] /\ next[node] = After(q, i + 1)
  <2>1. Len(q) \in Nat /\ \A j \in 1 .. Len(q) : next[q[j]] = After(q, j)
    BY <1>1, <1>2, Ends
  <2>. QED  BY <1>2, <1>3, <2>1 DEF After
<1>5. Typed' /\ Owned' /\ Chained(q)' /\ Ahead(q)'
  BY <1>1, <1>2, Still
<1>6. TypeOK'
  BY <1>2, <1>4, <1>5 DEF TypeOK, Typed
<1>7. Cursors(q)'
  <2>1. \A j \in 1 .. i + 1 : KeyOf[data[q[j]]] # key
    BY <1>2, <1>3, <1>4 DEF Matches
  <2>2. key' = key /\ data' = data
    BY <1>2 DEF list, heap
  <2>. QED  BY <1>2, <1>4, <2>1, <2>2 DEF Cursors
<1>8. NoFault' /\ Calling'
  BY <1>2 DEF NoFault, Calling, list, heap, iter, flags
<1>. QED  BY <1>5, <1>6, <1>7, <1>8 DEF IndInv

LEMMA RemoveRestInv ==
  ASSUME IndInv, RemoveRest
  PROVE  /\ IndInv' /\ uniq' = uniq
         /\ \E p \in 1 .. Len(Items) : Items' = Without(Items, p) /\ KeyOf[Items[p]] = key
<1>1. PICK q \in Seq(Nodes) : Chained(q) /\ Cursors(q) /\ Ahead(q)
  BY DEF IndInv
<1>2. /\ TypeOK /\ Owned /\ Calling /\ pc = "rest" /\ node # NULL /\ KeyOf[data[node]] = key
      /\ Dealloc(node, Freed, LinksWithout(prev, node))
      /\ tail' = TailAfterCut /\ size' = size - 1 /\ UNCHANGED <<head, call>>
  BY DEF IndInv, RemoveRest, Matches
<1>3. PICK i \in 1 .. Len(q) :
        /\ prev = q[i] /\ node = After(q, i) /\ \A j \in 1 .. i : KeyOf[data[q[j]]] # key
  BY <1>1, <1>2 DEF Cursors
<1>4. /\ Len(q) \in Nat /\ q \in Seq(Nodes)
      /\ \A j \in 1 .. Len(q) : next[q[j]] = After(q, j) /\ q[j] \in Nodes /\ q[j] \in live
      /\ \A j, k \in 1 .. Len(q) : q[j] = q[k] => j = k
      /\ head = q[1] /\ tail = q[Len(q)]
  BY <1>1, <1>2, <1>3, Ends
<1>. DEFINE p == i + 1
            w == Without(q, p)
<1>5. p \in 1 .. Len(q) /\ node = q[p] /\ next[node] = After(q, p) /\ node \in live
  BY <1>2, <1>3, <1>4 DEF After
<1>6. LinksWithout(prev, node) = LinksCut(q, p)
  <2>1. p - 1 = i /\ p # 1
    BY <1>4
  <2>. QED  BY <1>3, <1>5, <2>1 DEF LinksWithout, LinksCut
<1>7. /\ w \in Seq(Nodes) /\ Len(w) = Len(q) - 1
      /\ \A j \in 1 .. Len(q) - 1 : w[j] = IF j < p THEN q[j] ELSE q[j + 1]
  BY <1>4, <1>5, WithoutIs
<1>8. i \in 1 .. Len(w) /\ w[i] = q[i] /\ \A j \in 1 .. i : w[j] = q[j] /\ j \in 1 .. Len(w)
  BY <1>4, <1>5, <1>7
<1>9. /\ it # node /\ (it # NULL => it \in live)
  BY <1>1, <1>2, <1>4 DEF Calling, Ahead
<1>10. uniq' = uniq /\ frees' = frees /\ refs' = refs /\ it' = it /\ live' = live \ {node}
  BY <1>2 DEF Dealloc, flags
<1>11. Freed \in {"caller", "freed"}
  BY DEF Freed
<1>12. head' = First(w)
  BY <1>2, <1>4, <1>7, <1>8 DEF First
<1>13. tail' = w[Len(q) - 1] /\ tail' \in Ptr
  <2>1. CASE p = Len(q)
    <3>1. tail' = prev /\ w[Len(q) - 1] = q[i]
      BY <1>2, <1>4, <1>5, <1>8, <2>1 DEF TailAfterCut
    <3>. QED  BY <1>2, <1>3, <3>1 DEF TypeOK
  <2>2. CASE p # Len(q)
    <3>1. node # tail
      BY <1>4, <1>5, <2>2
    <3>2. Len(q) - 1 \in 1 .. Len(q) - 1 /\ ~(Len(q) - 1 < p) /\ (Len(q) - 1) + 1 = Len(q)
      BY <1>4, <1>5, <2>2
    <3>3. w[Len(q) - 1] = q[Len(q)]
      BY <1>7, <3>2
    <3>. QED  BY <1>2, <1>4, <3>1, <3>3 DEF TailAfterCut, TypeOK
  <2>. QED  BY <2>1, <2>2
<1>14. Dealloc(q[p], Freed, LinksCut(q, p)) /\ it # q[p]
  BY <1>2, <1>5, <1>6, <1>9
<1>. HIDE DEF p, w
<1>15. CASE Return(Count(removed + 1))
  <2>1. /\ IndInv' /\ p \in 1 .. Len(Items) /\ Items' = Without(Items, p)
        /\ Items[p] = data[q[p]]
    BY <1>1, <1>2, <1>5, <1>11, <1>12, <1>13, <1>14, <1>15, RemovedReturned DEF w
  <2>. QED  BY <1>2, <1>5, <1>10, <2>1
<1>16. CASE /\ ~uniq
            /\ prev' = PrevAfterCut /\ node' = next[node] /\ removed' = removed + 1
            /\ UNCHANGED <<pc, res, key>>
  <2>1. /\ Chained(w)' /\ Ahead(w)' /\ Owned'
        /\ head' \in Ptr /\ size' \in Int /\ next' \in [Nodes -> Ptr] /\ it' \in Ptr
        /\ live' \subseteq Nodes /\ data' \in [Nodes -> Data \cup {NULL}]
        /\ owner' \in [Data -> {"caller", "list", "freed"}]
        /\ due' \subseteq Data /\ seen' \subseteq Data
        /\ \A e \in live' : e \in live /\ data'[e] = data[e]
        /\ p \in 1 .. Len(Items) /\ Items' = Without(Items, p) /\ Items[p] = data[q[p]]
    BY <1>1, <1>2, <1>5, <1>10, <1>11, <1>12, <1>13, <1>14, Removed DEF w
  <2>2. uniq' \in BOOLEAN /\ frees' \in BOOLEAN
    BY <1>2, <1>10, Zenon DEF TypeOK
  <2>3. prev' = prev /\ prev' \in Ptr /\ node' \in Ptr /\ removed' \in Nat
    BY <1>2, <1>5, <1>16 DEF PrevAfterCut, TypeOK
  <2>4. TypeOK'
    BY <1>2, <1>10, <1>13, <1>16, <2>1, <2>2, <2>3 DEF TypeOK
  <2>5. it # NULL => data'[it] = data[it]
    BY <1>9, <1>10, <2>1
  <2>6. Calling' /\ NoFault'
    BY <1>2, <1>10, <1>16, <2>5 DEF Calling, NoFault
  <2>7. After(q, p) = After(w, i)
    <3>1. CASE p = Len(q)
      BY <1>4, <1>7, <3>1 DEF After, p
    <3>2. CASE p # Len(q)
      <4>1. i + 1 \in 1 .. Len(q) - 1 /\ ~(i + 1 < p) /\ i # Len(w)
        BY <1>4, <1>5, <1>7, <3>2 DEF p
      <4>2. w[i + 1] = q[(i + 1) + 1]
        BY <1>7, <4>1
      <4>. QED  BY <3>2, <4>1, <4>2 DEF After, p
    <3>. QED  BY <3>1, <3>2
  <2>8. \A j \in 1 .. i : KeyOf[data'[w[j]]] # key
    <3>1. \A j \in 1 .. i : j \in 1 .. Len(q) /\ j # p
      BY <1>4 DEF p
    <3>2. \A j \in 1 .. i : w[j] \in live'
      BY <1>4, <1>5, <1>8, <1>10, <3>1
    <3>. QED  BY <1>3, <1>8, <2>1, <3>2
  <2>9. Cursors(w)'
    BY <1>3, <1>5, <1>8, <1>16, <2>3, <2>7, <2>8 DEF Cursors
  <2>10. IndInv'
    BY <1>7, <2>1, <2>4, <2>6, <2>9 DEF IndInv
  <2>. QED  BY <1>2, <1>5, <1>10, <2>1, <2>10
<1>. QED  BY <1>2, <1>15, <1>16 DEF RemoveRest

-----------------------------------------------------------------------------
(***************************************************************************)
(* The list as a whole, and its iterator                                   *)
(***************************************************************************)
LEMMA EmptyChain == <<>> \in Seq(Nodes) /\ Len(<<>>) = 0 /\ First(<<>>) = NULL
BY DEF First

LEMMA InitInv == Init => IndInv
<1>1. SUFFICES ASSUME Init PROVE IndInv
  OBVIOUS
<1>2. TypeOK
  <2>1. uniq \in BOOLEAN /\ frees \in BOOLEAN
    BY <1>1, Zenon DEF Init
  <2>. QED  BY <1>1, <2>1, NodesAssumption DEF Init, TypeOK, Ptr, Idle
<1>3. NoFault /\ Owned /\ Calling
  BY <1>1 DEF Init, NoFault, Owned, Calling
<1>4. Chained(<<>>) /\ Cursors(<<>>) /\ Ahead(<<>>)
  BY <1>1, EmptyChain DEF Init, Chained, Links, Cursors, Ahead
<1>. QED  BY <1>2, <1>3, <1>4, EmptyChain DEF IndInv

LEMMA NewInv ==
  ASSUME IndInv, New
  PROVE  IndInv' /\ Items = <<>> /\ Items' = <<>>
<1>1. PICK q \in Seq(Nodes) : Chained(q) /\ Cursors(q) /\ Ahead(q)
  BY DEF IndInv
<1>2. /\ TypeOK /\ Owned /\ head = NULL /\ head' = NULL /\ tail' = NULL /\ size' = 0 /\ refs' = 0
      /\ UNCHANGED <<heap, owner, iter>> /\ Return(Ok)
  BY DEF IndInv, New, Calling
<1>3. Len(q) = 0 /\ live = {}
  BY <1>1, <1>2, Ends
<1>4. it = NULL
  BY <1>1, <1>3 DEF Ahead
<1>5. Typed'
  <2>1. uniq' \in BOOLEAN /\ frees' \in BOOLEAN
    BY Zenon DEF New
  <2>. QED  BY <1>2, <2>1, NodesAssumption DEF TypeOK, Typed, heap, iter, Ptr
<1>6. Owned'
  BY <1>2, <1>3 DEF Owned, heap, iter
<1>7. Chained(<<>>)' /\ Ahead(<<>>)'
  BY <1>2, <1>3, <1>4, EmptyChain DEF Chained, Links, Ahead, heap, iter
<1>8. IndInv'
  BY <1>2, <1>5, <1>6, <1>7, EmptyChain, Returned
<1>9. Items = <<>>
  BY <1>1, <1>2, <1>3, ListFound
<1>10. Items' = <<>>
  BY <1>5, <1>7, EmptyChain, ItemsAfter DEF Typed
<1>. QED  BY <1>8, <1>9, <1>10

\* The other parts of the invariant, when only references or owners change.
LEMMA SameChain ==
  ASSUME IndInv, UNCHANGED <<fields, heap, uniq, it, due, seen, pc, key, prev, node, removed>>
  PROVE  NoFault' /\ Calling' /\ \E q \in Seq(Nodes) : Chained(q)' /\ Cursors(q)' /\ Ahead(q)'
<1>1. PICK q \in Seq(Nodes) : Chained(q) /\ Cursors(q) /\ Ahead(q)
  BY DEF IndInv
<1>2. Chained(q)' /\ Cursors(q)' /\ Ahead(q)'
  BY <1>1 DEF Chained, Cursors, Ahead, fields, heap
<1>3. NoFault' /\ Calling'
  BY DEF IndInv, NoFault, Calling, fields, heap
<1>. QED  BY <1>2, <1>3

LEMMA RefInv ==
  ASSUME IndInv, UNCHANGED <<fields, heap, flags, owner, iter, pc, locals>>,
         refs' \in 0 .. MaxRefs
  PROVE  IndInv'
<1>1. NoFault' /\ Calling' /\ \E q \in Seq(Nodes) : Chained(q)' /\ Cursors(q)' /\ Ahead(q)'
  BY SameChain DEF flags, iter, locals
<1>2. TypeOK'
  <2>1. uniq' \in BOOLEAN /\ frees' \in BOOLEAN
    BY Zenon DEF IndInv, TypeOK, flags
  <2>. QED  BY <2>1 DEF IndInv, TypeOK, fields, heap, iter, locals
<1>3. Owned'
  BY DEF IndInv, Owned, heap, flags, iter
<1>. QED  BY <1>1, <1>2, <1>3 DEF IndInv

LEMMA FreeInv ==
  ASSUME IndInv, Free
  PROVE  IndInv' /\ (LastRef => Items' = <<>>)
<1>1. PICK q \in Seq(Nodes) : Chained(q) /\ Cursors(q) /\ Ahead(q)
  BY DEF IndInv
<1>2. TypeOK /\ Owned /\ Calling /\ pc = "idle" /\ UNCHANGED <<call, res, locals>>
  BY DEF IndInv, Free
<1>3. CASE ~LastRef
  <2>1. refs # 0 /\ refs' = refs - 1 /\ UNCHANGED <<fields, heap, flags, owner, iter, pc, locals>>
    BY <1>2, <1>3 DEF Free, LastRef
  <2>2. refs' \in 0 .. MaxRefs
    BY <1>2, <2>1, NodesAssumption DEF TypeOK
  <2>. QED  BY <1>3, <2>1, <2>2, RefInv
<1>4. CASE LastRef
  <2>1. /\ pc' = "none" /\ live' = live \ Range(List)
        /\ head' = NULL /\ tail' = NULL /\ size' = 0
        /\ next' = [n \in Nodes |-> NULL] /\ data' = [n \in Nodes |-> NULL]
        /\ owner' = [d \in Data |-> IF d \in Range(Items) THEN Freed ELSE owner[d]]
        /\ it' = NULL /\ due' = {} /\ seen' = {}
        /\ UNCHANGED <<flags, refs>>
    BY <1>4 DEF Free
  <2>2. Range(List) = live /\ Items = [i \in 1 .. Len(q) |-> data[q[i]]]
        /\ \A c \in live : \E i \in 1 .. Len(q) : c = q[i]
    BY <1>1, <1>2, ListFound DEF Chained
  <2>3. live' = {}
    BY <2>1, <2>2
  <2>4. \A d \in Data : owner'[d] # "list" /\ owner'[d] \in {"caller", "list", "freed"}
    <3>1. ASSUME NEW d \in Data PROVE owner'[d] # "list" /\ owner'[d] \in {"caller", "list", "freed"}
      <4>1. CASE d \in Range(Items)
        BY <2>1, <4>1 DEF Freed
      <4>2. CASE d \notin Range(Items)
        <5>1. owner[d] # "list"
          <6>1. SUFFICES ASSUME owner[d] = "list" PROVE d \in Range(Items)
            BY <4>2
          <6>2. PICK c \in live : data[c] = d
            BY <1>2, <6>1 DEF Owned
          <6>3. PICK i \in 1 .. Len(q) : c = q[i]
            BY <2>2
          <6>. QED  BY <2>2, <6>2, <6>3 DEF Range
        <5>. QED  BY <1>2, <2>1, <4>2, <5>1 DEF TypeOK
      <4>. QED  BY <4>1, <4>2
    <3>. QED  BY <3>1
  <2>5. TypeOK'
    <3>1. uniq' \in BOOLEAN /\ frees' \in BOOLEAN /\ refs' \in 0 .. MaxRefs
      BY <1>2, <2>1, Zenon DEF TypeOK, flags
    <3>2. owner' \in [Data -> {"caller", "list", "freed"}]
      BY <2>1, <2>4
    <3>. QED  BY <1>2, <2>1, <2>3, <3>1, <3>2, NodesAssumption DEF TypeOK, Ptr, locals
  <2>6. NoFault' /\ Calling'
    BY <2>1 DEF NoFault, Calling
  <2>7. Owned'
    BY <2>1, <2>3, <2>4 DEF Owned
  <2>8. Chained(<<>>)' /\ Cursors(<<>>)' /\ Ahead(<<>>)'
    BY <2>1, <2>3, EmptyChain DEF Chained, Links, Cursors, Ahead
  <2>9. Items' = <<>>
    BY <2>3, <2>8, EmptyChain, ItemsAfter
  <2>. QED  BY <2>5, <2>6, <2>7, <2>8, <2>9, EmptyChain DEF IndInv
<1>. QED  BY <1>3, <1>4

LEMMA RenewInv ==
  ASSUME IndInv, NEW d \in Data, Renew(d)
  PROVE  IndInv'
<1>1. /\ owner[d] = "freed" /\ owner' = [owner EXCEPT ![d] = "caller"] /\ TypeOK /\ Owned
      /\ UNCHANGED <<fields, heap, flags, refs, iter, pc, locals>>
  BY DEF Renew, IndInv
<1>2. NoFault' /\ Calling' /\ \E q \in Seq(Nodes) : Chained(q)' /\ Cursors(q)' /\ Ahead(q)'
  BY <1>1, SameChain DEF flags, iter, locals
<1>3. TypeOK'
  <2>1. uniq' \in BOOLEAN /\ frees' \in BOOLEAN
    BY <1>1, Zenon DEF TypeOK, flags
  <2>. QED  BY <1>1, <2>1 DEF TypeOK, fields, heap, iter, locals
<1>4. \A e \in Data : e # d => owner'[e] = owner[e]
  BY <1>1 DEF TypeOK
<1>5. owner'[d] # "list"
  BY <1>1 DEF TypeOK
<1>6. \A c \in live : data[c] \in Data /\ data[c] # d
  BY <1>1 DEF Owned
<1>7. \A e \in seen : e \in Data /\ e # d
  BY <1>1 DEF Owned, TypeOK
<1>8. Owned'
  BY <1>1, <1>4, <1>5, <1>6, <1>7 DEF Owned, heap, flags, iter
<1>. QED  BY <1>2, <1>3, <1>8 DEF IndInv

LEMMA IteratorStartInv ==
  ASSUME IndInv, IteratorStart
  PROVE  IndInv'
<1>1. PICK q \in Seq(Nodes) : Chained(q) /\ Cursors(q) /\ Ahead(q)
  BY DEF IndInv
<1>2. /\ TypeOK /\ Owned /\ pc = "idle" /\ head # NULL
      /\ it' = head /\ due' = Range(Items) /\ seen' = {}
      /\ UNCHANGED <<list, pc, locals>>
  BY DEF IndInv, IteratorStart
<1>3. /\ Items = [i \in 1 .. Len(q) |-> data[q[i]]] /\ Len(q) \in Nat
      /\ \A i \in 1 .. Len(q) : q[i] \in live
      /\ 1 \in 1 .. Len(q) /\ head = q[1]
  BY <1>1, <1>2, ListFound, Ends
<1>4. Range(Items) = {data[q[j]] : j \in 1 .. Len(q)}
  BY <1>3 DEF Range
<1>5. Range(Items) \subseteq Data
  BY <1>2, <1>3, <1>4 DEF Owned
<1>6. TypeOK'
  <2>1. uniq' \in BOOLEAN /\ frees' \in BOOLEAN
    BY <1>2, Zenon DEF TypeOK, list, flags
  <2>. QED  BY <1>2, <1>5, <2>1 DEF TypeOK, list, fields, heap, locals
<1>7. Owned' /\ NoFault' /\ Calling'
  BY <1>2 DEF Owned, NoFault, Calling, list, heap, flags
<1>8. Chained(q)' /\ Cursors(q)'
  BY <1>1, <1>2 DEF Chained, Cursors, list, fields, heap
<1>9. Ahead(q)'
  <2>1. data' = data
    BY <1>2 DEF list, heap
  <2>. QED  BY <1>2, <1>3, <1>4, <2>1 DEF Ahead
<1>. QED  BY <1>6, <1>7, <1>8, <1>9 DEF IndInv

LEMMA IteratorGetInv ==
  ASSUME IndInv, IteratorGet
  PROVE  IndInv'
<1>1. PICK q \in Seq(Nodes) : Chained(q) /\ Cursors(q) /\ Ahead(q)
  BY DEF IndInv
<1>2. /\ TypeOK /\ Owned /\ pc = "idle" /\ it # NULL /\ it' = next[it]
      /\ IF next[it] = NULL
         THEN due' = {} /\ seen' = {}
         ELSE due' = due /\ seen' = seen \cup {data[it]}
      /\ UNCHANGED <<list, pc, locals>>
  BY DEF IndInv, IteratorGet, Datum
<1>3. PICK i \in 1 .. Len(q) : it = q[i] /\ {data[q[j]] : j \in i .. Len(q)} = due \ seen
  BY <1>1, <1>2 DEF Ahead
<1>4. /\ Len(q) \in Nat /\ next[it] = After(q, i) /\ it \in live
      /\ \A j \in 1 .. Len(q) : q[j] \in live /\ q[j] \in Nodes /\ q[j] # NULL
      /\ \A j, k \in 1 .. Len(q) : q[j] = q[k] => j = k
  BY <1>1, <1>2, <1>3, Ends
<1>5. data[it] \in Data /\ owner[data[it]] = "list" /\ it' \in Ptr
  BY <1>2, <1>4 DEF Owned, TypeOK, Ptr
<1>6. TypeOK'
  <2>1. uniq' \in BOOLEAN /\ frees' \in BOOLEAN
    BY <1>2, Zenon DEF TypeOK, list, flags
  <2>2. due' \subseteq Data /\ seen' \subseteq Data
    BY <1>2, <1>5 DEF TypeOK
  <2>. QED  BY <1>2, <1>5, <2>1, <2>2 DEF TypeOK, list, fields, heap, locals
<1>7. Owned' /\ NoFault' /\ Calling'
  BY <1>2, <1>5 DEF Owned, NoFault, Calling, list, heap, flags
<1>8. Chained(q)' /\ Cursors(q)'
  BY <1>1, <1>2 DEF Chained, Cursors, list, fields, heap
<1>9. Ahead(q)'
  <2>1. data' = data
    BY <1>2 DEF list, heap
  <2>2. SUFFICES ASSUME it' # NULL
                 PROVE  \E k \in 1 .. Len(q) :
                          it' = q[k] /\ {data[q[j]] : j \in k .. Len(q)} = due' \ seen'
    BY <2>1 DEF Ahead
  <2>3. i + 1 \in 1 .. Len(q) /\ it' = q[i + 1] /\ due' = due /\ seen' = seen \cup {data[it]}
    BY <1>2, <1>4, <2>2 DEF After
  <2>4. \A j \in i + 1 .. Len(q) : data[q[j]] # data[q[i]] /\ data[q[j]] \in due \ seen
    <3>1. \A j \in i + 1 .. Len(q) : j \in i .. Len(q) /\ j \in 1 .. Len(q) /\ j # i
      BY <1>4
    <3>. QED  BY <1>2, <1>3, <1>4, <3>1 DEF Owned
  <2>5. ASSUME NEW b \in due \ seen, b # data[q[i]] PROVE \E j \in i + 1 .. Len(q) : b = data[q[j]]
    <3>1. PICK j \in i .. Len(q) : b = data[q[j]]
      BY <1>3
    <3>2. j \in i + 1 .. Len(q)
      BY <1>4, <2>5, <3>1
    <3>. QED  BY <3>1, <3>2
  <2>6. {data[q[j]] : j \in i + 1 .. Len(q)} = due' \ seen'
    BY <1>3, <2>3, <2>4, <2>5
  <2>. QED  BY <2>3, <2>6
<1>. QED  BY <1>6, <1>7, <1>8, <1>9 DEF IndInv

LEMMA StutterInv == IndInv /\ UNCHANGED vars => IndInv'
<1>1. SUFFICES ASSUME IndInv, UNCHANGED vars PROVE IndInv'
  OBVIOUS
<1>2. UNCHANGED <<fields, heap, flags, owner, iter, pc, locals>> /\ refs' = refs
  BY <1>1 DEF vars, list
<1>3. refs' \in 0 .. MaxRefs
  BY <1>1, <1>2 DEF IndInv, TypeOK
<1>. QED  BY <1>1, <1>2, <1>3, RefInv

LEMMA NextInv ==
  ASSUME ~UnshiftOnEmpty, IndInv, [Next]_vars
  PROVE  IndInv'
<1>1. CASE New
  BY <1>1, NewInv
<1>2. CASE Ref
  <2>1. refs' \in 0 .. MaxRefs
    BY <1>2, NodesAssumption DEF Ref, IndInv, TypeOK
  <2>. QED  BY <1>2, <2>1, RefInv DEF Ref
<1>3. CASE Free
  BY <1>3, FreeInv
<1>4. CASE Pop
  BY <1>4, StillReturned, PopLastInv DEF Pop, Refuse
<1>5. CASE Shift
  BY <1>5, StillReturned, ShiftFirstInv DEF Shift, Refuse
<1>6. CASE Map
  BY <1>6, StillReturned DEF Map
<1>7. CASE Loop
  BY <1>7, RemoveHeadInv, HeadDoneInv, RestNextInv, RemoveRestInv, StillReturned
     DEF Loop, RestDone
<1>8. ASSUME NEW d \in Data, Push(d) \/ Unshift(d) \/ Renew(d) PROVE IndInv'
  BY <1>8, PushInv, UnshiftInv, RenewInv
<1>9. ASSUME NEW i \in Places, RemoveNth(i) \/ Nth(i) PROVE IndInv'
  BY <1>9, RemoveNthInv, StillReturned DEF Nth
<1>10. ASSUME NEW k \in Keys, RemoveEx(k) \/ Lookup(k) PROVE IndInv'
  <2>1. CASE RemoveEx(k)
    BY <2>1, RemoveExInv
  <2>2. CASE Lookup(k)
    BY <2>2, StillReturned DEF Lookup, Refuse
  <2>. QED  BY <1>10, <2>1, <2>2
<1>11. CASE IteratorStart
  BY <1>11, IteratorStartInv
<1>12. CASE IteratorGet
  BY <1>12, IteratorGetInv
<1>13. CASE UNCHANGED vars
  BY <1>13, StutterInv
<1>. QED
  BY <1>1, <1>2, <1>3, <1>4, <1>5, <1>6, <1>7, <1>8, <1>9, <1>10, <1>11, <1>12, <1>13 DEF Next

\* The inductive invariant, on every list that no call of n_list_unshift found
\* empty.
THEOREM Inductive == ~UnshiftOnEmpty => (Spec => []IndInv)
<1>1. SUFFICES ASSUME ~UnshiftOnEmpty PROVE Spec => []IndInv
  OBVIOUS
<1>2. IndInv /\ [Next]_vars => IndInv'
  BY <1>1, NextInv
<1>. QED  BY InitInv, <1>2, PTL DEF Spec

-----------------------------------------------------------------------------
(***************************************************************************)
(* What it implies                                                         *)
(***************************************************************************)
\* The nodes after the first k ones.
LEMMA FromFound ==
  ASSUME TypeOK, NEW q, Chained(q), NEW k \in 0 .. Len(q)
  PROVE  From(IF k = Len(q) THEN NULL ELSE q[k + 1]) = Rest(q, k)
<1>. DEFINE n == IF k = Len(q) THEN NULL ELSE q[k + 1]
<1>1. Links(Rest(q, k), n, next, live) /\ live \in SUBSET Nodes
  BY RestLinks DEF Chained, TypeOK
<1>. HIDE DEF n
<1>2. From(n) = NodesOf(ChainOf(n, next, live))
  BY DEF From, Chain, NodesOf, ChainOf
<1>3. From(n) = Rest(q, k)
  BY <1>1, <1>2, NodesFound
<1>. QED  BY <1>3 DEF n

LEMMA ChainImplied == IndInv => ChainOK
<1>1. SUFFICES ASSUME IndInv PROVE ChainOK
  OBVIOUS
<1>2. PICK q \in Seq(Nodes) : Chained(q) /\ Cursors(q)
  BY <1>1 DEF IndInv
<1>3. /\ TypeOK /\ List = q /\ Len(q) \in Nat /\ Range(List) = live
      /\ \A i \in 1 .. Len(q) : q[i] \in live /\ next[q[i]] = After(q, i)
      /\ \A i, j \in 1 .. Len(q) : q[i] = q[j] => i = j
      /\ (head = NULL <=> Len(q) = 0) /\ (Len(q) # 0 => tail = q[Len(q)])
      /\ \A c \in live : \E i \in 1 .. Len(q) : c = q[i]
  BY <1>1, <1>2, Ends DEF IndInv, Chained
<1>4. TailIsLast
  BY <1>3 DEF TailIsLast, Last
<1>5. NodesOnList
  BY <1>3 DEF NodesOnList
<1>6. CursorsOnList
  <2>1. SUFFICES ASSUME pc = "rest"
                 PROVE  /\ prev \in Range(List) /\ node = next[prev]
                        /\ \A c \in Range(List) \ Range(From(node)) : KeyOf[data[c]] # key
    BY DEF CursorsOnList
  <2>2. PICK i \in 1 .. Len(q) :
          /\ prev = q[i] /\ node = After(q, i) /\ \A j \in 1 .. i : KeyOf[data[q[j]]] # key
    BY <1>2, <2>1 DEF Cursors
  <2>3. i \in 0 .. Len(q)
    BY <1>3
  <2>4. From(node) = Rest(q, i)
    BY <1>2, <1>3, <2>2, <2>3, FromFound DEF After
  <2>5. ASSUME NEW c \in live, c \notin Range(From(node)) PROVE KeyOf[data[c]] # key
    <3>1. PICK j \in 1 .. Len(q) : c = q[j]
      BY <1>3
    <3>2. CASE j <= i
      BY <2>2, <3>1, <3>2
    <3>3. CASE ~(j <= i)
      <4>1. j - i \in 1 .. Len(q) - i /\ (j - i) + i = j
        BY <1>3, <2>2, <3>1, <3>3
      <4>2. j - i \in DOMAIN Rest(q, i) /\ Rest(q, i)[j - i] = c
        BY <3>1, <4>1 DEF Rest
      <4>. QED  BY <2>4, <2>5, <4>2 DEF Range
    <3>. QED  BY <3>2, <3>3, <2>2, <3>1
  <2>. QED  BY <1>3, <2>2, <2>5
<1>. QED  BY <1>3, <1>4, <1>5, <1>6 DEF ChainOK

LEMMA MemoryImplied == IndInv => MemoryOK
<1>1. SUFFICES ASSUME IndInv, NEW d \in Data
               PROVE  Cardinality({i \in DOMAIN Items : Items[i] = d})
                        = IF owner[d] = "list" THEN 1 ELSE 0
  BY DEF MemoryOK, OwnedOnce, IndInv
<1>2. PICK q \in Seq(Nodes) : Chained(q)
  BY <1>1 DEF IndInv
<1>3. /\ Items = [i \in 1 .. Len(q) |-> data[q[i]]] /\ Owned
      /\ \A i \in 1 .. Len(q) : q[i] \in live
      /\ \A i, j \in 1 .. Len(q) : q[i] = q[j] => i = j
      /\ \A c \in live : \E i \in 1 .. Len(q) : c = q[i]
  BY <1>1, <1>2, ListFound, Ends DEF IndInv, Chained
<1>. DEFINE P == {i \in DOMAIN Items : Items[i] = d}
<1>4. P = {i \in 1 .. Len(q) : data[q[i]] = d}
  BY <1>3
<1>5. CASE owner[d] = "list"
  <2>1. PICK i \in 1 .. Len(q) : data[q[i]] = d
    BY <1>3, <1>5 DEF Owned
  <2>2. P = {i}
    BY <1>3, <1>4, <2>1 DEF Owned
  <2>. HIDE DEF P
  <2>3. Cardinality(P) = 1
    BY <2>2, FS_Singleton
  <2>. QED  BY <1>5, <2>3 DEF P
<1>6. CASE owner[d] # "list"
  <2>1. P = {}
    BY <1>3, <1>4, <1>6 DEF Owned
  <2>. HIDE DEF P
  <2>2. Cardinality(P) = 0
    BY <2>1, FS_EmptySet
  <2>. QED  BY <1>6, <2>2 DEF P
<1>. QED  BY <1>5, <1>6

LEMMA AheadImplied == IndInv => IteratorAhead
<1>1. SUFFICES ASSUME IndInv, it # NULL
               PROVE  /\ it \in Range(List)
                      /\ {data[From(it)[i]] : i \in DOMAIN From(it)} = due \ seen
  BY DEF IteratorAhead
<1>2. PICK q \in Seq(Nodes) : Chained(q) /\ Ahead(q)
  BY <1>1 DEF IndInv
<1>3. /\ TypeOK /\ Len(q) \in Nat /\ Range(List) = live
      /\ \A i \in 1 .. Len(q) : q[i] \in live
  BY <1>1, <1>2, Ends DEF IndInv
<1>4. PICK i \in 1 .. Len(q) : it = q[i] /\ {data[q[j]] : j \in i .. Len(q)} = due \ seen
  BY <1>1, <1>2 DEF Ahead
<1>5. i - 1 \in 0 .. Len(q) /\ i - 1 # Len(q) /\ (i - 1) + 1 = i
  BY <1>3, <1>4
<1>6. From(it) = Rest(q, i - 1)
  BY <1>2, <1>3, <1>4, <1>5, FromFound
<1>. DEFINE r == Rest(q, i - 1)
            n == Len(q) - (i - 1)
<1>7. DOMAIN r = 1 .. n /\ \A j \in 1 .. n : r[j] = q[j + (i - 1)]
  BY DEF Rest
<1>. HIDE DEF r
<1>8. ASSUME NEW j \in 1 .. n PROVE data[r[j]] \in {data[q[k]] : k \in i .. Len(q)}
  <2>1. j + (i - 1) \in i .. Len(q)
    BY <1>3, <1>4
  <2>. QED  BY <1>7, <2>1
<1>9. ASSUME NEW k \in i .. Len(q) PROVE data[q[k]] \in {data[r[j]] : j \in 1 .. n}
  <2>1. k - (i - 1) \in 1 .. n /\ (k - (i - 1)) + (i - 1) = k
    BY <1>3, <1>4
  <2>2. r[k - (i - 1)] = q[k]
    BY <1>7, <2>1
  <2>. QED  BY <2>1, <2>2
<1>. HIDE DEF n
<1>10. {data[r[j]] : j \in 1 .. n} = {data[q[k]] : k \in i .. Len(q)}
  BY <1>8, <1>9
<1>11. {data[From(it)[j]] : j \in DOMAIN From(it)} = {data[r[j]] : j \in 1 .. n}
  BY <1>6, <1>7 DEF r
<1>. QED  BY <1>3, <1>4, <1>10, <1>11

\* No call follows a pointer to a node that was freed, and each data pointer
\* is on the list once as long as the list has it, never after it was freed or
\* given back: n_list_pop, n_list_shift, n_list_remove_nth, n_list_remove_ex
\* and n_list_free neither leak a datum nor give it back twice.
THEOREM MemoryIsOK == ~UnshiftOnEmpty => (Spec => []MemoryOK)
BY Inductive, MemoryImplied, PTL

\* l->tail is the last node after every removal, each allocated node is on the
\* chain, and the cursors of n_list_remove_ex stay on it.
THEOREM ChainIsOK == ~UnshiftOnEmpty => (Spec => []ChainOK)
BY Inductive, ChainImplied, PTL

\* An iterator gets what was on the list when it started or was pushed since,
\* and not what was removed.
THEOREM IteratorIsAhead == ~UnshiftOnEmpty => (Spec => []IteratorAhead)
BY Inductive, AheadImplied, PTL

-----------------------------------------------------------------------------
(***************************************************************************)
(* The chain implements the sequence of ItemSeq                            *)
(***************************************************************************)
\* The items that do not compare equal to a key.
Unequal(s, k) == {i \in DOMAIN s : KeyOf[s[i]] # k}
Keeps(s, k)   == Only(s, Unequal(s, k))

LEMMA WithoutTyped ==
  ASSUME NEW S, NEW s \in Seq(S), NEW p \in 1 .. Len(s)
  PROVE  /\ Without(s, p) \in Seq(S) /\ Len(Without(s, p)) = Len(s) - 1
         /\ \A i \in 1 .. Len(s) - 1 :
              Without(s, p)[i] = (IF i < p THEN s[i] ELSE s[i + 1])
<1>1. Len(s) \in Nat /\ Len(s) - 1 \in Nat /\ \A i \in 1 .. Len(s) : s[i] \in S
  OBVIOUS
<1>2. \A i \in 1 .. Len(s) - 1 : (IF i < p THEN s[i] ELSE s[i + 1]) \in S
  BY <1>1
<1>. QED  BY <1>1, <1>2 DEF Without

LEMMA KeepsTyped ==
  ASSUME NEW s \in Seq(Data), NEW k
  PROVE  Len(Keeps(s, k)) \in Nat
<1>1. IsFiniteSet(DOMAIN s)
  <2>1. DOMAIN s = 1 .. Len(s) /\ Len(s) \in Int
    OBVIOUS
  <2>. QED  BY <2>1, FS_Interval
<1>2. Cardinality(Unequal(s, k)) \in Nat
  <2>1. Unequal(s, k) \in SUBSET (DOMAIN s)
    BY DEF Unequal
  <2>2. IsFiniteSet(Unequal(s, k))
    BY <1>1, <2>1, FS_Subset
  <2>. QED  BY <2>2, FS_CardinalityType
<1>. QED  BY <1>2 DEF Keeps, Only

\* Nothing compares equal.
LEMMA KeepsAll ==
  ASSUME NEW s \in Seq(Data), NEW k, \A i \in DOMAIN s : KeyOf[s[i]] # k
  PROVE  Keeps(s, k) = s
<1>1. Unequal(s, k) = DOMAIN s
  BY DEF Unequal
<1>. QED  BY <1>1, OnlyAll DEF Keeps

\* What compares equal may as well have left before.
LEMMA KeepsWithout ==
  ASSUME NEW s \in Seq(Data), NEW k, NEW p \in 1 .. Len(s), KeyOf[s[p]] = k
  PROVE  Keeps(Without(s, p), k) = Keeps(s, k)
<1>. DEFINE t == Without(s, p)
            I == Unequal(s, k)
            J == Unequal(t, k)
            u == [j \in J |-> IF j < p THEN j ELSE j + 1]
<1>1. /\ t \in Seq(Data) /\ Len(t) = Len(s) - 1 /\ DOMAIN t = 1 .. Len(s) - 1
      /\ \A i \in 1 .. Len(s) - 1 : t[i] = (IF i < p THEN s[i] ELSE s[i + 1])
      /\ DOMAIN s = 1 .. Len(s) /\ Len(s) \in Nat
  <2>1. /\ t \in Seq(Data) /\ Len(t) = Len(s) - 1
        /\ \A i \in 1 .. Len(s) - 1 : t[i] = (IF i < p THEN s[i] ELSE s[i + 1])
    BY WithoutTyped
  <2>2. DOMAIN t = 1 .. Len(t) /\ DOMAIN s = 1 .. Len(s) /\ Len(s) \in Nat
    BY <2>1
  <2>. QED  BY <2>1, <2>2
<1>. HIDE DEF t
<1>2. I \in SUBSET Nat /\ J \in SUBSET Nat /\ p \notin I
  BY <1>1 DEF Unequal
<1>3. IsFiniteSet(I)
  <2>1. IsFiniteSet(1 .. Len(s))
    BY <1>1, FS_Interval
  <2>2. I \in SUBSET (1 .. Len(s))
    BY <1>1 DEF Unequal
  <2>. QED  BY <2>1, <2>2, FS_Subset
<1>4. ASSUME NEW j \in J PROVE u[j] \in I /\ t[j] = s[u[j]]
  <2>1. j \in 1 .. Len(s) - 1 /\ KeyOf[t[j]] # k
    BY <1>1 DEF Unequal
  <2>2. u[j] \in 1 .. Len(s) /\ t[j] = s[u[j]]
    BY <1>1, <2>1
  <2>. QED  BY <1>1, <2>1, <2>2 DEF Unequal
<1>5. ASSUME NEW i \in I PROVE \E j \in J : u[j] = i
  <2>1. i \in 1 .. Len(s) /\ i # p /\ KeyOf[s[i]] # k
    BY <1>1, <1>2 DEF Unequal
  <2>2. CASE i < p
    <3>1. i \in 1 .. Len(s) - 1 /\ t[i] = s[i]
      BY <1>1, <2>1, <2>2
    <3>2. i \in J
      BY <1>1, <2>1, <3>1 DEF Unequal
    <3>. QED  BY <2>2, <3>2
  <2>3. CASE ~(i < p)
    <3>1. i - 1 \in 1 .. Len(s) - 1 /\ ~(i - 1 < p) /\ (i - 1) + 1 = i
      BY <1>1, <2>1, <2>3
    <3>2. t[i - 1] = s[i]
      BY <1>1, <3>1
    <3>3. i - 1 \in J
      BY <1>1, <2>1, <3>1, <3>2 DEF Unequal
    <3>. QED  BY <3>1, <3>3
  <2>. QED  BY <2>2, <2>3
<1>6. \A i, j \in J : i <= j <=> u[i] <= u[j]
  <2>1. SUFFICES ASSUME NEW i \in J, NEW j \in J PROVE i <= j <=> u[i] <= u[j]
    OBVIOUS
  <2>2. i \in Nat /\ j \in Nat /\ p \in Nat
    BY <1>2
  <2>. QED  BY <2>2
<1>7. u \in [J -> I]
  BY <1>4
<1>8. (\A j \in J : t[j] = s[u[j]]) /\ (\A i \in I : \E j \in J : u[j] = i)
  BY <1>4, <1>5
<1>. HIDE DEF u, I, J
<1>9. Only(t, J) = Only(s, I)
  BY <1>2, <1>3, <1>6, <1>7, <1>8, Renumbered
<1>. QED  BY <1>9 DEF Keeps, t, I, J

-----------------------------------------------------------------------------
\* What the mapping shows of a state.
InLoop == pc \in {"first", "rest"}
Shown ==
  /\ Items \in Seq(Data)
  /\ ToBe = IF InLoop THEN Keeps(Items, key) ELSE Items
  /\ uniq => \A i, j \in DOMAIN Items : KeyOf[Items[i]] = KeyOf[Items[j]] => i = j
  /\ pc = "first" /\ uniq /\ removed > 0 => \A i \in DOMAIN Items : KeyOf[Items[i]] # key
  /\ pc = "rest" /\ node = NULL => \A i \in DOMAIN Items : KeyOf[Items[i]] # key
  /\ (head = NULL <=> Items = <<>>) /\ size = Len(Items)
  /\ removed \in Nat

LEMMA WhatIsShown == IndInv => Shown
<1>1. SUFFICES ASSUME IndInv PROVE Shown
  OBVIOUS
<1>2. PICK q \in Seq(Nodes) : Chained(q) /\ Cursors(q)
  BY <1>1 DEF IndInv
<1>3. /\ TypeOK /\ Owned /\ Calling
      /\ Items = [i \in 1 .. Len(q) |-> data[q[i]]] /\ Len(q) \in Nat
      /\ \A i \in 1 .. Len(q) : q[i] \in live
      /\ \A i, j \in 1 .. Len(q) : q[i] = q[j] => i = j
      /\ (head = NULL <=> Len(q) = 0) /\ size = Len(q)
  BY <1>1, <1>2, ListFound, Ends DEF IndInv
<1>4. DOMAIN Items = 1 .. Len(q) /\ \A i \in 1 .. Len(q) : Items[i] = data[q[i]] /\ Items[i] \in Data
  BY <1>3 DEF Owned
<1>5. Items \in Seq(Data) /\ Len(Items) = Len(q)
  BY <1>3, <1>4
<1>6. ToBe = IF InLoop THEN Keeps(Items, key) ELSE Items
  <2>1. CASE InLoop
    <3>1. {i \in DOMAIN Items : ~Going(Items[i])} = Unequal(Items, key)
      BY <2>1 DEF Going, Unequal, InLoop
    <3>. QED  BY <2>1, <3>1 DEF ToBe, Keeps
  <2>2. CASE ~InLoop
    <3>1. {i \in DOMAIN Items : ~Going(Items[i])} = DOMAIN Items
      BY <2>2 DEF Going, InLoop
    <3>. QED  BY <1>5, <2>2, <3>1, OnlyAll DEF ToBe
  <2>. QED  BY <2>1, <2>2
<1>7. uniq => \A i, j \in DOMAIN Items : KeyOf[Items[i]] = KeyOf[Items[j]] => i = j
  BY <1>3, <1>4 DEF Owned
<1>8. pc = "first" /\ uniq /\ removed > 0 => \A i \in DOMAIN Items : KeyOf[Items[i]] # key
  BY <1>3, <1>4 DEF Calling
<1>9. pc = "rest" /\ node = NULL => \A i \in DOMAIN Items : KeyOf[Items[i]] # key
  <2>1. SUFFICES ASSUME pc = "rest", node = NULL
                 PROVE  \A i \in DOMAIN Items : KeyOf[Items[i]] # key
    OBVIOUS
  <2>2. PICK i \in 1 .. Len(q) :
          node = After(q, i) /\ \A j \in 1 .. i : KeyOf[data[q[j]]] # key
    BY <1>2, <2>1 DEF Cursors
  <2>3. i = Len(q)
    <3>1. \A j \in 1 .. Len(q) : q[j] # NULL
      BY <1>2, <1>3, Ends
    <3>. QED  BY <1>3, <2>1, <2>2, <3>1 DEF After
  <2>. QED  BY <1>4, <2>2, <2>3
<1>10. head = NULL <=> Items = <<>>
  BY <1>3, <1>5
<1>11. removed \in Nat
  BY <1>3 DEF TypeOK
<1>. QED  BY <1>3, <1>5, <1>6, <1>7, <1>8, <1>9, <1>10, <1>11 DEF Shown

LEMMA WhatIsShownNext == IndInv' => Shown'
BY WhatIsShown, PTL

\* The list and its items are left alone.
LEMMA SameItems ==
  ASSUME UNCHANGED <<fields, heap, flags>>
  PROVE  Items' = Items /\ uniq' = uniq
BY DEF fields, heap, flags, Items, List, From, Chain

-----------------------------------------------------------------------------
\* A call that returns at once.
AtOnce == pc = "idle" /\ pc' = "idle" /\ Shown /\ Shown'

LEMMA AtOnceShown ==
  ASSUME AtOnce
  PROVE  /\ ~InLoop /\ ~InLoop' /\ ToBe = Items /\ ToBe' = Items'
         /\ Items \in Seq(Data) /\ Items' \in Seq(Data)
         /\ \A i \in DOMAIN Items : Items[i] \in Data /\ Items[i] # NULL
<1>1. ~InLoop /\ ~InLoop'
  BY DEF AtOnce, InLoop
<1>2. Items \in Seq(Data) /\ Items' \in Seq(Data) /\ ToBe = Items /\ ToBe' = Items'
  BY <1>1 DEF AtOnce, Shown
<1>3. \A i \in DOMAIN Items : Items[i] \in Data /\ Items[i] # NULL
  BY <1>2, NodesAssumption
<1>. QED  BY <1>1, <1>2, <1>3

\* Where an item compares equal to a key.
LEMMA WhereFound ==
  ASSUME AtOnce, NEW k
  PROVE  Order!Where(Items, k) = {i \in DOMAIN Items : KeyOf[Items[i]] = k}
BY AtOnceShown DEF Order!Where, Order!Has

LEMMA RejectsUnwelcome ==
  ASSUME AtOnce, NEW d \in Data
  PROVE  Order!Welcome(d) <=> ~Rejects(d)
<1>1. ToBe = Items /\ Order!Where(Items, KeyOf[d]) = {i \in DOMAIN Items : KeyOf[Items[i]] = KeyOf[d]}
  BY AtOnceShown, WhereFound
<1>2. Order!Where(ToBe, KeyOf[d]) = {} <=> ~OnList(KeyOf[d])
  BY <1>1 DEF OnList
<1>. QED  BY <1>2 DEF Order!Welcome, Order!HasRoom, Rejects

LEMMA PushRefined ==
  ASSUME AtOnce, NEW d \in Data, call' = <<"push", d>>,
         \/ Refuse /\ (Rejects(d) \/ MallocMayFail)
         \/ ~Rejects(d) /\ Items' = Append(Items, d) /\ uniq' = uniq /\ Return(Ok)
  PROVE  Order!Refuse \/ Order!Push(d)
<1>1. /\ ToBe = Items /\ ToBe' = Items' /\ ~InLoop /\ ~InLoop'
      /\ (Order!Welcome(d) <=> ~Rejects(d))
  BY AtOnceShown, RejectsUnwelcome
<1>2. CASE Refuse /\ (Rejects(d) \/ MallocMayFail)
  <2>1. Items' = Items /\ uniq' = uniq /\ res' = Refused
    BY <1>2, SameItems DEF Refuse, Return, list
  <2>2. Order!Looks("push", d)
    BY <1>1, <2>1 DEF Order!Looks, Order!Called
  <2>. QED
    BY <1>1, <1>2, <2>1, <2>2 DEF Order!Refuse, InLoop, Refused, Order!Refused, Val, Order!Val
<1>3. CASE ~Rejects(d) /\ Items' = Append(Items, d) /\ uniq' = uniq /\ Return(Ok)
  BY <1>1, <1>3 DEF Order!Push, Order!Writes, Order!Called, Return, Ok, Order!Ok, InLoop
<1>. QED  BY <1>2, <1>3

LEMMA UnshiftRefined ==
  ASSUME AtOnce, NEW d \in Data, call' = <<"unshift", d>>,
         \/ Refuse /\ (Rejects(d) \/ MallocMayFail)
         \/ ~Rejects(d) /\ Items' = <<d>> \o Items /\ uniq' = uniq /\ Return(Ok)
  PROVE  Order!Refuse \/ Order!Unshift(d)
<1>1. /\ ToBe = Items /\ ToBe' = Items' /\ ~InLoop /\ ~InLoop'
      /\ (Order!Welcome(d) <=> ~Rejects(d))
  BY AtOnceShown, RejectsUnwelcome
<1>2. CASE Refuse /\ (Rejects(d) \/ MallocMayFail)
  <2>1. Items' = Items /\ uniq' = uniq /\ res' = Refused
    BY <1>2, SameItems DEF Refuse, Return, list
  <2>2. Order!Looks("unshift", d)
    BY <1>1, <2>1 DEF Order!Looks, Order!Called
  <2>. QED
    BY <1>1, <1>2, <2>1, <2>2 DEF Order!Refuse, InLoop, Refused, Order!Refused, Val, Order!Val
<1>3. CASE ~Rejects(d) /\ Items' = <<d>> \o Items /\ uniq' = uniq /\ Return(Ok)
  BY <1>1, <1>3 DEF Order!Unshift, Order!Writes, Order!Called, Return, Ok, Order!Ok, InLoop
<1>. QED  BY <1>2, <1>3

\* The ends of a sequence, and its p-th item, are taken in the same way.
LEMMA TakenOut ==
  ASSUME NEW s \in Seq(Data), s # <<>>
  PROVE  /\ Len(s) \in 1 .. Len(s) /\ 1 \in 1 .. Len(s)
         /\ Front(s) = Without(s, Len(s)) /\ Last(s) = s[Len(s)]
         /\ Tail(s) = Without(s, 1) /\ Head(s) = s[1]
         /\ \A p \in 1 .. Len(s) : RemoveAt(s, p) = Without(s, p)
<1>1. Len(s) \in Nat /\ Len(s) # 0
  OBVIOUS
<1>2. Front(s) = Without(s, Len(s)) /\ Last(s) = s[Len(s)]
  <2>1. Front(s) = [i \in 1 .. Len(s) - 1 |-> s[i]]
    BY <1>1 DEF Front
  <2>2. \A i \in 1 .. Len(s) - 1 : (IF i < Len(s) THEN s[i] ELSE s[i + 1]) = s[i]
    BY <1>1
  <2>. QED  BY <2>1, <2>2 DEF Without, Last
<1>3. Tail(s) = Without(s, 1) /\ Head(s) = s[1]
  <2>. DEFINE t == Tail(s)
              w == Without(s, 1)
  <2>1. t \in Seq(Data) /\ Len(t) = Len(s) - 1 /\ \A i \in 1 .. Len(t) : t[i] = s[i + 1]
    BY HeadTailProperties
  <2>2. /\ w \in Seq(Data) /\ Len(w) = Len(s) - 1
        /\ \A i \in 1 .. Len(s) - 1 : w[i] = (IF i < 1 THEN s[i] ELSE s[i + 1])
    BY <1>1, WithoutTyped
  <2>. HIDE DEF t, w
  <2>3. \A i \in 1 .. Len(t) : t[i] = w[i]
    BY <1>1, <2>1, <2>2
  <2>4. t = w
    BY <2>1, <2>2, <2>3, SeqEqual
  <2>. QED  BY <1>1, <2>4 DEF t, w
<1>4. ASSUME NEW p \in 1 .. Len(s) PROVE RemoveAt(s, p) = Without(s, p)
  <2>. DEFINE a == SubSeq(s, 1, p - 1)
              b == SubSeq(s, p + 1, Len(s))
              c == a \o b
              w == Without(s, p)
  <2>1. a \in Seq(Data) /\ Len(a) = p - 1 /\ \A i \in 1 .. p - 1 : a[i] = s[i]
    BY <1>1
  <2>2. b \in Seq(Data) /\ Len(b) = Len(s) - p /\ \A i \in 1 .. Len(s) - p : b[i] = s[p + i]
    BY <1>1
  <2>. HIDE DEF a, b
  <2>3. /\ c \in Seq(Data) /\ Len(c) = Len(a) + Len(b)
        /\ \A i \in 1 .. Len(a) + Len(b) : c[i] = IF i <= Len(a) THEN a[i] ELSE b[i - Len(a)]
    BY <2>1, <2>2, ConcatProperties
  <2>4. /\ w \in Seq(Data) /\ Len(w) = Len(s) - 1
        /\ \A i \in 1 .. Len(s) - 1 : w[i] = (IF i < p THEN s[i] ELSE s[i + 1])
    BY WithoutTyped
  <2>. HIDE DEF c, w
  <2>5. Len(c) = Len(s) - 1 /\ Len(a) + Len(b) = Len(s) - 1
    BY <1>1, <2>1, <2>2, <2>3
  <2>6. ASSUME NEW i \in 1 .. Len(c) PROVE c[i] = w[i]
    <3>1. i \in 1 .. Len(a) + Len(b) /\ i \in 1 .. Len(s) - 1
      BY <2>5
    <3>2. CASE i < p
      BY <1>1, <2>1, <2>3, <2>4, <3>1, <3>2
    <3>3. CASE ~(i < p)
      <4>1. ~(i <= Len(a)) /\ i - Len(a) \in 1 .. Len(s) - p /\ p + (i - Len(a)) = i + 1
        BY <1>1, <2>1, <3>1, <3>3
      <4>. QED  BY <2>2, <2>3, <2>4, <3>1, <3>3, <4>1
    <3>. QED  BY <3>2, <3>3
  <2>7. c = w
    BY <2>3, <2>4, <2>5, <2>6, SeqEqual
  <2>. QED  BY <2>7 DEF RemoveAt, a, b, c, w
<1>. QED  BY <1>1, <1>2, <1>3, <1>4

\* A call that is refused, and asks for nothing the list has.
LEMMA RefuseRefined ==
  ASSUME AtOnce, Refuse
  PROVE  /\ ToBe' = ToBe /\ Items' = Items /\ uniq' = uniq
         /\ ~InLoop /\ ~InLoop' /\ ToBe = Items /\ res' = Order!Refused
BY AtOnceShown, SameItems DEF Refuse, Return, list, Refused, Val, Order!Refused, Order!Val

LEMMA PopRefined ==
  ASSUME AtOnce, call' = <<"pop", NULL>>,
         (head = NULL /\ Refuse) \/ (head # NULL /\ Took(Len(Items)))
  PROVE  Order!Refuse \/ Order!Pop
<1>1. /\ ToBe = Items /\ ToBe' = Items' /\ ~InLoop /\ ~InLoop' /\ Items \in Seq(Data)
      /\ (head = NULL <=> Items = <<>>)
  BY AtOnceShown DEF AtOnce, Shown
<1>2. CASE head = NULL /\ Refuse
  BY <1>1, <1>2, RefuseRefined DEF Order!Refuse, Order!Looks, Order!Called, InLoop
<1>3. CASE head # NULL /\ Took(Len(Items))
  <2>1. Items' = Order!Front(Items) /\ res' = Order!Val(Order!Last(Items)) /\ uniq' = uniq
    BY <1>1, <1>3, TakenOut
       DEF Took, Return, Order!Front, Front, Order!Last, Last, Val, Order!Val
  <2>. QED  BY <1>1, <1>3, <2>1 DEF Order!Pop, Order!Writes, Order!Called, InLoop
<1>. QED  BY <1>2, <1>3

LEMMA ShiftRefined ==
  ASSUME AtOnce, call' = <<"shift", NULL>>,
         (head = NULL /\ Refuse) \/ (head # NULL /\ Took(1))
  PROVE  Order!Refuse \/ Order!Shift
<1>1. /\ ToBe = Items /\ ToBe' = Items' /\ ~InLoop /\ ~InLoop' /\ Items \in Seq(Data)
      /\ (head = NULL <=> Items = <<>>)
  BY AtOnceShown DEF AtOnce, Shown
<1>2. CASE head = NULL /\ Refuse
  BY <1>1, <1>2, RefuseRefined DEF Order!Refuse, Order!Looks, Order!Called, InLoop
<1>3. CASE head # NULL /\ Took(1)
  <2>1. Items' = Tail(Items) /\ res' = Order!Val(Head(Items)) /\ uniq' = uniq
    BY <1>1, <1>3, TakenOut DEF Took, Return, Val, Order!Val
  <2>. QED  BY <1>1, <1>3, <2>1 DEF Order!Shift, Order!Writes, Order!Called, InLoop
<1>. QED  BY <1>2, <1>3

LEMMA RemoveNthRefined ==
  ASSUME AtOnce, NEW i \in Places, call' = <<"remove_nth", i>>,
         (Refuse /\ ~InBounds(i)) \/ Took(i + 1)
  PROVE  Order!Refuse \/ Order!RemoveNth(i)
<1>1. /\ ToBe = Items /\ ToBe' = Items' /\ ~InLoop /\ ~InLoop' /\ Items \in Seq(Data)
      /\ (head = NULL <=> Items = <<>>) /\ size = Len(Items) /\ i \in Nat
  BY AtOnceShown, NodesAssumption DEF AtOnce, Shown
<1>2. CASE Refuse /\ ~InBounds(i)
  <2>1. i >= Len(Items)
    BY <1>1, <1>2 DEF InBounds
  <2>. QED
    BY <1>1, <1>2, <2>1, RefuseRefined DEF Order!Refuse, Order!Looks, Order!Called, InLoop
<1>3. CASE Took(i + 1)
  <2>1. i + 1 \in 1 .. Len(Items) /\ i < Len(Items) /\ Items # <<>>
    BY <1>1, <1>3 DEF Took
  <2>2. Items' = Order!RemoveAt(Items, i + 1) /\ res' = Order!Val(Items[i + 1]) /\ uniq' = uniq
    BY <1>1, <1>3, <2>1, TakenOut
       DEF Took, Return, Order!RemoveAt, RemoveAt, Val, Order!Val
  <2>. QED  BY <1>1, <1>3, <2>1, <2>2 DEF Order!RemoveNth, Order!Writes, Order!Called, InLoop
<1>. QED  BY <1>2, <1>3

LEMMA NthRefined ==
  ASSUME AtOnce, NEW i \in Places, Nth(i)
  PROVE  Order!Refuse \/ Order!Nth(i)
<1>1. /\ ToBe = Items /\ ToBe' = Items' /\ ~InLoop /\ ~InLoop' /\ Items \in Seq(Data) /\ i \in Nat
      /\ Items' = Items /\ uniq' = uniq /\ call' = <<"nth", i>>
      /\ res' = IF i < Len(Items) THEN Val(Items[i + 1]) ELSE Refused
  BY AtOnceShown, NodesAssumption, SameItems DEF Nth, Called, Return, list
<1>2. Order!Looks("nth", i)
  BY <1>1 DEF Order!Looks, Order!Called
<1>3. CASE i < Len(Items)
  BY <1>1, <1>2, <1>3 DEF Order!Nth, InLoop, Val, Order!Val
<1>4. CASE ~(i < Len(Items))
  <2>1. i >= Len(Items)
    BY <1>1, <1>4
  <2>. QED
    BY <1>1, <1>2, <1>4, <2>1
       DEF Order!Refuse, InLoop, Val, Order!Val, Refused, Order!Refused
<1>. QED  BY <1>3, <1>4

LEMMA MapRefined ==
  ASSUME AtOnce, Map
  PROVE  Order!Map
<1>1. /\ ToBe = Items /\ ToBe' = Items' /\ ~InLoop /\ ~InLoop'
      /\ Items' = Items /\ uniq' = uniq /\ call' = <<"map", NULL>> /\ res' = <<"row", Items>>
  BY AtOnceShown, SameItems DEF Map, Called, Return, list
<1>. QED  BY <1>1 DEF Order!Map, Order!Looks, Order!Called, InLoop

LEMMA LookupRefined ==
  ASSUME AtOnce, NEW k \in Keys, Lookup(k)
  PROVE  Order!Lookup(k)
<1>1. /\ ToBe = Items /\ ToBe' = Items' /\ ~InLoop /\ ~InLoop' /\ call' = <<"lookup", k>>
      /\ Order!Where(Items, k) = {i \in DOMAIN Items : KeyOf[Items[i]] = k}
      /\ Items' = Items /\ uniq' = uniq
  BY AtOnceShown, WhereFound, SameItems DEF Lookup, Called, Refuse, list
<1>2. Order!Finds("lookup", k)
  BY <1>1 DEF Order!Finds, Order!Called
<1>3. \/ Order!Where(Items, k) = {} /\ res' = Order!Refused
      \/ \E i \in Order!Where(Items, k) : res' = Order!Val(Items[i])
  <2>1. CASE ~OnList(k) /\ Refuse
    BY <1>1, <2>1, RefuseRefined DEF OnList
  <2>2. CASE \E i \in DOMAIN Items : KeyOf[Items[i]] = k /\ Return(Val(Items[i]))
    BY <1>1, <2>2 DEF Return, Val, Order!Val
  <2>. QED  BY <2>1, <2>2 DEF Lookup
<1>. QED  BY <1>1, <1>2, <1>3 DEF Order!Lookup, InLoop

-----------------------------------------------------------------------------
LEMMA SameOnly ==
  ASSUME NEW s, NEW I
  PROVE  Order!Only(s, I) = Only(s, I)
BY DEF Order!Only, Order!RankIn, Order!Cardinality, Only, RankIn, Cardinality

\* n_list_remove_ex has its effect when it is called: the loops only bring
\* the chain there.
LEMMA RemoveExRefined ==
  ASSUME Shown, Shown', NEW k \in Keys, RemoveEx(k)
  PROVE  Order!RemoveEx(k)
<1>1. /\ pc = "idle" /\ ~InLoop /\ ToBe = Items /\ Items \in Seq(Data)
      /\ UNCHANGED <<list, iter>> /\ call' = <<"remove_ex", k>>
  BY DEF RemoveEx, Called, InLoop, Shown
<1>2. Items' = Items /\ uniq' = uniq
  BY <1>1, SameItems DEF list
<1>3. DOMAIN Items \ Order!Where(Items, k) = Unequal(Items, k)
  <2>1. \A i \in DOMAIN Items : Items[i] # NULL
    BY <1>1, NodesAssumption
  <2>. QED  BY <2>1 DEF Order!Where, Order!Has, Unequal
<1>4. Order!Only(Items, DOMAIN Items \ Order!Where(Items, k)) = Keeps(Items, k)
  BY <1>3, SameOnly DEF Keeps
<1>5. CASE head = NULL /\ Return(Count(0))
  <2>1. Items = <<>>
    BY <1>5 DEF Shown
  <2>2. Keeps(Items, k) = Items
    <3>1. DOMAIN Items = {}
      BY <1>1, <2>1
    <3>. QED  BY <1>1, <3>1, KeepsAll
  <2>3. ToBe' = Items' /\ ~InLoop'
    BY <1>5 DEF Return, InLoop, Shown
  <2>4. res' = Order!Count(Len(Items) - Len(Items))
    <3>1. Len(Items) - Len(Items) = 0
      BY <1>1
    <3>. QED  BY <1>5, <3>1 DEF Return, Count, Order!Count
  <2>. QED
    BY <1>1, <1>2, <1>4, <2>2, <2>3, <2>4 DEF Order!RemoveEx, Order!Writes, Order!Called, InLoop
<1>6. CASE key' = k /\ removed' = 0 /\ pc' = "first"
  <2>1. InLoop' /\ ToBe' = Keeps(Items, k)
    BY <1>2, <1>6 DEF InLoop, Shown
  <2>2. Len(Items) \in Nat /\ Len(Keeps(Items, k)) \in Nat
    BY <1>1, KeepsTyped
  <2>3. Count(removed' + Len(Items') - Len(ToBe')) = Order!Count(Len(Items) - Len(ToBe'))
    BY <1>2, <1>6, <2>1, <2>2 DEF Count, Order!Count
  <2>. QED
    BY <1>1, <1>2, <1>4, <2>1, <2>3 DEF Order!RemoveEx, Order!Writes, Order!Called, InLoop
<1>. QED  BY <1>5, <1>6 DEF RemoveEx

\* A step that only moves the cursors.
LEMMA CursorStep ==
  ASSUME Shown, Shown', InLoop, InLoop', UNCHANGED <<list, iter, call, key, removed>>
  PROVE  UNCHANGED Order!vars
<1>1. Items' = Items /\ uniq' = uniq
  BY SameItems DEF list
<1>2. ToBe' = ToBe
  BY <1>1 DEF Shown
<1>. QED  BY <1>1, <1>2 DEF Order!vars, InLoop

\* A step that takes out an item which was leaving already.
LEMMA LeavingStep ==
  ASSUME Shown, Shown', InLoop, NEW p \in 1 .. Len(Items), Items' = Without(Items, p),
         KeyOf[Items[p]] = key, uniq' = uniq, call' = call,
         \/ InLoop' /\ key' = key /\ removed' = removed + 1
         \/ uniq /\ Return(Count(removed + 1))
  PROVE  UNCHANGED Order!vars
<1>1. /\ Items \in Seq(Data) /\ Items' \in Seq(Data) /\ ToBe = Keeps(Items, key)
      /\ Len(Items') = Len(Items) - 1 /\ removed \in Nat /\ Len(Items) \in Nat
      /\ Keeps(Items', key) = ToBe /\ Len(ToBe) \in Nat
  <2>1. /\ Items \in Seq(Data) /\ Items' \in Seq(Data) /\ ToBe = Keeps(Items, key)
        /\ removed \in Nat
    BY DEF Shown
  <2>2. Len(Items') = Len(Items) - 1 /\ Len(Items) \in Nat
    BY <2>1, WithoutTyped
  <2>3. Keeps(Items', key) = ToBe
    BY <2>1, KeepsWithout
  <2>4. Len(ToBe) \in Nat
    BY <2>1, KeepsTyped
  <2>. QED  BY <2>1, <2>2, <2>3, <2>4
<1>2. CASE InLoop' /\ key' = key /\ removed' = removed + 1
  <2>1. ToBe' = ToBe
    BY <1>1, <1>2 DEF Shown
  <2>2. removed' + Len(Items') - Len(ToBe') = removed + Len(Items) - Len(ToBe)
    BY <1>1, <1>2, <2>1
  <2>. QED  BY <1>2, <2>1, <2>2 DEF Order!vars, InLoop
<1>3. CASE uniq /\ Return(Count(removed + 1))
  <2>1. ~InLoop' /\ ToBe' = Items'
    BY <1>3 DEF Return, InLoop, Shown
  <2>2. \A i \in DOMAIN Items' : KeyOf[Items'[i]] # key
    <3>1. SUFFICES ASSUME NEW i \in DOMAIN Items' PROVE KeyOf[Items'[i]] # key
      OBVIOUS
    <3>2. i \in 1 .. Len(Items) - 1
      BY <1>1
    <3>3. \A j \in DOMAIN Items : j # p => KeyOf[Items[j]] # key
      BY <1>1, <1>3 DEF Shown
    <3>4. i # p => i \in DOMAIN Items
      BY <1>1, <3>2
    <3>5. i + 1 \in DOMAIN Items /\ i \in DOMAIN Items
      BY <1>1, <3>2
    <3>6. Items'[i] = IF i < p THEN Items[i] ELSE Items[i + 1]
      BY <3>2 DEF Without
    <3>. QED  BY <3>2, <3>3, <3>5, <3>6
  <2>3. ToBe' = ToBe
    BY <1>1, <2>1, <2>2, KeepsAll
  <2>4. removed + Len(Items) - Len(ToBe) = removed + 1
    BY <1>1, <2>1, <2>3
  <2>. QED  BY <1>3, <2>1, <2>3, <2>4 DEF Order!vars, InLoop, Return
<1>. QED  BY <1>2, <1>3

\* A call that returns when nothing is left to take out.
LEMMA DoneStep ==
  ASSUME Shown, Shown', InLoop, \A i \in DOMAIN Items : KeyOf[Items[i]] # key,
         Return(Count(removed)), UNCHANGED <<list, iter, call>>
  PROVE  UNCHANGED Order!vars
<1>1. Items' = Items /\ uniq' = uniq /\ Items \in Seq(Data) /\ Len(Items) \in Nat
  BY SameItems DEF list, Shown
<1>2. ToBe = Items /\ ToBe' = Items' /\ ~InLoop'
  BY <1>1, KeepsAll DEF Shown, Return, InLoop
<1>3. removed + Len(Items) - Len(ToBe) = removed
  BY <1>1, <1>2 DEF Shown
<1>. QED  BY <1>1, <1>2, <1>3 DEF Order!vars, Return, InLoop

LEMMA LoopRefined ==
  ASSUME IndInv, Loop, Shown, Shown'
  PROVE  UNCHANGED Order!vars
<1>1. CASE RemoveHead
  <2>1. /\ uniq' = uniq
        /\ 1 \in 1 .. Len(Items) /\ Items' = Without(Items, 1) /\ KeyOf[Items[1]] = key
    BY <1>1, RemoveHeadInv
  <2>2. InLoop /\ InLoop' /\ key' = key /\ removed' = removed + 1 /\ call' = call
    BY <1>1 DEF RemoveHead, InLoop
  <2>. QED  BY <2>1, <2>2, LeavingStep
<1>2. CASE HeadDone
  <2>1. InLoop /\ pc = "first" /\ UNCHANGED <<list, iter, call>> /\ ~Matches(head)
    BY <1>2 DEF HeadDone, InLoop
  <2>2. CASE head = NULL /\ Return(Count(removed))
    <3>1. Items = <<>>
      BY <2>2 DEF Shown
    <3>. QED  BY <2>1, <2>2, <3>1, DoneStep
  <2>3. CASE OneAtMost /\ Return(Count(removed))
    <3>1. \A i \in DOMAIN Items : KeyOf[Items[i]] # key
      BY <2>1, <2>3 DEF OneAtMost, Shown
    <3>. QED  BY <2>1, <2>3, <3>1, DoneStep
  <2>4. CASE pc' = "rest" /\ UNCHANGED <<res, key, removed>>
    BY <2>1, <2>4, CursorStep DEF InLoop
  <2>. QED  BY <1>2, <2>2, <2>3, <2>4 DEF HeadDone
<1>3. CASE RestNext
  BY <1>3, CursorStep DEF RestNext, InLoop
<1>4. CASE RemoveRest
  <2>1. PICK p \in 1 .. Len(Items) : Items' = Without(Items, p) /\ KeyOf[Items[p]] = key
    BY <1>4, RemoveRestInv
  <2>2. InLoop /\ call' = call /\ uniq' = uniq
    BY <1>4 DEF RemoveRest, InLoop, Dealloc, flags
  <2>3. \/ InLoop' /\ key' = key /\ removed' = removed + 1
        \/ uniq /\ Return(Count(removed + 1))
    BY <1>4 DEF RemoveRest, InLoop
  <2>. QED  BY <2>1, <2>2, <2>3, LeavingStep
<1>5. CASE RestDone
  <2>1. InLoop /\ UNCHANGED <<list, iter, call>> /\ Return(Count(removed))
    BY <1>5 DEF RestDone, InLoop
  <2>2. \A i \in DOMAIN Items : KeyOf[Items[i]] # key
    BY <1>5 DEF RestDone, Shown
  <2>. QED  BY <2>1, <2>2, DoneStep
<1>. QED  BY <1>1, <1>2, <1>3, <1>4, <1>5 DEF Loop

LEMMA InitRefined == Init /\ Shown => Order!Init
<1>1. SUFFICES ASSUME Init, Shown PROVE Order!Init
  OBVIOUS
<1>2. /\ pc = "none" /\ head = NULL /\ call = <<"new">> /\ res = Ok /\ ~InLoop
  BY <1>1 DEF Init, InLoop
<1>3. uniq \in BOOLEAN
  BY <1>1, Zenon DEF Init
<1>4. ToBe = <<>>
  BY <1>1, <1>2 DEF Shown
<1>. QED  BY <1>2, <1>3, <1>4 DEF Order!Init, InLoop, Ok, Order!Ok

LEMMA NewRefined ==
  ASSUME IndInv, New, Shown, Shown'
  PROVE  Order!New
<1>1. pc = "none" /\ pc' = "idle" /\ res' = Ok /\ call' = <<"new">> /\ ~InLoop /\ ~InLoop'
  BY DEF New, Return, InLoop
<1>2. uniq' \in BOOLEAN
  BY Zenon DEF New
<1>3. ToBe = <<>> /\ ToBe' = <<>>
  BY <1>1, NewInv DEF Shown
<1>. QED  BY <1>1, <1>2, <1>3 DEF Order!New, InLoop, Ok, Order!Ok

\* A step outside the calls that leaves the items alone.
LEMMA QuietStep ==
  ASSUME Shown, Shown', UNCHANGED <<fields, heap, flags, call, res, pc, key, removed>>
  PROVE  UNCHANGED Order!vars
<1>1. Items' = Items /\ uniq' = uniq
  BY SameItems
<1>2. ToBe' = ToBe
  BY <1>1 DEF Shown, InLoop
<1>. QED  BY <1>1, <1>2 DEF Order!vars

LEMMA FreeRefined ==
  ASSUME IndInv, Free, Shown, Shown'
  PROVE  Order!Free \/ UNCHANGED Order!vars
<1>1. CASE ~LastRef
  BY <1>1, QuietStep DEF Free, locals
<1>2. CASE LastRef
  <2>1. pc' = "none" /\ UNCHANGED <<flags, call, res>> /\ pc = "idle" /\ ~InLoop /\ ~InLoop'
    BY <1>2 DEF Free, InLoop
  <2>2. ToBe' = <<>>
    BY <1>2, <2>1, FreeInv DEF Shown
  <2>. QED  BY <2>1, <2>2 DEF Order!Free, InLoop, flags
<1>. QED  BY <1>1, <1>2

LEMMA StepRefined ==
  ASSUME ~UnshiftOnEmpty, IndInv, [Next]_vars
  PROVE  [Order!Next]_(Order!vars)
<1>1. IndInv' /\ Shown /\ Shown'
  BY NextInv, WhatIsShown, WhatIsShownNext
<1>2. CASE New
  BY <1>1, <1>2, NewRefined DEF Order!Next
<1>3. CASE Ref
  BY <1>1, <1>3, QuietStep DEF Ref, locals
<1>4. CASE Free
  BY <1>1, <1>4, FreeRefined DEF Order!Next
<1>5. CASE Pop
  <2>1. (head = NULL /\ Refuse) \/ (head # NULL /\ Took(Len(Items)))
    BY <1>5, PopLastInv DEF Pop
  <2>2. AtOnce /\ call' = <<"pop", NULL>>
    BY <1>1, <1>5, <2>1 DEF Pop, Called, AtOnce, Refuse, Took, Return
  <2>. QED  BY <2>1, <2>2, PopRefined DEF Order!Next
<1>6. CASE Shift
  <2>1. (head = NULL /\ Refuse) \/ (head # NULL /\ Took(1))
    BY <1>6, ShiftFirstInv DEF Shift
  <2>2. AtOnce /\ call' = <<"shift", NULL>>
    BY <1>1, <1>6, <2>1 DEF Shift, Called, AtOnce, Refuse, Took, Return
  <2>. QED  BY <2>1, <2>2, ShiftRefined DEF Order!Next
<1>7. CASE Map
  <2>1. AtOnce
    BY <1>1, <1>7 DEF Map, Called, AtOnce, Return
  <2>. QED  BY <1>7, <2>1, MapRefined DEF Order!Next
<1>8. CASE Loop
  BY <1>1, <1>8, LoopRefined
<1>9. ASSUME NEW d \in Data, Push(d) PROVE Order!Next
  <2>1. \/ Refuse /\ (Rejects(d) \/ MallocMayFail)
        \/ ~Rejects(d) /\ Items' = Append(Items, d) /\ uniq' = uniq /\ Return(Ok)
    BY <1>9, PushInv
  <2>2. AtOnce /\ call' = <<"push", d>>
    BY <1>1, <1>9, <2>1 DEF Push, Called, AtOnce, Refuse, Return
  <2>. QED  BY <2>1, <2>2, PushRefined DEF Order!Next
<1>10. ASSUME NEW d \in Data, Unshift(d) PROVE Order!Next
  <2>1. \/ Refuse /\ (Rejects(d) \/ MallocMayFail)
        \/ ~Rejects(d) /\ Items' = <<d>> \o Items /\ uniq' = uniq /\ Return(Ok)
    BY <1>10, UnshiftInv
  <2>2. AtOnce /\ call' = <<"unshift", d>>
    BY <1>1, <1>10, <2>1 DEF Unshift, Called, AtOnce, Refuse, Return
  <2>. QED  BY <2>1, <2>2, UnshiftRefined DEF Order!Next
<1>11. ASSUME NEW d \in Data, Renew(d) PROVE UNCHANGED Order!vars
  BY <1>1, <1>11, QuietStep DEF Renew, locals
<1>12. ASSUME NEW i \in Places, RemoveNth(i) PROVE Order!Next
  <2>1. (Refuse /\ ~InBounds(i)) \/ Took(i + 1)
    BY <1>12, RemoveNthInv
  <2>2. AtOnce /\ call' = <<"remove_nth", i>>
    BY <1>1, <1>12, <2>1 DEF RemoveNth, Called, AtOnce, Refuse, Took, Return
  <2>. QED  BY <2>1, <2>2, RemoveNthRefined DEF Order!Next
<1>13. ASSUME NEW i \in Places, Nth(i) PROVE Order!Next
  <2>1. AtOnce
    BY <1>1, <1>13 DEF Nth, Called, AtOnce, Return
  <2>. QED  BY <1>13, <2>1, NthRefined DEF Order!Next
<1>14. ASSUME NEW k \in Keys, RemoveEx(k) PROVE Order!Next
  <2>1. k \in Order!Keys
    BY DEF Keys, Order!Keys
  <2>. QED  BY <1>1, <1>14, <2>1, RemoveExRefined DEF Order!Next
<1>15. ASSUME NEW k \in Keys, Lookup(k) PROVE Order!Next
  <2>1. AtOnce
    BY <1>1, <1>15 DEF Lookup, Called, AtOnce, Return, Refuse
  <2>2. k \in Order!Keys
    BY DEF Keys, Order!Keys
  <2>. QED  BY <1>15, <2>1, <2>2, LookupRefined DEF Order!Next
<1>16. CASE IteratorStart \/ IteratorGet
  BY <1>1, <1>16, QuietStep DEF IteratorStart, IteratorGet, list, locals
<1>17. CASE UNCHANGED vars
  BY <1>1, <1>17, QuietStep DEF vars, list, locals
<1>. QED
  BY <1>2, <1>3, <1>4, <1>5, <1>6, <1>7, <1>8, <1>9, <1>10, <1>11, <1>12, <1>13, <1>14,
     <1>15, <1>16, <1>17
  DEF Next

\* Whatever n_list_*.c does to nodes and links, its callers see a sequence:
\* each call does to the items what ItemSeq says, and answers accordingly.
THEOREM ImplementsASequence == ~UnshiftOnEmpty => (Spec => IsASequence)
<1>1. SUFFICES ASSUME ~UnshiftOnEmpty PROVE Spec => IsASequence
  OBVIOUS
<1>2. Init => Order!Init
  BY InitInv, InitRefined, WhatIsShown
<1>3. IndInv /\ [Next]_vars => [Order!Next]_(Order!vars)
  BY <1>1, StepRefined
<1>4. Spec => []IndInv
  BY <1>1, Inductive
<1>. QED  BY <1>2, <1>3, <1>4, PTL DEF Spec, IsASequence, Order!Spec
=============================================================================
