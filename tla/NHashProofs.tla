----------------------------- MODULE NHashProofs -----------------------------
(***************************************************************************)
(* Proofs about NHash, for callers that avoid what Misuse names: every     *)
(* bucket is where a lookup finds it, no key and no datum is in two of     *)
(* them, none is lost while the table grows or is copied, an iterator sees *)
(* every key once, and every answer is that of a map.                      *)
(*                                                                         *)
(* The argument looks at a table in two ways: as the places it has, which  *)
(* are counted, and as the set of the buckets in those places, which is    *)
(* what a step that moves a bucket leaves alone.                           *)
(***************************************************************************)
EXTENDS NHash, FiniteSetTheorems, SequenceTheorems, WellFoundedInduction, TLAPS

B(t, p)    == t[p[1]][p[2]]
Buckets(t) == {B(t, p) : p \in In(t)}
Stored     == Buckets(table) \cup Buckets(old)

Injective(t)   == \A p, q \in In(t) : B(t, p).key = B(t, q).key => p = q
OnePerKey(S)   == \A a, b \in S : a.key = b.key => a = b
OnePerDatum(S) == \A a, b \in S : a.val = b.val /\ a.val # NULL => a = b

Keyed ==
  /\ Injective(table) /\ Injective(old)
  /\ OnePerKey(Stored) /\ Buckets(table) \cap Buckets(old) = {}

Owned ==
  /\ OnePerDatum(Stored)
  /\ \A d \in Data : owner[d] = "table" <=> \E b \in Stored : b.val = d

Finite == IsFiniteSet(In(table)) /\ IsFiniteSet(In(old))

StoreInv == InItsSlots /\ Keyed /\ ItemsCounted /\ Finite

PutPending == pc \in {"call", "rehash", "put"} /\ req.op = "put"

Calling ==
  /\ pc # "dead" /\ ~na
  /\ pc = "dup" => req = NoCall
  /\ pc = "call" => req \in Calls
  /\ pc \in {"rehash", "put"} => req \in Calls /\ req.op = "put"
  /\ pc \in {"idle", "call", "put"} => old = NoChains
  /\ pc \in {"call", "put"} => khash \in {0, Home(size, req.key)}
  /\ pc \in {"idle", "dup"} => khash = 0
  /\ pc = "call" /\ req.op = "put" /\ AtLimit => 4 * size <= MaxSize
  /\ PutPending =>
       /\ req.arg # NULL => owner[req.arg] = "caller"
       /\ norepl => \A b \in Stored : b.key # req.key
  /\ pc = "dup" /\ grows => size - (items + Cardinality(In(old)) - 1) > size \div 3

Gone(s, n) == {B(table, p).key : p \in {p \in In(table) : p[1] < s \/ (p[1] = s /\ p[2] <= n)}}
Ahead ==
  it # NoIt =>
    /\ pc \in {"idle", "call", "put"}
    /\ seen = Gone(ItSlot, it.bpos)
    /\ IF ItSlot = size THEN it.bpos = 0 ELSE it.bpos < Len(table[ItSlot])

IndInv == TypeOK /\ StoreInv /\ Owned /\ Calling /\ Ahead

-----------------------------------------------------------------------------
(***************************************************************************)
(* Places and buckets                                                      *)
(***************************************************************************)
ChainsOf(S) == [S -> Seq(Bucket)]

LEMMA IsPlace ==
  ASSUME NEW S, NEW t \in ChainsOf(S), NEW i \in S, NEW j \in 1 .. Len(t[i])
  PROVE  <<i, j>> \in In(t) /\ B(t, <<i, j>>) = t[i][j]
<1>1. DOMAIN t = S
  BY DEF ChainsOf
<1>2. <<i, j>> \in {i} \X (1 .. Len(t[i]))
  OBVIOUS
<1>. QED  BY <1>1, <1>2 DEF In, B

LEMMA PlaceIs ==
  ASSUME NEW S, NEW t \in ChainsOf(S), NEW p \in In(t)
  PROVE  /\ p = <<p[1], p[2]>> /\ p[1] \in S /\ p[2] \in 1 .. Len(t[p[1]])
         /\ Len(t[p[1]]) \in Nat
         /\ B(t, p) = t[p[1]][p[2]] /\ B(t, p) \in Bucket
<1>1. DOMAIN t = S /\ \A i \in S : t[i] \in Seq(Bucket) /\ Len(t[i]) \in Nat
  BY DEF ChainsOf
<1>2. PICK i \in S : p \in {i} \X (1 .. Len(t[i]))
  BY <1>1 DEF In
<1>3. p = <<p[1], p[2]>> /\ p[1] = i /\ p[2] \in 1 .. Len(t[i])
  BY <1>2
<1>4. t[i][p[2]] \in Bucket
  BY <1>1, <1>3
<1>. QED  BY <1>1, <1>3, <1>4 DEF B

LEMMA Empty ==
  ASSUME NEW S, NEW t, t = [i \in S |-> <<>>]
  PROVE  /\ t \in ChainsOf(S) /\ In(t) = {} /\ Buckets(t) = {}
         /\ IsFiniteSet(In(t)) /\ Cardinality(In(t)) = 0 /\ Injective(t)
<1>1. t \in ChainsOf(S)
  BY DEF ChainsOf
<1>2. \A i \in S : Len(t[i]) = 0
  OBVIOUS
<1>3. In(t) = {}
  <2>. SUFFICES ASSUME NEW p \in In(t) PROVE FALSE
    OBVIOUS
  <2>1. p[1] \in S /\ p[2] \in 1 .. Len(t[p[1]])
    BY <1>1, PlaceIs
  <2>. QED  BY <1>2, <2>1
<1>. QED  BY <1>1, <1>3, FS_EmptySet DEF Buckets, Injective

LEMMA Bare == In(NoChains) = {} /\ Buckets(NoChains) = {} /\ Injective(NoChains)
              /\ IsFiniteSet(In(NoChains)) /\ Cardinality(In(NoChains)) = 0
              /\ NoChains \in [DOMAIN NoChains -> Seq(Bucket)] /\ DOMAIN NoChains = {}
<1>1. NoChains = [i \in {} |-> <<>>]
  BY DEF NoChains
<1>. QED  BY <1>1, Empty DEF ChainsOf

\* u is t with b in front of chain h.
InFront(S, t, u, h, b) ==
  /\ Len(u[h]) = Len(t[h]) + 1 /\ u[h][1] = b
  /\ \A j \in Nat : 1 <= j /\ j <= Len(t[h]) => u[h][j + 1] = t[h][j]
  /\ \A i \in S : i # h => u[i] = t[i]

LEMMA OneMore ==
  ASSUME NEW S, NEW t \in ChainsOf(S), NEW h \in S, NEW b, NEW u \in ChainsOf(S),
         InFront(S, t, u, h, b)
  PROVE  /\ In(u) = In(t) \cup {<<h, Len(t[h]) + 1>>}
         /\ <<h, Len(t[h]) + 1>> \notin In(t)
         /\ Buckets(u) = Buckets(t) \cup {b}
         /\ Injective(t) /\ (\A c \in Buckets(t) : c.key # b.key) => Injective(u)
<1>1. \A i \in S : t[i] \in Seq(Bucket) /\ Len(t[i]) \in Nat
  BY DEF ChainsOf
<1>2. /\ Len(u[h]) = Len(t[h]) + 1 /\ u[h][1] = b
      /\ \A j \in Nat : 1 <= j /\ j <= Len(t[h]) => u[h][j + 1] = t[h][j]
  BY DEF InFront
<1>3. \A i \in S : i # h => u[i] = t[i]
  BY DEF InFront
<1>4. u \in ChainsOf(S)
  OBVIOUS
<1>. DEFINE Back(p) == IF p[1] = h THEN <<h, p[2] - 1>> ELSE p
            New     == <<h, 1>>
<1>5. \A p \in In(u) : p # New => Back(p) \in In(t) /\ B(u, p) = B(t, Back(p))
  <2>. SUFFICES ASSUME NEW p \in In(u), p # New
                PROVE  Back(p) \in In(t) /\ B(u, p) = B(t, Back(p))
    OBVIOUS
  <2>1. /\ p = <<p[1], p[2]>> /\ p[1] \in S /\ p[2] \in 1 .. Len(u[p[1]])
        /\ B(u, p) = u[p[1]][p[2]]
    BY <1>4, PlaceIs
  <2>2. CASE p[1] = h
    <3>1. p[2] - 1 \in 1 .. Len(t[h])
      BY <1>1, <1>2, <2>1, <2>2
    <3>2. <<h, p[2] - 1>> \in In(t) /\ B(t, <<h, p[2] - 1>>) = t[h][p[2] - 1]
      BY <3>1, IsPlace
    <3>3. u[h][(p[2] - 1) + 1] = t[h][p[2] - 1] /\ (p[2] - 1) + 1 = p[2]
      BY <1>1, <1>2, <2>1, <2>2, <3>1
    <3>4. Back(p) = <<h, p[2] - 1>>
      BY <2>2
    <3>. HIDE DEF Back
    <3>. QED  BY <2>1, <2>2, <3>2, <3>3, <3>4
  <2>3. CASE p[1] # h
    <3>1. u[p[1]] = t[p[1]]
      BY <1>3, <2>1, <2>3
    <3>2. <<p[1], p[2]>> \in In(t) /\ B(t, <<p[1], p[2]>>) = t[p[1]][p[2]]
      BY <2>1, <3>1, IsPlace
    <3>3. Back(p) = p
      BY <2>3
    <3>. HIDE DEF Back
    <3>. QED  BY <2>1, <3>1, <3>2, <3>3
  <2>. QED  BY <2>2, <2>3
<1>6. New \in In(u) /\ B(u, New) = b
  <2>1. 1 \in 1 .. Len(u[h])
    BY <1>1, <1>2
  <2>. QED  BY <1>2, <1>4, <2>1, IsPlace
<1>7. \A q \in In(t) : \E p \in In(u) : B(u, p) = B(t, q)
  <2>. SUFFICES ASSUME NEW q \in In(t)
                PROVE  \E p \in In(u) : B(u, p) = B(t, q)
    OBVIOUS
  <2>1. /\ q = <<q[1], q[2]>> /\ q[1] \in S /\ q[2] \in 1 .. Len(t[q[1]])
        /\ B(t, q) = t[q[1]][q[2]]
    BY PlaceIs
  <2>2. CASE q[1] = h
    <3>1. q[2] + 1 \in 1 .. Len(u[h]) /\ q[2] \in Nat /\ 1 <= q[2] /\ q[2] <= Len(t[h])
      BY <1>1, <1>2, <2>1, <2>2
    <3>2. <<h, q[2] + 1>> \in In(u) /\ B(u, <<h, q[2] + 1>>) = u[h][q[2] + 1]
      BY <1>4, <3>1, IsPlace
    <3>3. u[h][q[2] + 1] = t[h][q[2]]
      BY <1>2, <3>1
    <3>. QED  BY <2>1, <2>2, <3>2, <3>3
  <2>3. CASE q[1] # h
    <3>1. u[q[1]] = t[q[1]]
      BY <1>3, <2>1, <2>3
    <3>2. <<q[1], q[2]>> \in In(u) /\ B(u, <<q[1], q[2]>>) = u[q[1]][q[2]]
      BY <1>4, <2>1, <3>1, IsPlace
    <3>. QED  BY <2>1, <3>1, <3>2
  <2>. QED  BY <2>2, <2>3
<1>8. In(u) = In(t) \cup {<<h, Len(t[h]) + 1>>} /\ <<h, Len(t[h]) + 1>> \notin In(t)
  <2>1. ASSUME NEW p \in In(u) PROVE p \in In(t) \cup {<<h, Len(t[h]) + 1>>}
    <3>1. p = <<p[1], p[2]>> /\ p[1] \in S /\ p[2] \in 1 .. Len(u[p[1]])
      BY <1>4, PlaceIs
    <3>2. p[2] \in 1 .. Len(t[p[1]]) \/ (p[1] = h /\ p[2] = Len(t[h]) + 1)
      BY <1>1, <1>2, <1>3, <3>1
    <3>3. CASE p[2] \in 1 .. Len(t[p[1]])
      <4>1. <<p[1], p[2]>> \in In(t)
        BY <3>1, <3>3, IsPlace
      <4>. QED  BY <3>1, <4>1
    <3>. QED  BY <3>1, <3>2, <3>3
  <2>2. ASSUME NEW p \in In(t) PROVE p \in In(u)
    <3>1. p = <<p[1], p[2]>> /\ p[1] \in S /\ p[2] \in 1 .. Len(t[p[1]])
      BY PlaceIs
    <3>2. p[2] \in 1 .. Len(u[p[1]])
      BY <1>1, <1>2, <1>3, <3>1
    <3>3. <<p[1], p[2]>> \in In(u)
      BY <1>4, <3>1, <3>2, IsPlace
    <3>. QED  BY <3>1, <3>3
  <2>3. <<h, Len(t[h]) + 1>> \in In(u)
    <3>1. Len(t[h]) + 1 \in 1 .. Len(u[h])
      BY <1>1, <1>2
    <3>. QED  BY <1>4, <3>1, IsPlace
  <2>4. <<h, Len(t[h]) + 1>> \notin In(t)
    <3>. DEFINE p == <<h, Len(t[h]) + 1>>
    <3>1. p[1] = h /\ p[2] = Len(t[h]) + 1
      OBVIOUS
    <3>. HIDE DEF p
    <3>2. SUFFICES ASSUME p \in In(t) PROVE FALSE
      BY DEF p
    <3>3. p[2] \in 1 .. Len(t[p[1]])
      BY <3>2, PlaceIs
    <3>. QED  BY <1>1, <3>1, <3>3
  <2>. QED  BY <2>1, <2>2, <2>3, <2>4
<1>9. Buckets(u) = Buckets(t) \cup {b}
  <2>1. ASSUME NEW c \in Buckets(u) PROVE c \in Buckets(t) \cup {b}
    <3>1. PICK p \in In(u) : c = B(u, p)
      BY DEF Buckets
    <3>2. CASE p = New
      BY <1>6, <3>1, <3>2
    <3>3. CASE p # New
      BY <1>5, <3>1, <3>3 DEF Buckets
    <3>. QED  BY <3>2, <3>3
  <2>2. ASSUME NEW c \in Buckets(t) PROVE c \in Buckets(u)
    <3>1. PICK q \in In(t) : c = B(t, q)
      BY DEF Buckets
    <3>. HIDE DEF New
    <3>. QED  BY <1>7, <3>1 DEF Buckets
  <2>3. b \in Buckets(u)
    BY <1>6 DEF Buckets
  <2>. QED  BY <2>1, <2>2, <2>3
<1>10. ASSUME Injective(t), \A c \in Buckets(t) : c.key # b.key
       PROVE  Injective(u)
  <2>. SUFFICES ASSUME NEW p \in In(u), NEW q \in In(u), B(u, p).key = B(u, q).key
                PROVE  p = q
    BY DEF Injective
  <2>1. \A r \in In(u) : r # New => B(u, r).key # b.key
    BY <1>5, <1>10 DEF Buckets
  <2>2. CASE p = New \/ q = New
    BY <1>6, <2>1, <2>2
  <2>3. CASE p # New /\ q # New
    <3>1. Back(p) \in In(t) /\ Back(q) \in In(t) /\ B(t, Back(p)).key = B(t, Back(q)).key
      BY <1>5, <2>3
    <3>2. Back(p) = Back(q)
      <4>. HIDE DEF Back
      <4>. QED  BY <1>10, <3>1 DEF Injective
    <3>3. /\ p = <<p[1], p[2]>> /\ q = <<q[1], q[2]>>
          /\ p[2] \in Int /\ q[2] \in Int
      BY <1>4, PlaceIs
    <3>4. <<h, p[2] - 1>>[1] = h /\ <<h, q[2] - 1>>[1] = h
      OBVIOUS
    <3>5. CASE p[1] = h
      <4>1. q[1] = h
        BY <3>2, <3>4, <3>5
      <4>2. p[2] - 1 = q[2] - 1
        BY <3>2, <3>5, <4>1
      <4>. QED  BY <3>3, <3>5, <4>1, <4>2
    <3>6. CASE p[1] # h
      <4>1. q[1] # h
        BY <3>2, <3>4, <3>6
      <4>. QED  BY <3>2, <3>6, <4>1
    <3>. QED  BY <3>5, <3>6
  <2>. QED  BY <2>2, <2>3
<1>. QED  BY <1>8, <1>9, <1>10
\* The steps of the code on a table.
PutIn(t, h, b)    == [t EXCEPT ![h] = <<b>> \o @]
TakeFirst(t, h)   == [t EXCEPT ![h] = Tail(@)]
TakeOut(t, h, j)  == [t EXCEPT ![h] = SubSeq(@, 1, j - 1) \o SubSeq(@, j + 1, Len(@))]
SetDatum(t, p, v) == [t EXCEPT ![p[1]][p[2]].val = v]

LEMMA PutInDoes ==
  ASSUME NEW S, NEW t \in ChainsOf(S), NEW h \in S, NEW b \in Bucket
  PROVE  /\ PutIn(t, h, b) \in ChainsOf(S) /\ InFront(S, t, PutIn(t, h, b), h, b)
         /\ In(PutIn(t, h, b)) = In(t) \cup {<<h, Len(t[h]) + 1>>}
         /\ <<h, Len(t[h]) + 1>> \notin In(t)
         /\ Buckets(PutIn(t, h, b)) = Buckets(t) \cup {b}
         /\ Injective(t) /\ (\A c \in Buckets(t) : c.key # b.key) => Injective(PutIn(t, h, b))
<1>. DEFINE u == PutIn(t, h, b)
<1>0. u = [t EXCEPT ![h] = <<b>> \o @]
  BY DEF PutIn
<1>. HIDE DEF u
<1>1. \A i \in S : t[i] \in Seq(Bucket) /\ Len(t[i]) \in Nat
  BY DEF ChainsOf
<1>2. /\ u[h] \in Seq(Bucket) /\ Len(u[h]) = Len(t[h]) + 1
      /\ u[h][1] = b
      /\ \A j \in Nat : 1 <= j /\ j <= Len(t[h]) => u[h][j + 1] = t[h][j]
  <2>1. u[h] = <<b>> \o t[h]
    BY <1>0 DEF ChainsOf
  <2>2. <<b>> \in Seq(Bucket) /\ Len(<<b>>) = 1 /\ <<b>>[1] = b
    OBVIOUS
  <2>. HIDE DEF Bucket
  <2>3. /\ <<b>> \o t[h] \in Seq(Bucket) /\ Len(<<b>> \o t[h]) = 1 + Len(t[h])
        /\ \A j \in 1 .. 1 + Len(t[h]) :
             (<<b>> \o t[h])[j] = IF j <= 1 THEN <<b>>[j] ELSE t[h][j - 1]
    BY <1>1, <2>2, ConcatProperties
  <2>4. 1 \in 1 .. 1 + Len(t[h])
    BY <1>1
  <2>5. ASSUME NEW j \in Nat, 1 <= j, j <= Len(t[h])
        PROVE  u[h][j + 1] = t[h][j]
    <3>1. j + 1 \in 1 .. 1 + Len(t[h]) /\ ~(j + 1 <= 1) /\ (j + 1) - 1 = j
      BY <1>1, <2>5
    <3>. QED  BY <2>1, <2>3, <3>1
  <2>6. 1 + Len(t[h]) = Len(t[h]) + 1
    BY <1>1
  <2>. QED  BY <2>1, <2>2, <2>3, <2>4, <2>5, <2>6
<1>3. \A i \in S : i # h => u[i] = t[i]
  BY <1>0 DEF ChainsOf
<1>4. u \in ChainsOf(S)
  <2>1. \A i \in S : u[i] \in Seq(Bucket)
    BY <1>1, <1>2, <1>3
  <2>2. u = [i \in S |-> u[i]]
    BY <1>0 DEF ChainsOf
  <2>. QED  BY <2>1, <2>2 DEF ChainsOf
<1>5. InFront(S, t, u, h, b)
  BY <1>2, <1>3 DEF InFront
<1>6. /\ In(u) = In(t) \cup {<<h, Len(t[h]) + 1>>}
      /\ <<h, Len(t[h]) + 1>> \notin In(t)
      /\ Buckets(u) = Buckets(t) \cup {b}
      /\ Injective(t) /\ (\A c \in Buckets(t) : c.key # b.key) => Injective(u)
  BY <1>4, <1>5, OneMore
<1>. QED  BY <1>4, <1>5, <1>6 DEF u

\* u is t without bucket j of chain h.
TakenOut(S, t, u, h, j) ==
  /\ Len(t[h]) = Len(u[h]) + 1 /\ j \in 1 .. Len(t[h])
  /\ \A l \in Nat : 1 <= l /\ l < j => u[h][l] = t[h][l]
  /\ \A l \in Nat : j <= l /\ l <= Len(u[h]) => u[h][l] = t[h][l + 1]
  /\ \A i \in S : i # h => u[i] = t[i]

LEMMA OneLess ==
  ASSUME NEW S, NEW t \in ChainsOf(S), NEW h \in S, NEW j, NEW u \in ChainsOf(S),
         TakenOut(S, t, u, h, j)
  PROVE  /\ In(t) = In(u) \cup {<<h, Len(t[h])>>}
         /\ <<h, Len(t[h])>> \notin In(u)
         /\ t[h][j] \in Buckets(t)
         /\ Injective(t) => Injective(u) /\ Buckets(u) = Buckets(t) \ {t[h][j]}
<1>1. \A i \in S : Len(u[i]) \in Nat /\ Len(t[i]) \in Nat
  BY DEF ChainsOf
<1>2. Len(t[h]) = Len(u[h]) + 1 /\ j \in 1 .. Len(t[h])
  BY DEF TakenOut
<1>3. \A i \in S : i # h => u[i] = t[i]
  BY DEF TakenOut
<1>. DEFINE Back(p) == IF p[1] = h /\ j <= p[2] THEN <<h, p[2] + 1>> ELSE p
            Out     == <<h, j>>
<1>4. Out \in In(t) /\ B(t, Out) = t[h][j]
  BY <1>2, IsPlace
<1>5. \A p \in In(u) : Back(p) \in In(t) /\ Back(p) # Out /\ B(u, p) = B(t, Back(p))
  <2>. SUFFICES ASSUME NEW p \in In(u)
                PROVE  Back(p) \in In(t) /\ Back(p) # Out /\ B(u, p) = B(t, Back(p))
    OBVIOUS
  <2>1. /\ p = <<p[1], p[2]>> /\ p[1] \in S /\ p[2] \in 1 .. Len(u[p[1]])
        /\ B(u, p) = u[p[1]][p[2]]
    BY PlaceIs
  <2>2. CASE p[1] = h /\ j <= p[2]
    <3>1. p[2] + 1 \in 1 .. Len(t[h]) /\ p[2] \in Nat /\ p[2] <= Len(u[h]) /\ p[2] + 1 # j
      BY <1>1, <1>2, <2>1, <2>2
    <3>2. <<h, p[2] + 1>> \in In(t) /\ B(t, <<h, p[2] + 1>>) = t[h][p[2] + 1]
      BY <3>1, IsPlace
    <3>3. u[h][p[2]] = t[h][p[2] + 1]
      BY <2>2, <3>1 DEF TakenOut
    <3>4. Back(p) = <<h, p[2] + 1>> /\ <<h, p[2] + 1>> # Out
      BY <2>2, <3>1
    <3>. HIDE DEF Back
    <3>. QED  BY <2>1, <2>2, <3>2, <3>3, <3>4
  <2>3. CASE ~(p[1] = h /\ j <= p[2])
    <3>1. p[2] \in 1 .. Len(t[p[1]])
      BY <1>1, <1>2, <1>3, <2>1
    <3>2. u[p[1]][p[2]] = t[p[1]][p[2]]
      <4>1. CASE p[1] = h
        <5>1. p[2] \in Nat /\ 1 <= p[2] /\ p[2] < j
          BY <1>1, <1>2, <2>1, <2>3, <4>1
        <5>. QED  BY <4>1, <5>1 DEF TakenOut
      <4>2. CASE p[1] # h
        BY <1>3, <2>1, <4>2
      <4>. QED  BY <4>1, <4>2
    <3>3. <<p[1], p[2]>> \in In(t) /\ B(t, <<p[1], p[2]>>) = t[p[1]][p[2]]
      BY <2>1, <3>1, IsPlace
    <3>4. Back(p) = p
      BY <2>3
    <3>5. p # Out
      BY <1>1, <1>2, <2>3
    <3>. HIDE DEF Back, Out
    <3>. QED  BY <2>1, <3>2, <3>3, <3>4, <3>5
  <2>. QED  BY <2>2, <2>3
<1>6. \A q \in In(t) : q # Out => \E p \in In(u) : B(u, p) = B(t, q)
  <2>. SUFFICES ASSUME NEW q \in In(t), q # Out
                PROVE  \E p \in In(u) : B(u, p) = B(t, q)
    OBVIOUS
  <2>1. /\ q = <<q[1], q[2]>> /\ q[1] \in S /\ q[2] \in 1 .. Len(t[q[1]])
        /\ B(t, q) = t[q[1]][q[2]]
    BY PlaceIs
  <2>2. CASE q[1] = h /\ j < q[2]
    <3>1. /\ q[2] - 1 \in 1 .. Len(u[h]) /\ q[2] - 1 \in Nat /\ j <= q[2] - 1
          /\ (q[2] - 1) + 1 = q[2] /\ q[2] - 1 <= Len(u[h])
      BY <1>1, <1>2, <2>1, <2>2
    <3>2. <<h, q[2] - 1>> \in In(u) /\ B(u, <<h, q[2] - 1>>) = u[h][q[2] - 1]
      BY <3>1, IsPlace
    <3>3. u[h][q[2] - 1] = t[h][(q[2] - 1) + 1]
      BY <3>1 DEF TakenOut
    <3>. QED  BY <2>1, <2>2, <3>1, <3>2, <3>3
  <2>3. CASE q[1] = h /\ q[2] < j
    <3>1. q[2] \in 1 .. Len(u[h]) /\ q[2] \in Nat /\ 1 <= q[2]
      BY <1>1, <1>2, <2>1, <2>3
    <3>2. <<h, q[2]>> \in In(u) /\ B(u, <<h, q[2]>>) = u[h][q[2]]
      BY <3>1, IsPlace
    <3>3. u[h][q[2]] = t[h][q[2]]
      BY <2>3, <3>1 DEF TakenOut
    <3>. QED  BY <2>1, <2>3, <3>2, <3>3
  <2>4. CASE q[1] # h
    <3>1. u[q[1]] = t[q[1]]
      BY <1>3, <2>1, <2>4
    <3>2. <<q[1], q[2]>> \in In(u) /\ B(u, <<q[1], q[2]>>) = u[q[1]][q[2]]
      BY <2>1, <3>1, IsPlace
    <3>. QED  BY <2>1, <3>1, <3>2
  <2>5. ~(q[1] = h /\ q[2] = j)
    BY <2>1
  <2>. QED
    <3>1. q[2] \in Int /\ j \in Int
      BY <1>2, <2>1
    <3>. QED  BY <2>2, <2>3, <2>4, <2>5, <3>1
<1>7. In(t) = In(u) \cup {<<h, Len(t[h])>>} /\ <<h, Len(t[h])>> \notin In(u)
  <2>1. ASSUME NEW p \in In(t) PROVE p \in In(u) \cup {<<h, Len(t[h])>>}
    <3>1. p = <<p[1], p[2]>> /\ p[1] \in S /\ p[2] \in 1 .. Len(t[p[1]])
      BY PlaceIs
    <3>2. p[2] \in 1 .. Len(u[p[1]]) \/ (p[1] = h /\ p[2] = Len(t[h]))
      BY <1>1, <1>2, <1>3, <3>1
    <3>3. CASE p[2] \in 1 .. Len(u[p[1]])
      <4>1. <<p[1], p[2]>> \in In(u)
        BY <3>1, <3>3, IsPlace
      <4>. QED  BY <3>1, <4>1
    <3>. QED  BY <3>1, <3>2, <3>3
  <2>2. ASSUME NEW p \in In(u) PROVE p \in In(t)
    <3>1. p = <<p[1], p[2]>> /\ p[1] \in S /\ p[2] \in 1 .. Len(u[p[1]])
      BY PlaceIs
    <3>2. p[2] \in 1 .. Len(t[p[1]])
      BY <1>1, <1>2, <1>3, <3>1
    <3>3. <<p[1], p[2]>> \in In(t)
      BY <3>1, <3>2, IsPlace
    <3>. QED  BY <3>1, <3>3
  <2>3. <<h, Len(t[h])>> \in In(t)
    <3>1. Len(t[h]) \in 1 .. Len(t[h])
      BY <1>1, <1>2
    <3>. QED  BY <3>1, IsPlace
  <2>4. <<h, Len(t[h])>> \notin In(u)
    <3>. DEFINE p == <<h, Len(t[h])>>
    <3>1. p[1] = h /\ p[2] = Len(t[h])
      OBVIOUS
    <3>. HIDE DEF p
    <3>2. SUFFICES ASSUME p \in In(u) PROVE FALSE
      BY DEF p
    <3>3. p[2] \in 1 .. Len(u[p[1]])
      BY <3>2, PlaceIs
    <3>. QED  BY <1>1, <1>2, <3>1, <3>3
  <2>. QED  BY <2>1, <2>2, <2>3, <2>4
<1>8. ASSUME Injective(t) PROVE Injective(u) /\ Buckets(u) = Buckets(t) \ {t[h][j]}
  <2>1. ASSUME NEW c \in Buckets(u) PROVE c \in Buckets(t) \ {t[h][j]}
    <3>1. PICK p \in In(u) : c = B(u, p)
      BY DEF Buckets
    <3>2. Back(p) \in In(t) /\ Back(p) # Out /\ c = B(t, Back(p))
      BY <1>5, <3>1
    <3>. HIDE DEF Back, Out
    <3>3. B(t, Back(p)) # B(t, Out)
      BY <1>4, <1>8, <3>2 DEF Injective
    <3>. QED  BY <1>4, <3>2, <3>3 DEF Buckets
  <2>2. ASSUME NEW c \in Buckets(t), c # t[h][j] PROVE c \in Buckets(u)
    <3>1. PICK q \in In(t) : c = B(t, q)
      BY DEF Buckets
    <3>2. q # Out
      BY <1>4, <2>2, <3>1
    <3>. HIDE DEF Out
    <3>. QED  BY <1>6, <3>1, <3>2 DEF Buckets
  <2>3. Injective(u)
    <3>. SUFFICES ASSUME NEW p \in In(u), NEW q \in In(u), B(u, p).key = B(u, q).key
                  PROVE  p = q
      BY DEF Injective
    <3>1. Back(p) = Back(q)
      <4>1. /\ Back(p) \in In(t) /\ Back(q) \in In(t)
            /\ B(t, Back(p)).key = B(t, Back(q)).key
        BY <1>5
      <4>. HIDE DEF Back
      <4>. QED  BY <1>8, <4>1 DEF Injective
    <3>2. /\ p = <<p[1], p[2]>> /\ q = <<q[1], q[2]>> /\ p[2] \in Int /\ q[2] \in Int
      BY PlaceIs
    <3>3. Back(p)[1] = p[1] /\ Back(q)[1] = q[1]
      OBVIOUS
    <3>4. /\ Back(p)[2] = IF p[1] = h /\ j <= p[2] THEN p[2] + 1 ELSE p[2]
          /\ Back(q)[2] = IF q[1] = h /\ j <= q[2] THEN q[2] + 1 ELSE q[2]
      OBVIOUS
    <3>. HIDE DEF Back
    <3>5. p[1] = q[1] /\ p[2] = q[2]
      BY <1>2, <3>1, <3>2, <3>3, <3>4
    <3>. QED  BY <3>2, <3>5
  <2>. QED  BY <2>1, <2>2, <2>3
<1>9. t[h][j] \in Buckets(t)
  BY <1>4 DEF Buckets
<1>. QED  BY <1>7, <1>8, <1>9

LEMMA TakeFirstDoes ==
  ASSUME NEW S, NEW t \in ChainsOf(S), NEW h \in S, t[h] # <<>>
  PROVE  /\ TakeFirst(t, h) \in ChainsOf(S) /\ TakenOut(S, t, TakeFirst(t, h), h, 1)
         /\ Head(t[h]) = t[h][1]
<1>. DEFINE u == TakeFirst(t, h)
<1>0. u = [t EXCEPT ![h] = Tail(@)]
  BY DEF TakeFirst
<1>. HIDE DEF u
<1>1. \A i \in S : t[i] \in Seq(Bucket) /\ Len(t[i]) \in Nat
  BY DEF ChainsOf
<1>2. u[h] = Tail(t[h]) /\ \A i \in S : i # h => u[i] = t[i]
  BY <1>0 DEF ChainsOf
<1>3. /\ Head(t[h]) = t[h][1] /\ Tail(t[h]) \in Seq(Bucket)
      /\ Len(Tail(t[h])) = Len(t[h]) - 1
      /\ \A i \in 1 .. Len(Tail(t[h])) : Tail(t[h])[i] = t[h][i + 1]
  <2>. HIDE DEF Bucket
  <2>. QED  BY <1>1, HeadTailProperties
<1>4. u \in ChainsOf(S)
  <2>1. \A i \in S : u[i] \in Seq(Bucket)
    BY <1>1, <1>2, <1>3
  <2>2. u = [i \in S |-> u[i]]
    BY <1>0 DEF ChainsOf
  <2>. QED  BY <2>1, <2>2 DEF ChainsOf
<1>5. Len(t[h]) # 0
  BY <1>1, EmptySeq
<1>6. TakenOut(S, t, u, h, 1)
  <2>0. Len(u[h]) = Len(t[h]) - 1 /\ Len(t[h]) \in Nat /\ Len(t[h]) # 0
    <3>1. Len(u[h]) = Len(Tail(t[h]))
      BY <1>2
    <3>. QED  BY <1>1, <1>3, <1>5, <3>1
  <2>1. Len(t[h]) = Len(u[h]) + 1 /\ 1 \in 1 .. Len(t[h]) /\ Len(u[h]) \in Nat
    <3>. DEFINE a == Len(u[h])  c == Len(t[h])
    <3>1. a = c - 1 /\ c \in Nat /\ c # 0
      BY <2>0
    <3>. HIDE DEF a, c
    <3>2. c = a + 1 /\ 1 \in 1 .. c /\ a \in Nat
      BY <3>1
    <3>. QED  BY <3>2 DEF a, c
  <2>2. ASSUME NEW l \in Nat, 1 <= l, l <= Len(u[h])
        PROVE  u[h][l] = t[h][l + 1]
    <3>1. l \in 1 .. Len(Tail(t[h]))
      BY <1>2, <2>1, <2>2
    <3>. QED  BY <1>2, <1>3, <3>1
  <2>. QED  BY <1>2, <2>1, <2>2 DEF TakenOut
<1>. QED  BY <1>3, <1>4, <1>6 DEF u


LEMMA TakeOutDoes ==
  ASSUME NEW S, NEW t \in ChainsOf(S), NEW h \in S, NEW j \in 1 .. Len(t[h])
  PROVE  TakeOut(t, h, j) \in ChainsOf(S) /\ TakenOut(S, t, TakeOut(t, h, j), h, j)
<1>. DEFINE u == TakeOut(t, h, j)
<1>0. u = [t EXCEPT ![h] = SubSeq(@, 1, j - 1) \o SubSeq(@, j + 1, Len(@))]
  BY DEF TakeOut
<1>. HIDE DEF u
<1>. DEFINE n == Len(t[h])
            l == SubSeq(t[h], 1, j - 1)
            r == SubSeq(t[h], j + 1, n)
<1>1. \A i \in S : t[i] \in Seq(Bucket) /\ Len(t[i]) \in Nat
  BY DEF ChainsOf
<1>2. j \in Nat /\ 1 <= j /\ j <= n /\ n \in Nat
  BY <1>1
<1>3. u[h] = l \o r /\ \A i \in S : i # h => u[i] = t[i]
  BY <1>0 DEF ChainsOf
<1>4. /\ l \in Seq(Bucket) /\ Len(l) = j - 1
      /\ \A i \in 1 .. j - 1 : l[i] = t[h][i]
  <2>. HIDE DEF Bucket
  <2>1. 1 \in 1 .. n + 1 /\ j - 1 \in 0 .. n /\ 1 <= (j - 1) + 1
    BY <1>2
  <2>. QED  BY <1>1, <1>2, <2>1, SubSeqProperties
<1>5. /\ r \in Seq(Bucket) /\ Len(r) = n - j
      /\ \A i \in 1 .. n - j : r[i] = t[h][j + i]
  <2>. HIDE DEF Bucket
  <2>1. j + 1 \in 1 .. n + 1 /\ n \in 0 .. n /\ j + 1 <= n + 1
    BY <1>2
  <2>2. /\ r \in Seq(Bucket) /\ Len(r) = IF j + 1 <= n THEN (n - (j + 1)) + 1 ELSE 0
        /\ \A i \in 1 .. (n - (j + 1)) + 1 : r[i] = t[h][(j + 1) + i - 1]
    BY <1>1, <1>2, <2>1, SubSeqProperties
  <2>3. Len(r) = n - j /\ (n - (j + 1)) + 1 = n - j
    BY <1>2, <2>2
  <2>4. ASSUME NEW i \in 1 .. n - j PROVE r[i] = t[h][j + i]
    <3>1. (j + 1) + i - 1 = j + i
      BY <1>2
    <3>. HIDE DEF r
    <3>. QED  BY <2>2, <2>3, <3>1
  <2>. QED  BY <2>2, <2>3, <2>4
<1>6. /\ l \o r \in Seq(Bucket) /\ Len(l \o r) = n - 1
      /\ \A i \in 1 .. n - 1 : (l \o r)[i] = IF i <= j - 1 THEN l[i] ELSE r[i - (j - 1)]
  <2>. HIDE DEF Bucket, l, r
  <2>1. /\ l \o r \in Seq(Bucket) /\ Len(l \o r) = Len(l) + Len(r)
        /\ \A i \in 1 .. Len(l) + Len(r) :
             (l \o r)[i] = IF i <= Len(l) THEN l[i] ELSE r[i - Len(l)]
    BY <1>4, <1>5, ConcatProperties
  <2>2. Len(l) + Len(r) = n - 1
    BY <1>2, <1>4, <1>5
  <2>. QED  BY <1>4, <2>1, <2>2
<1>. HIDE DEF l, r
<1>7. u \in ChainsOf(S)
  <2>1. \A i \in S : u[i] \in Seq(Bucket)
    BY <1>1, <1>3, <1>6
  <2>2. u = [i \in S |-> u[i]]
    BY <1>0 DEF ChainsOf
  <2>. QED  BY <2>1, <2>2 DEF ChainsOf
<1>8. TakenOut(S, t, u, h, j)
  <2>1. n = Len(u[h]) + 1 /\ Len(u[h]) = n - 1
    <3>1. Len(u[h]) = Len(l \o r)
      BY <1>3
    <3>2. Len(u[h]) = n - 1 /\ n \in Nat
      BY <1>2, <1>6, <3>1
    <3>. DEFINE a == Len(u[h])
    <3>3. a = n - 1 /\ n \in Nat
      BY <3>2
    <3>. HIDE DEF a, n
    <3>4. n = a + 1 /\ a = n - 1
      BY <3>3
    <3>. QED  BY <3>4 DEF a
  <2>2. ASSUME NEW m \in Nat, 1 <= m, m < j PROVE u[h][m] = t[h][m]
    <3>1. m \in 1 .. n - 1 /\ m <= j - 1 /\ m \in 1 .. j - 1
      BY <1>2, <2>2
    <3>. QED  BY <1>3, <1>4, <1>6, <3>1
  <2>3. ASSUME NEW m \in Nat, j <= m, m <= Len(u[h]) PROVE u[h][m] = t[h][m + 1]
    <3>1. /\ m \in 1 .. n - 1 /\ ~(m <= j - 1) /\ m - (j - 1) \in 1 .. n - j
          /\ j + (m - (j - 1)) = m + 1
      <4>1. m <= n - 1
        BY <2>1, <2>3
      <4>. QED  BY <1>2, <2>3, <4>1
    <3>2. u[h][m] = r[m - (j - 1)]
      BY <1>3, <1>6, <3>1
    <3>3. r[m - (j - 1)] = t[h][j + (m - (j - 1))]
      BY <1>5, <3>1
    <3>. QED  BY <3>1, <3>2, <3>3
  <2>. QED  BY <1>3, <2>1, <2>2, <2>3 DEF TakenOut
<1>. QED  BY <1>7, <1>8 DEF u


\* u is t with b in place p.
Altered(S, t, u, p, b) ==
  /\ \A i \in S : Len(u[i]) = Len(t[i])
  /\ u[p[1]][p[2]] = b /\ b.key = B(t, p).key
  /\ \A l \in 1 .. Len(t[p[1]]) : l # p[2] => u[p[1]][l] = t[p[1]][l]
  /\ \A i \in S : i # p[1] => u[i] = t[i]

LEMMA OneAltered ==
  ASSUME NEW S, NEW t \in ChainsOf(S), NEW p \in In(t), NEW b, NEW u \in ChainsOf(S),
         Altered(S, t, u, p, b), Injective(t)
  PROVE  /\ In(u) = In(t) /\ Injective(u)
         /\ \A i \in S : KeysOf(u[i]) = KeysOf(t[i])
         /\ \A q \in In(t) : B(u, q).key = B(t, q).key
         /\ Buckets(u) = (Buckets(t) \ {B(t, p)}) \cup {b}
<1>1. /\ \A i \in S : Len(u[i]) = Len(t[i])
      /\ u[p[1]][p[2]] = b /\ b.key = B(t, p).key
      /\ \A l \in 1 .. Len(t[p[1]]) : l # p[2] => u[p[1]][l] = t[p[1]][l]
      /\ \A i \in S : i # p[1] => u[i] = t[i]
  BY DEF Altered
<1>2. In(u) = In(t)
  <2>1. DOMAIN u = S /\ DOMAIN t = S
    BY DEF ChainsOf
  <2>. QED  BY <1>1, <2>1 DEF In
<1>3. p = <<p[1], p[2]>> /\ p[1] \in S /\ p[2] \in 1 .. Len(t[p[1]])
      /\ B(t, p) = t[p[1]][p[2]]
  BY PlaceIs
<1>4. B(u, p) = b
  BY <1>1 DEF B
<1>5. \A q \in In(t) : q # p => B(u, q) = B(t, q)
  <2>. SUFFICES ASSUME NEW q \in In(t), q # p PROVE B(u, q) = B(t, q)
    OBVIOUS
  <2>1. /\ q = <<q[1], q[2]>> /\ q[1] \in S /\ q[2] \in 1 .. Len(t[q[1]])
        /\ B(t, q) = t[q[1]][q[2]]
    BY PlaceIs
  <2>2. B(u, q) = u[q[1]][q[2]]
    BY DEF B
  <2>3. CASE q[1] = p[1]
    <3>1. q[2] # p[2]
      BY <1>3, <2>1, <2>3
    <3>. QED  BY <1>1, <2>1, <2>2, <2>3, <3>1
  <2>4. CASE q[1] # p[1]
    BY <1>1, <2>1, <2>2, <2>4
  <2>. QED  BY <2>3, <2>4
<1>6. \A q \in In(t) : B(u, q).key = B(t, q).key
  <2>. SUFFICES ASSUME NEW q \in In(t) PROVE B(u, q).key = B(t, q).key
    OBVIOUS
  <2>1. CASE q = p
    BY <1>1, <1>4, <2>1
  <2>2. CASE q # p
    BY <1>5, <2>2
  <2>. QED  BY <2>1, <2>2
<1>7. Injective(u)
  BY <1>2, <1>6 DEF Injective
<1>8. \A i \in S : KeysOf(u[i]) = KeysOf(t[i])
  <2>. SUFFICES ASSUME NEW i \in S PROVE KeysOf(u[i]) = KeysOf(t[i])
    OBVIOUS
  <2>1. ASSUME NEW j \in 1 .. Len(t[i]) PROVE u[i][j].key = t[i][j].key
    <3>1. <<i, j>> \in In(t) /\ B(t, <<i, j>>) = t[i][j]
      BY IsPlace
    <3>2. j \in 1 .. Len(u[i])
      BY <1>1
    <3>3. B(u, <<i, j>>) = u[i][j]
      BY <3>2, IsPlace
    <3>4. B(u, <<i, j>>).key = B(t, <<i, j>>).key
      BY <1>6, <3>1
    <3>. QED  BY <3>1, <3>3, <3>4
  <2>2. Len(u[i]) = Len(t[i])
    BY <1>1
  <2>. QED  BY <2>1, <2>2 DEF KeysOf
<1>9. Buckets(u) = (Buckets(t) \ {B(t, p)}) \cup {b}
  <2>1. \A q \in In(t) : q # p => B(t, q) # B(t, p)
    BY DEF Injective
  <2>2. ASSUME NEW c \in Buckets(u) PROVE c \in (Buckets(t) \ {B(t, p)}) \cup {b}
    <3>1. PICK q \in In(t) : c = B(u, q)
      BY <1>2 DEF Buckets
    <3>. QED  BY <1>4, <1>5, <2>1, <3>1 DEF Buckets
  <2>3. ASSUME NEW c \in Buckets(t), c # B(t, p) PROVE c \in Buckets(u)
    <3>1. PICK q \in In(t) : c = B(t, q)
      BY DEF Buckets
    <3>. QED  BY <1>2, <1>5, <2>3, <3>1 DEF Buckets
  <2>4. b \in Buckets(u)
    BY <1>2, <1>4 DEF Buckets
  <2>. QED  BY <2>2, <2>3, <2>4
<1>. QED  BY <1>2, <1>6, <1>7, <1>8, <1>9

\* A bucket is given another datum.
LEMMA SetDatumDoes ==
  ASSUME NEW S, NEW t \in ChainsOf(S), NEW p \in In(t), NEW v \in Val, Injective(t)
  PROVE  /\ SetDatum(t, p, v) \in ChainsOf(S) /\ In(SetDatum(t, p, v)) = In(t)
         /\ Injective(SetDatum(t, p, v))
         /\ \A i \in S : /\ Len(SetDatum(t, p, v)[i]) = Len(t[i])
                         /\ KeysOf(SetDatum(t, p, v)[i]) = KeysOf(t[i])
         /\ \A q \in In(t) : B(SetDatum(t, p, v), q).key = B(t, q).key
         /\ Buckets(SetDatum(t, p, v)) =
              (Buckets(t) \ {B(t, p)}) \cup {[key |-> B(t, p).key, val |-> v]}
<1>. DEFINE u == SetDatum(t, p, v)
<1>0. u = [t EXCEPT ![p[1]][p[2]].val = v]
  BY DEF SetDatum
<1>. HIDE DEF u
<1>1. DOMAIN t = S /\ \A i \in S : t[i] \in Seq(Bucket) /\ Len(t[i]) \in Nat
  BY DEF ChainsOf
<1>2. p = <<p[1], p[2]>> /\ p[1] \in S /\ p[2] \in 1 .. Len(t[p[1]])
      /\ B(t, p) = t[p[1]][p[2]] /\ B(t, p) \in Bucket
  BY PlaceIs
<1>. DEFINE b == [key |-> B(t, p).key, val |-> v]
<1>3. b \in Bucket
  BY <1>2 DEF Bucket
<1>4. u = [t EXCEPT ![p[1]] = [t[p[1]] EXCEPT ![p[2]] = b]]
  <2>1. [t[p[1]][p[2]] EXCEPT !.val = v] = b
    BY <1>2 DEF Bucket
  <2>. QED  BY <1>0, <2>1
<1>5. u[p[1]] = [t[p[1]] EXCEPT ![p[2]] = b] /\ \A i \in S : i # p[1] => u[i] = t[i]
  BY <1>1, <1>2, <1>4
<1>6. /\ u[p[1]] \in Seq(Bucket) /\ Len(u[p[1]]) = Len(t[p[1]])
      /\ u[p[1]][p[2]] = b
      /\ \A l \in 1 .. Len(t[p[1]]) : l # p[2] => u[p[1]][l] = t[p[1]][l]
  <2>. DEFINE c == t[p[1]]
  <2>1. c \in Seq(Bucket) /\ p[2] \in 1 .. Len(c)
    BY <1>1, <1>2
  <2>. HIDE DEF b, Bucket, c
  <2>2. /\ [c EXCEPT ![p[2]] = b] \in Seq(Bucket)
        /\ Len([c EXCEPT ![p[2]] = b]) = Len(c)
        /\ \A l \in 1 .. Len(c) : [c EXCEPT ![p[2]] = b][l] = IF l = p[2] THEN b ELSE c[l]
    BY <1>3, <2>1, ExceptSeq
  <2>3. u[p[1]] = [c EXCEPT ![p[2]] = b]
    BY <1>5 DEF c
  <2>4. c = t[p[1]]
    BY DEF c
  <2>. QED  BY <2>1, <2>2, <2>3, <2>4
<1>7. u \in ChainsOf(S)
  <2>1. \A i \in S : u[i] \in Seq(Bucket)
    BY <1>1, <1>5, <1>6
  <2>2. u = [i \in S |-> u[i]]
    BY <1>1, <1>4
  <2>. QED  BY <2>1, <2>2 DEF ChainsOf
<1>9. \A i \in S : Len(u[i]) = Len(t[i])
  BY <1>5, <1>6
<1>10. Altered(S, t, u, p, b)
  <2>1. b.key = B(t, p).key
    BY DEF b
  <2>. QED  BY <1>5, <1>6, <1>9, <2>1 DEF Altered
<1>11. /\ In(u) = In(t) /\ Injective(u)
       /\ \A i \in S : KeysOf(u[i]) = KeysOf(t[i])
       /\ \A q \in In(t) : B(u, q).key = B(t, q).key
       /\ Buckets(u) = (Buckets(t) \ {B(t, p)}) \cup {b}
  BY <1>7, <1>10, OneAltered
<1>. QED  BY <1>7, <1>9, <1>11 DEF b, u

LEMMA KeysMore ==
  ASSUME NEW S, NEW t \in ChainsOf(S), NEW h \in S, NEW b, NEW u \in ChainsOf(S),
         InFront(S, t, u, h, b), NEW i \in S
  PROVE  KeysOf(u[i]) \subseteq KeysOf(t[i]) \cup (IF i = h THEN {b.key} ELSE {})
<1>1. CASE i # h
  BY <1>1 DEF InFront, KeysOf
<1>2. CASE i = h
  <2>1. Len(t[h]) \in Nat /\ Len(u[h]) = Len(t[h]) + 1
    BY DEF InFront, ChainsOf
  <2>2. ASSUME NEW j \in 1 .. Len(u[h])
        PROVE  u[h][j].key \in KeysOf(t[h]) \cup {b.key}
    <3>1. CASE j = 1
      BY <3>1 DEF InFront
    <3>2. CASE j # 1
      <4>1. j - 1 \in 1 .. Len(t[h]) /\ j - 1 \in Nat /\ (j - 1) + 1 = j
        BY <2>1, <3>2
      <4>2. u[h][(j - 1) + 1] = t[h][j - 1]
        BY <4>1 DEF InFront
      <4>. QED  BY <4>1, <4>2 DEF KeysOf
    <3>. QED  BY <3>1, <3>2
  <2>3. KeysOf(u[h]) \subseteq KeysOf(t[h]) \cup {b.key}
    <3>1. KeysOf(u[h]) = {u[h][j].key : j \in 1 .. Len(u[h])}
      BY DEF KeysOf
    <3>. QED  BY <2>2, <3>1
  <2>. QED  BY <1>2, <2>3
<1>. QED  BY <1>1, <1>2

LEMMA KeysLess ==
  ASSUME NEW S, NEW t \in ChainsOf(S), NEW h \in S, NEW j, NEW u \in ChainsOf(S),
         TakenOut(S, t, u, h, j), NEW i \in S
  PROVE  KeysOf(u[i]) \subseteq KeysOf(t[i])
<1>1. CASE i # h
  BY <1>1 DEF TakenOut, KeysOf
<1>2. CASE i = h
  <2>1. /\ Len(u[h]) \in Nat /\ Len(t[h]) = Len(u[h]) + 1 /\ j \in 1 .. Len(t[h])
        /\ Len(t[h]) \in Nat
    BY DEF TakenOut, ChainsOf
  <2>2. ASSUME NEW l \in 1 .. Len(u[h]) PROVE u[h][l].key \in KeysOf(t[h])
    <3>1. /\ l \in Nat /\ 1 <= l /\ l <= Len(u[h]) /\ j \in Nat
          /\ l \in 1 .. Len(t[h]) /\ l + 1 \in 1 .. Len(t[h])
      BY <2>1
    <3>2. u[h][l] = t[h][l] \/ u[h][l] = t[h][l + 1]
      BY <3>1 DEF TakenOut
    <3>. QED  BY <3>1, <3>2 DEF KeysOf
  <2>. QED  BY <1>2, <2>2 DEF KeysOf
<1>. QED  BY <1>1, <1>2

LEMMA KeyAt ==
  ASSUME NEW S, NEW t \in ChainsOf(S), NEW i \in S, NEW k \in KeysOf(t[i])
  PROVE  \E j \in 1 .. Len(t[i]) : <<i, j>> \in In(t) /\ B(t, <<i, j>>).key = k
<1>1. PICK j \in 1 .. Len(t[i]) : k = t[i][j].key
  BY DEF KeysOf
<1>2. <<i, j>> \in In(t) /\ B(t, <<i, j>>) = t[i][j]
  BY IsPlace
<1>. QED  BY <1>1, <1>2

LEMMA KeysFound ==
  ASSUME NEW S, NEW t \in ChainsOf(S), NEW k
  PROVE  (\E b \in Buckets(t) : b.key = k) <=> \E i \in S : k \in KeysOf(t[i])
<1>1. ASSUME NEW b \in Buckets(t), b.key = k PROVE \E i \in S : k \in KeysOf(t[i])
  <2>1. PICK p \in In(t) : b = B(t, p)
    BY DEF Buckets
  <2>2. p[1] \in S /\ p[2] \in 1 .. Len(t[p[1]]) /\ B(t, p) = t[p[1]][p[2]]
    BY PlaceIs
  <2>. QED  BY <1>1, <2>1, <2>2 DEF KeysOf
<1>2. ASSUME NEW i \in S, k \in KeysOf(t[i]) PROVE \E b \in Buckets(t) : b.key = k
  <2>1. PICK j \in 1 .. Len(t[i]) : <<i, j>> \in In(t) /\ B(t, <<i, j>>).key = k
    BY <1>2, KeyAt
  <2>2. B(t, <<i, j>>) \in Buckets(t)
    BY <2>1 DEF Buckets
  <2>. QED  BY <2>1, <2>2
<1>. QED  BY <1>1, <1>2

-----------------------------------------------------------------------------
(***************************************************************************)
(* Slots and lookups                                                       *)
(***************************************************************************)
Shaped == /\ size \in Nat /\ 4 <= size
          /\ table \in ChainsOf(Slots) /\ old \in ChainsOf(DOMAIN old)

LEMMA Shapes == TypeOK => Shaped
  BY DEF TypeOK, Shaped, ChainsOf

LEMMA HomeIsSlot ==
  ASSUME NEW n \in Nat, n # 0, NEW k \in Keys
  PROVE  Home(n, k) \in 0 .. n - 1
<1>1. HashOf[k] \in Nat
  BY KeysAssumption
<1>. QED  BY <1>1 DEF Home

LEMMA SlotIsLookedInto ==
  ASSUME Shaped, NEW k \in Keys, NEW h \in Slots
  PROVE  Slot(k, h) \in LookedInto(k, h) /\ Slot(k, h) \in Slots /\ LookedInto(k, h) \subseteq Slots
<1>1. ShiftOf[k] \in Int
  BY KeysAssumption
<1>2. Above(k, h) \subseteq Slots /\ Below(k, h) \subseteq Slots
  BY <1>1 DEF Above, Below, Slots, Shaped
<1>. DEFINE up   == {i \in Above(k, h) : table[i] = <<>>}
            down == {i \in Below(k, h) : table[i] = <<>>}
<1>3. Slot(k, h) = h \/ Slot(k, h) \in Above(k, h) \/ Slot(k, h) \in Below(k, h)
  <2>1. up # {} => (CHOOSE i \in up : TRUE) \in Above(k, h)
    OBVIOUS
  <2>2. down # {} => (CHOOSE i \in down : TRUE) \in Below(k, h)
    OBVIOUS
  <2>3. Slot(k, h) = IF table[h] = <<>> THEN h
                     ELSE IF up # {} THEN CHOOSE i \in up : TRUE
                     ELSE IF down # {} THEN CHOOSE i \in down : TRUE ELSE h
    BY DEF Slot
  <2>. HIDE DEF up, down
  <2>. QED  BY <2>1, <2>2, <2>3
<1>. QED  BY <1>2, <1>3 DEF LookedInto

\* A lookup that does not find the key finds it nowhere.
LEMMA Missed ==
  ASSUME Shaped, InItsSlots, NEW k \in Keys, Holding(k, Home(size, k)) = {}
  PROVE  \A b \in Buckets(table) : b.key # k
<1>. SUFFICES ASSUME NEW b \in Buckets(table), b.key = k PROVE FALSE
  OBVIOUS
<1>1. PICK i \in Slots : k \in KeysOf(table[i])
  BY KeysFound DEF Shaped
<1>2. i \in LookedInto(k, Home(size, k))
  BY <1>1 DEF InItsSlots
<1>. QED  BY <1>1, <1>2 DEF Holding

\* A lookup that finds the key finds the bucket it is in.
LEMMA PlaceFound ==
  ASSUME Shaped, Injective(table), NEW k \in Keys, NEW h \in Slots, Holding(k, h) # {}
  PROVE  /\ Place(k, h) \in In(table)
         /\ B(table, Place(k, h)).key = k /\ B(table, Place(k, h)) \in Buckets(table)
<1>. DEFINE R(i) == \/ i = h
                    \/ h \notin Holding(k, h) /\ i \in Above(k, h)
                    \/ Holding(k, h) \subseteq Below(k, h) /\ i \in Below(k, h)
            I    == CHOOSE i \in Holding(k, h) : R(i)
            F(j) == table[I][j].key = k /\ \A l \in 1 .. j - 1 : table[I][l].key # k
            J    == CHOOSE j \in 1 .. Len(table[I]) : F(j)
<1>1. \E i \in Holding(k, h) : R(i)
  <2>1. Holding(k, h) \subseteq {h} \cup Above(k, h) \cup Below(k, h)
    BY DEF Holding, LookedInto
  <2>. QED  BY <2>1
<1>2. I \in Holding(k, h)
  <2>. HIDE DEF R
  <2>. QED  BY <1>1
<1>3. I \in Slots /\ k \in KeysOf(table[I])
  <2>1. LookedInto(k, h) \subseteq Slots
    BY SlotIsLookedInto
  <2>. HIDE DEF I
  <2>. QED  BY <1>2, <2>1 DEF Holding
<1>. HIDE DEF I
<1>4. PICK j \in 1 .. Len(table[I]) : <<I, j>> \in In(table) /\ B(table, <<I, j>>).key = k
  BY <1>3, KeyAt DEF Shaped
<1>5. F(j)
  <2>1. table[I][j].key = k
    BY <1>4 DEF B
  <2>2. ASSUME NEW l \in 1 .. j - 1, table[I][l].key = k PROVE FALSE
    <3>1. l \in 1 .. Len(table[I]) /\ l # j /\ j \in Int /\ l \in Int
      BY <1>3 DEF Shaped, ChainsOf
    <3>2. <<I, l>> \in In(table) /\ B(table, <<I, l>>) = table[I][l]
      BY <1>3, <3>1, IsPlace DEF Shaped
    <3>3. <<I, l>> = <<I, j>>
      BY <1>4, <2>2, <3>2 DEF Injective
    <3>. QED  BY <3>1, <3>3
  <2>. QED  BY <2>1, <2>2
<1>6. J \in 1 .. Len(table[I]) /\ F(J)
  <2>. HIDE DEF F
  <2>. QED  BY <1>5
<1>7. Place(k, h) = <<I, J>>
  BY DEF Place, I
<1>. HIDE DEF J
<1>8. <<I, J>> \in In(table) /\ B(table, <<I, J>>) = table[I][J]
  BY <1>3, <1>6, IsPlace DEF Shaped
<1>. QED  BY <1>6, <1>7, <1>8 DEF Buckets

\* InItsSlots, of the chains t of n slots.
Near(n, k) == LET h == Home(n, k) IN
  {h} \cup {i \in {h + ShiftOf[k]} : 0 <= i /\ i < n}
      \cup {i \in {h - ShiftOf[k]} : 0 <= ShiftOf[k] /\ ShiftOf[k] < h}
Placed(n, t) == \A i \in 0 .. n - 1 : \A k \in KeysOf(t[i]) : i \in Near(n, k)

LEMMA NearIs == \A k : LookedInto(k, Home(size, k)) = Near(size, k)
  BY DEF LookedInto, Above, Below, Near

LEMMA PlacedIs == InItsSlots <=> Placed(size, table)
  BY NearIs DEF InItsSlots, Placed, Slots

LEMMA PlacedNext == InItsSlots' <=> Placed(size', table')
<1>1. \A k : LookedInto(k, Home(size, k))' = Near(size', k)
  BY DEF LookedInto, Above, Below, Near
<1>. QED  BY <1>1 DEF InItsSlots, Placed, Slots

LEMMA PlacedMore ==
  ASSUME NEW n, NEW t \in ChainsOf(0 .. n - 1), NEW h \in 0 .. n - 1, NEW b,
         NEW u \in ChainsOf(0 .. n - 1), InFront(0 .. n - 1, t, u, h, b),
         Placed(n, t), h \in Near(n, b.key)
  PROVE  Placed(n, u)
<1>1. ASSUME NEW i \in 0 .. n - 1
      PROVE  KeysOf(u[i]) \subseteq KeysOf(t[i]) \cup (IF i = h THEN {b.key} ELSE {})
  <2>. DEFINE S == 0 .. n - 1
  <2>1. t \in ChainsOf(S) /\ u \in ChainsOf(S) /\ InFront(S, t, u, h, b) /\ h \in S /\ i \in S
    OBVIOUS
  <2>. HIDE DEF S
  <2>. QED  BY <2>1, KeysMore
<1>. QED  BY <1>1 DEF Placed

LEMMA PlacedLess ==
  ASSUME NEW n, NEW t \in ChainsOf(0 .. n - 1), NEW h \in 0 .. n - 1, NEW j,
         NEW u \in ChainsOf(0 .. n - 1), TakenOut(0 .. n - 1, t, u, h, j), Placed(n, t)
  PROVE  Placed(n, u)
<1>1. \A i \in 0 .. n - 1 : KeysOf(u[i]) \subseteq KeysOf(t[i])
  BY KeysLess
<1>. QED  BY <1>1 DEF Placed

LEMMA PlacedEmpty ==
  ASSUME NEW n \in Nat, NEW t, t = [i \in 0 .. n - 1 |-> <<>>]
  PROVE  Placed(n, t)
<1>1. \A i \in 0 .. n - 1 : KeysOf(t[i]) = {}
  BY DEF KeysOf
<1>. QED  BY <1>1 DEF Placed

-----------------------------------------------------------------------------
(***************************************************************************)
(* A bucket goes from the old chains to the new ones                       *)
(***************************************************************************)
LEMMA MovedBucket ==
  ASSUME NEW S, NEW T, NEW t \in ChainsOf(S), NEW o \in ChainsOf(T),
         Injective(t), Injective(o), OnePerKey(Buckets(t) \cup Buckets(o)),
         Buckets(t) \cap Buckets(o) = {}, IsFiniteSet(In(t)), IsFiniteSet(In(o)),
         NEW i \in T, o[i] # <<>>, NEW s \in S
  PROVE  LET b == Head(o[i])
             u == PutIn(t, s, b)
             v == TakeFirst(o, i)
         IN  /\ u \in ChainsOf(S) /\ v \in ChainsOf(T) /\ InFront(S, t, u, s, b)
             /\ Injective(u) /\ Injective(v)
             /\ Buckets(u) \cup Buckets(v) = Buckets(t) \cup Buckets(o)
             /\ Buckets(u) \cap Buckets(v) = {}
             /\ IsFiniteSet(In(u)) /\ IsFiniteSet(In(v))
             /\ Cardinality(In(u)) = Cardinality(In(t)) + 1
             /\ Cardinality(In(o)) = Cardinality(In(v)) + 1
             /\ b \in Buckets(o) /\ b \in Bucket
             /\ \A c \in Buckets(t) : c.key # b.key
<1>. DEFINE b == Head(o[i])
            u == PutIn(t, s, b)
            v == TakeFirst(o, i)
<1>1. v \in ChainsOf(T) /\ TakenOut(T, o, v, i, 1) /\ b = o[i][1]
  BY TakeFirstDoes
<1>. HIDE DEF v, b
<1>2. /\ In(o) = In(v) \cup {<<i, Len(o[i])>>} /\ <<i, Len(o[i])>> \notin In(v)
      /\ b \in Buckets(o) /\ Injective(v) /\ Buckets(v) = Buckets(o) \ {b}
  <2>1. /\ In(o) = In(v) \cup {<<i, Len(o[i])>>} /\ <<i, Len(o[i])>> \notin In(v)
        /\ o[i][1] \in Buckets(o)
        /\ Injective(o) => Injective(v) /\ Buckets(v) = Buckets(o) \ {o[i][1]}
    BY <1>1, OneLess
  <2>. QED  BY <1>1, <2>1
<1>3. b \in Bucket
  <2>1. PICK p \in In(o) : b = B(o, p)
    BY <1>2 DEF Buckets
  <2>. QED  BY <2>1, PlaceIs
<1>4. \A c \in Buckets(t) : c.key # b.key
  BY <1>2 DEF OnePerKey
<1>5. /\ u \in ChainsOf(S) /\ InFront(S, t, u, s, b)
      /\ In(u) = In(t) \cup {<<s, Len(t[s]) + 1>>} /\ <<s, Len(t[s]) + 1>> \notin In(t)
      /\ Buckets(u) = Buckets(t) \cup {b} /\ Injective(u)
  BY <1>3, <1>4, PutInDoes
<1>. HIDE DEF u
<1>6. IsFiniteSet(In(u)) /\ Cardinality(In(u)) = Cardinality(In(t)) + 1
  <2>. DEFINE x == <<s, Len(t[s]) + 1>>
  <2>1. In(u) = In(t) \cup {x} /\ x \notin In(t)
    BY <1>5
  <2>. HIDE DEF x
  <2>. QED  BY <2>1, FS_AddElement
<1>7. IsFiniteSet(In(v)) /\ Cardinality(In(o)) = Cardinality(In(v)) + 1
  <2>1. In(v) \subseteq In(o)
    BY <1>2
  <2>2. IsFiniteSet(In(v))
    BY <2>1, FS_Subset
  <2>. QED  BY <1>2, <2>2, FS_AddElement
<1>8. Buckets(u) \cup Buckets(v) = Buckets(t) \cup Buckets(o) /\ Buckets(u) \cap Buckets(v) = {}
  BY <1>2, <1>5
<1>. QED  BY <1>1, <1>2, <1>3, <1>4, <1>5, <1>6, <1>7, <1>8 DEF u, v, b

-----------------------------------------------------------------------------
(***************************************************************************)
(* The steps that leave the buckets where they are                         *)
(***************************************************************************)
LEMMA SameStore ==
  ASSUME StoreInv, Owned, UNCHANGED <<store, old, owner>>
  PROVE  StoreInv' /\ Owned' /\ Stored' = Stored
<1>1. size' = size /\ table' = table /\ items' = items /\ old' = old /\ owner' = owner
  BY DEF store
<1>2. InItsSlots'
  BY <1>1 DEF StoreInv, InItsSlots, Slots, LookedInto, Above, Below
<1>3. Stored' = Stored
  BY <1>1 DEF Stored
<1>. QED  BY <1>1, <1>2, <1>3 DEF StoreInv, Owned, Keyed, ItemsCounted, Finite

LEMMA SameIter ==
  ASSUME Ahead, UNCHANGED <<store, iter>>, pc' \in {"idle", "call", "put"}
  PROVE  Ahead'
<1>1. size' = size /\ table' = table /\ it' = it /\ seen' = seen
  BY DEF store, iter
<1>2. ItSlot' = ItSlot
  BY <1>1 DEF ItSlot, Slots
<1>3. \A s, n : Gone(s, n)' = Gone(s, n)
  BY <1>1 DEF Gone
<1>. QED  BY <1>1, <1>2, <1>3 DEF Ahead

LEMMA NoIter ==
  ASSUME Changed
  PROVE  Ahead'
  BY DEF Changed, Ahead

LEMMA NoItTyped == NoIt \in [pos : -1 .. -1, bpos : Nat]
  BY DEF NoIt

LEMMA CtlStep ==
  ASSUME IndInv, Ctl
  PROVE  IndInv'
<1>1. UNCHANGED <<store, old, owner, iter, pc, req, res, khash, na, refcnt>> /\ pc = "idle"
  BY DEF Ctl
<1>2. grows' \in BOOLEAN
  BY DEF Ctl
<1>3. norepl' \in BOOLEAN
  BY DEF Ctl
<1>4. TypeOK'
  BY <1>1, <1>2, <1>3 DEF IndInv, TypeOK, store, iter, Slots
<1>5. StoreInv' /\ Owned'
  BY <1>1, SameStore DEF IndInv
<1>6. Calling'
  BY <1>1 DEF IndInv, Calling, PutPending
<1>7. Ahead'
  BY <1>1, SameIter DEF IndInv
<1>. QED  BY <1>4, <1>5, <1>6, <1>7 DEF IndInv

LEMMA AnswerTyped ==
  /\ Nothing \in Answer
  /\ \A v \in Val : [ok |-> TRUE, val |-> v] \in Answer
  BY DEF Nothing, Answer, Val

LEMMA FirstHash == Shaped => 0 \in Slots
  BY DEF Shaped, Slots

\* A call returns, and leaves the table as it is.
LEMMA LookOnly ==
  ASSUME IndInv, NEW a \in Answer, Return(a), UNCHANGED <<store, flags, refcnt, owner, iter>>,
         pc \in {"call", "put"}
  PROVE  IndInv'
<1>1. old' = NoChains /\ old = NoChains /\ khash' = 0
  BY DEF Return, IndInv, Calling
<1>2. TypeOK'
  BY <1>1, Shapes, FirstHash, Bare DEF IndInv, TypeOK, Return, store, flags, iter, Slots
<1>3. StoreInv' /\ Owned'
  BY <1>1, SameStore DEF IndInv
<1>4. Calling'
  BY <1>1 DEF IndInv, Calling, Return, PutPending, flags
<1>5. Ahead'
  BY SameIter DEF IndInv, Return
<1>. QED  BY <1>2, <1>3, <1>4, <1>5 DEF IndInv

LEMMA CallStep ==
  ASSUME IndInv, Misuse = {}, NEW r \in Calls, Call(r)
  PROVE  IndInv'
<1>1. /\ UNCHANGED <<store, flags, refcnt, owner, old, iter>>
      /\ pc = "idle" /\ pc' = "call" /\ req' = r /\ res' = Nothing
      /\ khash' \in {0, Home(size, r.key)}
  BY DEF Call
<1>2. r \in Request /\ r.key \in Keys
  BY DEF Calls, Request
<1>3. Shaped
  BY Shapes DEF IndInv
<1>4. khash' \in Slots
  <2>1. size \in Nat /\ size # 0
    BY <1>3 DEF Shaped
  <2>2. Home(size, r.key) \in Slots
    BY <1>2, <2>1, HomeIsSlot DEF Slots
  <2>. QED  BY <1>1, <1>3, <2>2, FirstHash
<1>5. TypeOK'
  BY <1>1, <1>2, <1>4, AnswerTyped DEF IndInv, TypeOK, store, flags, iter, Slots
<1>6. StoreInv' /\ Owned' /\ Stored' = Stored
  BY <1>1, SameStore DEF IndInv
<1>7. r.op = "put" /\ norepl => \A b \in Stored : b.key # r.key
  <2>. SUFFICES ASSUME r.op = "put", norepl, NEW b \in Stored, b.key = r.key PROVE FALSE
    OBVIOUS
  <2>1. r.key \notin Present
    BY DEF Call
  <2>2. b \in Buckets(table)
    BY <1>1, Bare DEF IndInv, Calling, Stored
  <2>3. \E i \in Slots : r.key \in KeysOf(table[i])
    BY <1>3, <2>2, KeysFound DEF Shaped
  <2>. QED  BY <2>1, <2>3 DEF Present
<1>8. Calling'
  <2>1. old' = NoChains /\ req' \in Calls /\ khash' \in {0, Home(size', req'.key)}
    BY <1>1 DEF IndInv, Calling, store
  <2>4. pc' # "dead" /\ ~na'
    BY <1>1 DEF IndInv, Calling, flags
  <2>2. req'.op = "put" /\ AtLimit' => 4 * size' <= MaxSize
    BY <1>1 DEF Call, AtLimit, store, flags
  <2>3. req'.op = "put" => /\ req'.arg # NULL => owner'[req'.arg] = "caller"
                           /\ norepl' => \A b \in Stored' : b.key # req'.key
    BY <1>1, <1>6, <1>7 DEF Call, flags
  <2>. QED  BY <1>1, <2>1, <2>2, <2>3, <2>4 DEF Calling, PutPending
<1>9. Ahead'
  BY <1>1, SameIter DEF IndInv
<1>. QED  BY <1>5, <1>6, <1>8, <1>9 DEF IndInv

LEMMA GrowFailsStep ==
  ASSUME IndInv, GrowFails
  PROVE  IndInv'
<1>1. /\ UNCHANGED <<store, flags, refcnt, owner, req, res, old, iter>>
      /\ pc = "call" /\ req.op = "put" /\ pc' = "put" /\ khash' = 0
  BY DEF GrowFails, HashDropped
<1>2. TypeOK'
  BY <1>1, Shapes, FirstHash DEF IndInv, TypeOK, store, flags, iter, Slots
<1>3. StoreInv' /\ Owned' /\ Stored' = Stored
  BY <1>1, SameStore DEF IndInv
<1>4. Calling'
  BY <1>1, <1>3 DEF IndInv, Calling, PutPending, flags
<1>5. Ahead'
  BY <1>1, SameIter DEF IndInv
<1>. QED  BY <1>2, <1>3, <1>4, <1>5 DEF IndInv

\* An old table without chains is none.
LEMMA NoneLeftIsBare ==
  ASSUME Shaped, NoneLeft
  PROVE  In(old) = {} /\ Buckets(old) = {}
<1>1. \A i \in DOMAIN old : Len(old[i]) = 0
  BY DEF NoneLeft
<1>2. In(old) = {}
  <2>. SUFFICES ASSUME NEW p \in In(old) PROVE FALSE
    OBVIOUS
  <2>1. p[1] \in DOMAIN old /\ p[2] \in 1 .. Len(old[p[1]])
    BY PlaceIs DEF Shaped
  <2>. QED  BY <1>1, <2>1
<1>. QED  BY <1>2 DEF Buckets

LEMMA OldDropped ==
  ASSUME IndInv, NoneLeft, UNCHANGED <<store, owner>>, old' = NoChains
  PROVE  StoreInv' /\ Owned' /\ Stored' = Stored
<1>1. size' = size /\ table' = table /\ items' = items /\ owner' = owner
  BY DEF store
<1>2. InItsSlots'
  BY <1>1 DEF IndInv, StoreInv, InItsSlots, Slots, LookedInto, Above, Below
<1>3. Buckets(old) = {} /\ Buckets(old') = {} /\ Injective(old') /\ IsFiniteSet(In(old'))
  BY NoneLeftIsBare, Bare, Shapes DEF IndInv
<1>4. Stored' = Stored
  BY <1>1, <1>3 DEF Stored
<1>. QED  BY <1>1, <1>2, <1>3, <1>4 DEF IndInv, StoreInv, Owned, Keyed, ItemsCounted, Finite

LEMMA RehashDoneStep ==
  ASSUME IndInv, RehashDone
  PROVE  IndInv'
<1>1. /\ UNCHANGED <<store, flags, refcnt, owner, req, res, iter>>
      /\ pc = "rehash" /\ pc' = "put" /\ khash' = 0 /\ old' = NoChains
  BY DEF RehashDone, HashDropped
<1>2. TypeOK'
  BY <1>1, Shapes, FirstHash, Bare DEF IndInv, TypeOK, store, flags, iter, Slots
<1>3. StoreInv' /\ Owned' /\ Stored' = Stored
  BY <1>1, OldDropped DEF RehashDone
<1>4. Calling'
  BY <1>1, <1>3 DEF IndInv, Calling, PutPending, flags
<1>5. Ahead'
  BY <1>1, SameIter DEF IndInv
<1>. QED  BY <1>2, <1>3, <1>4, <1>5 DEF IndInv

LEMMA DupDoneStep ==
  ASSUME IndInv, DupDone
  PROVE  IndInv'
<1>1. /\ UNCHANGED <<store, flags, refcnt, owner, req, res, khash, iter>>
      /\ pc = "dup" /\ pc' = "idle" /\ old' = NoChains
  BY DEF DupDone
<1>2. TypeOK'
  BY <1>1, Shapes, Bare DEF IndInv, TypeOK, Calling, store, flags, iter, Slots
<1>3. StoreInv' /\ Owned' /\ Stored' = Stored
  BY <1>1, OldDropped DEF DupDone
<1>4. Calling'
  BY <1>1, <1>3 DEF IndInv, Calling, PutPending, flags
<1>5. Ahead'
  BY <1>1, SameIter DEF IndInv
<1>. QED  BY <1>2, <1>3, <1>4, <1>5 DEF IndInv

LEMMA RefStep ==
  ASSUME IndInv, Ref \/ Unref
  PROVE  IndInv'
<1>1. /\ UNCHANGED <<store, flags, owner, pc, req, res, khash, old, iter>>
      /\ pc = "idle" /\ refcnt' \in 0 .. MaxRefs
  BY SizeAssumption DEF Ref, Unref, IndInv, TypeOK
<1>2. TypeOK'
  BY <1>1 DEF IndInv, TypeOK, store, flags, iter, Slots
<1>3. StoreInv' /\ Owned'
  BY <1>1, SameStore DEF IndInv
<1>4. Calling'
  BY <1>1 DEF IndInv, Calling, PutPending, flags
<1>5. Ahead'
  BY <1>1, SameIter DEF IndInv
<1>. QED  BY <1>2, <1>3, <1>4, <1>5 DEF IndInv

-----------------------------------------------------------------------------
(***************************************************************************)
(* Calls that take effect                                                  *)
(***************************************************************************)
LEMMA PutFacts ==
  ASSUME IndInv, Putting
  PROVE  /\ pc \in {"call", "put"} /\ old = NoChains /\ Buckets(old) = {} /\ Stored = Buckets(table)
         /\ req \in Calls /\ req.op = "put" /\ req.key \in Keys /\ req.arg \in Val
         /\ req.arg # NULL => owner[req.arg] = "caller"
         /\ Hash = Home(size, req.key) /\ Hash \in Slots
         /\ norepl => \A b \in Stored : b.key # req.key
<1>1. pc \in {"call", "put"} /\ req.op = "put"
  BY DEF Putting, IndInv, Calling
<1>2. old = NoChains /\ req \in Calls /\ khash \in {0, Home(size, req.key)}
  BY <1>1 DEF IndInv, Calling
<1>3. req.key \in Keys /\ req.arg \in Val
  BY <1>2 DEF Calls, Request
<1>4. Buckets(old) = {} /\ Stored = Buckets(table)
  BY <1>2, Bare DEF Stored
<1>5. Hash = Home(size, req.key)
  BY <1>2 DEF Hash
<1>6. Hash \in Slots
  <2>1. size \in Nat /\ size # 0
    BY Shapes DEF IndInv, Shaped
  <2>. QED  BY <1>3, <1>5, <2>1, HomeIsSlot DEF Slots
<1>7. /\ req.arg # NULL => owner[req.arg] = "caller"
      /\ norepl => \A b \in Stored : b.key # req.key
  BY <1>1 DEF IndInv, Calling, PutPending
<1>. QED  BY <1>1, <1>2, <1>3, <1>4, <1>5, <1>6, <1>7

LEMMA PutRefusedStep ==
  ASSUME IndInv, PutRefused
  PROVE  IndInv'
<1>1. Nothing \in Answer /\ pc \in {"call", "put"}
  BY AnswerTyped, PutFacts DEF PutRefused
<1>2. Return(Nothing) /\ UNCHANGED <<store, flags, refcnt, owner, iter>>
  BY DEF PutRefused
<1>. QED  BY <1>1, <1>2, LookOnly

\* What n_hash_get and n_hash_remove find.
LEMMA FindFacts ==
  ASSUME IndInv, pc = "call"
  PROVE  /\ Stored = Buckets(table) /\ req \in Calls /\ req.key \in Keys
         /\ Missing => \A b \in Stored : b.key # req.key
         /\ ~Missing => /\ At \in In(table) /\ B(table, At) \in Stored
                        /\ B(table, At).key = req.key /\ B(table, At).val = Datum
                        /\ B(table, At) \in Bucket /\ Datum \in Val
<1>1. req \in Calls /\ req.key \in Keys /\ Stored = Buckets(table)
  <2>1. old = NoChains /\ req \in Calls
    BY DEF IndInv, Calling
  <2>. QED  BY <2>1, Bare DEF Stored, Calls, Request
<1>2. Shaped /\ InItsSlots /\ Injective(table)
  BY Shapes DEF IndInv, StoreInv, Keyed
<1>3. Home(size, req.key) \in Slots
  <2>1. size \in Nat /\ size # 0
    BY <1>2 DEF Shaped
  <2>. QED  BY <1>1, <2>1, HomeIsSlot DEF Slots
<1>4. Missing => \A b \in Stored : b.key # req.key
  BY <1>1, <1>2, Missed DEF Missing
<1>5. ASSUME ~Missing
      PROVE  /\ At \in In(table) /\ B(table, At) \in Stored
             /\ B(table, At).key = req.key /\ B(table, At).val = Datum
             /\ B(table, At) \in Bucket /\ Datum \in Val
  <2>1. /\ At \in In(table) /\ B(table, At).key = req.key
        /\ B(table, At) \in Buckets(table)
    BY <1>1, <1>2, <1>3, <1>5, PlaceFound DEF Missing, At
  <2>2. B(table, At) \in Bucket
    BY <1>2, <2>1, PlaceIs DEF Shaped
  <2>3. B(table, At).val = Datum
    BY DEF B, Datum
  <2>. QED  BY <1>1, <2>1, <2>2, <2>3 DEF Bucket
<1>. QED  BY <1>1, <1>4, <1>5

LEMMA GetStep ==
  ASSUME IndInv, Get
  PROVE  IndInv'
<1>1. pc = "call"
  BY DEF Get, Finding
<1>. DEFINE a == IF Missing THEN Nothing ELSE [ok |-> TRUE, val |-> Datum]
<1>2. a \in Answer
  BY <1>1, FindFacts, AnswerTyped
<1>3. Return(a) /\ UNCHANGED <<store, flags, refcnt, owner, iter>>
  BY DEF Get
<1>. HIDE DEF a
<1>. QED  BY <1>1, <1>2, <1>3, LookOnly

LEMMA RemoveMissStep ==
  ASSUME IndInv, RemoveMiss
  PROVE  IndInv'
<1>1. Nothing \in Answer /\ pc = "call"
  BY AnswerTyped DEF RemoveMiss, Finding
<1>2. Return(Nothing) /\ UNCHANGED <<store, flags, refcnt, owner, iter>>
  BY DEF RemoveMiss
<1>. QED  BY <1>1, <1>2, LookOnly

\* A datum that is handed on.
LEMMA Handed ==
  ASSUME owner \in [Data -> {"caller", "table"}], NEW v \in Val,
         NEW who \in {"caller", "table"}
  PROVE  /\ Hand(v, who) \in [Data -> {"caller", "table"}]
         /\ \A d \in Data : Hand(v, who)[d] = IF d = v THEN who ELSE owner[d]
<1>1. CASE v = NULL
  BY <1>1, DataAssumption DEF Hand
<1>2. CASE v # NULL
  BY <1>2 DEF Hand, Val
<1>. QED  BY <1>1, <1>2

LEMMA Unknown ==
  ASSUME IndInv, Putting, ~Known
  PROVE  \A b \in Stored : b.key # req.key
<1>1. CASE norepl
  BY <1>1, PutFacts
<1>2. CASE ~norepl
  <2>1. Holding(req.key, Home(size, req.key)) = {}
    BY <1>2, PutFacts DEF Known
  <2>2. Shaped /\ InItsSlots
    BY Shapes DEF IndInv, StoreInv
  <2>. QED  BY <2>1, <2>2, PutFacts, Missed
<1>. QED  BY <1>1, <1>2

LEMMA ChainsTyped ==
  ASSUME NEW t \in ChainsOf(Slots)
  PROVE  t \in [Slots -> Seq(Bucket)]
  BY DEF ChainsOf

LEMMA PutNewStep ==
  ASSUME IndInv, PutNew
  PROVE  /\ IndInv' /\ Stored' = Stored \cup {NewBucket(req)}
         /\ Return([ok |-> TRUE, val |-> req.arg])
<1>. DEFINE h == Slot(req.key, Hash)
            b == NewBucket(req)
<1>1. Putting /\ ~Known
  BY DEF PutNew
<1>2. /\ pc \in {"call", "put"} /\ old = NoChains /\ Buckets(old) = {} /\ Stored = Buckets(table)
      /\ req \in Calls /\ req.op = "put" /\ req.key \in Keys /\ req.arg \in Val
      /\ req.arg # NULL => owner[req.arg] = "caller"
      /\ Hash = Home(size, req.key) /\ Hash \in Slots
  BY <1>1, PutFacts
<1>3. Shaped
  BY Shapes DEF IndInv
<1>4. \A c \in Stored : c.key # req.key
  BY <1>1, Unknown
<1>5. h \in Slots /\ h \in LookedInto(req.key, Hash)
  BY <1>2, <1>3, SlotIsLookedInto
<1>6. b \in Bucket /\ b.key = req.key /\ b.val = req.arg
  BY <1>2 DEF NewBucket, Bucket
<1>. HIDE DEF h, b
<1>7. req.key \notin KeysOf(table[h])
  <2>1. \A i \in Slots : req.key \notin KeysOf(table[i])
    BY <1>2, <1>3, <1>4, KeysFound DEF Shaped
  <2>. QED  BY <1>5, <2>1
<1>8. /\ table' = PutIn(table, h, b) /\ items' = items + 1 /\ owner' = Hand(req.arg, "table")
      /\ UNCHANGED <<size, flags, refcnt>> /\ Changed
      /\ Return([ok |-> TRUE, val |-> req.arg])
  BY <1>7 DEF PutNew, PutIn, h, b
<1>9. old' = NoChains /\ Buckets(old') = {} /\ Injective(old') /\ IsFiniteSet(In(old')) /\ khash' = 0
  BY <1>8, Bare DEF Return
<1>10. /\ table' \in ChainsOf(Slots) /\ InFront(Slots, table, table', h, b)
       /\ In(table') = In(table) \cup {<<h, Len(table[h]) + 1>>}
       /\ <<h, Len(table[h]) + 1>> \notin In(table)
       /\ Buckets(table') = Buckets(table) \cup {b} /\ Injective(table')
  BY <1>2, <1>3, <1>4, <1>5, <1>6, <1>8, PutInDoes DEF Shaped, IndInv, StoreInv, Keyed
<1>11. IsFiniteSet(In(table')) /\ items' = Cardinality(In(table')) /\ items' \in Nat
  <2>. DEFINE x == <<h, Len(table[h]) + 1>>
  <2>1. In(table') = In(table) \cup {x} /\ x \notin In(table)
    BY <1>10
  <2>. HIDE DEF x
  <2>2. IsFiniteSet(In(table)) /\ items = Cardinality(In(table)) /\ items \in Nat
    BY DEF IndInv, StoreInv, Finite, ItemsCounted, TypeOK
  <2>. QED  BY <1>8, <2>1, <2>2, FS_AddElement
<1>12. Stored' = Stored \cup {b}
  BY <1>2, <1>9, <1>10 DEF Stored
<1>13. InItsSlots'
  <2>1. Placed(size, table)
    BY PlacedIs DEF IndInv, StoreInv
  <2>2. h \in Near(size, b.key)
    BY <1>2, <1>5, <1>6, NearIs
  <2>3. Placed(size, table')
    BY <1>3, <1>5, <1>10, <2>1, <2>2, PlacedMore DEF Slots, Shaped
  <2>4. InItsSlots' <=> Placed(size', table')
    BY PlacedNext
  <2>. QED  BY <1>8, <2>3, <2>4
<1>14. Keyed'
  <2>1. OnePerKey(Stored')
    BY <1>4, <1>6, <1>12 DEF OnePerKey, IndInv, StoreInv, Keyed
  <2>. QED  BY <1>9, <1>10, <2>1 DEF Keyed
<1>15. \A d \in Data : owner'[d] = IF d = req.arg THEN "table" ELSE owner[d]
  BY <1>2, <1>8, Handed DEF IndInv, TypeOK
<1>16. owner' \in [Data -> {"caller", "table"}]
  BY <1>2, <1>8, Handed DEF IndInv, TypeOK
<1>17. Owned'
  <2>1. \A d \in Data : owner[d] = "table" <=> \E c \in Stored : c.val = d
    BY DEF IndInv, Owned
  <2>2. OnePerDatum(Stored)
    BY DEF IndInv, Owned
  <2>3. req.arg # NULL => req.arg \in Data /\ \A c \in Stored : c.val # req.arg
    BY <1>2, <2>1 DEF Val
  <2>4. OnePerDatum(Stored')
    BY <1>6, <1>12, <2>2, <2>3 DEF OnePerDatum
  <2>5. \A d \in Data : owner'[d] = "table" <=> \E c \in Stored' : c.val = d
    BY <1>6, <1>12, <1>15, <2>1
  <2>. QED  BY <2>4, <2>5 DEF Owned
<1>18. StoreInv'
  BY <1>9, <1>11, <1>13, <1>14 DEF StoreInv, ItemsCounted, Finite
<1>19. TypeOK'
  <2>1. table' \in [Slots -> Seq(Bucket)] /\ 0 \in Slots
    BY <1>3, <1>10, ChainsTyped, FirstHash
  <2>2. [ok |-> TRUE, val |-> req.arg] \in Answer
    BY <1>2, AnswerTyped
  <2>. HIDE DEF Bucket, Answer
  <2>. QED  BY <1>8, <1>9, <1>11, <1>16, <2>1, <2>2, Bare, NoItTyped
            DEF IndInv, TypeOK, Return, Changed, flags, Slots, Shaped
<1>20. Calling'
  BY <1>8, <1>9 DEF IndInv, Calling, Return, PutPending, flags
<1>21. Ahead'
  BY <1>8, NoIter
<1>. QED  BY <1>8, <1>12, <1>17, <1>18, <1>19, <1>20, <1>21 DEF IndInv, b

-----------------------------------------------------------------------------
(***************************************************************************)
(* Where an iterator goes next                                             *)
(***************************************************************************)
\* The least-number principle.
LEMMA LeastElement ==
  ASSUME NEW T \in SUBSET Nat, T # {}
  PROVE  \E n \in T : \A m \in T : n <= m
<1>. DEFINE R == {ss \in Nat \X Nat : ss[1] < ss[2]}
<1>1. R = OpToRel(<, Nat)
  BY DEF OpToRel
<1>2. IsWellFoundedOn(R, Nat)
  BY <1>1, NatLessThanWellFounded
<1>3. PICK x \in T : \A y \in T : <<y, x>> \notin R
  <2>. HIDE DEF R
  <2>. QED  BY <1>2, WFMin
<1>4. ASSUME NEW y \in T PROVE x <= y
  <2>1. <<y, x>> \in Nat \X Nat
    OBVIOUS
  <2>2. ~(y < x)
    BY <1>3, <2>1
  <2>. QED  BY <2>2
<1>. QED  BY <1>4

\* s is the first slot from pos on that is not empty, or n if there is none.
SlotRight(s, n, t, pos) ==
  \/ s = n /\ \A i \in 0 .. n - 1 : pos <= i => t[i] = <<>>
  \/ /\ s \in 0 .. n - 1 /\ pos <= s /\ t[s] # <<>>
     /\ \A j \in 0 .. n - 1 : pos <= j /\ j < s => t[j] = <<>>

LEMMA OneSlotRight ==
  ASSUME NEW n \in Nat, NEW t, NEW pos \in Int, NEW r, NEW s,
         SlotRight(r, n, t, pos), SlotRight(s, n, t, pos)
  PROVE  r = s
  BY DEF SlotRight

LEMMA ItSlotIs == size \in Nat /\ it.pos \in Int => SlotRight(ItSlot, size, table, it.pos)
<1>. SUFFICES ASSUME size \in Nat, it.pos \in Int PROVE SlotRight(ItSlot, size, table, it.pos)
  OBVIOUS
<1>1. CASE \A i \in Slots : it.pos <= i => table[i] = <<>>
  BY <1>1 DEF ItSlot, SlotRight, Slots
<1>2. CASE \E i \in Slots : it.pos <= i /\ table[i] # <<>>
  <2>. DEFINE T == {i \in Slots : it.pos <= i /\ table[i] # <<>>}
              F(i) == /\ it.pos <= i /\ table[i] # <<>>
                      /\ \A j \in Slots : it.pos <= j /\ j < i => table[j] = <<>>
  <2>1. T \in SUBSET Nat /\ T # {}
    BY <1>2 DEF Slots
  <2>2. PICK n \in T : \A m \in T : n <= m
    <3>. HIDE DEF T
    <3>. QED  BY <2>1, LeastElement
  <2>3. n \in Slots /\ F(n)
    <3>1. \A j \in Slots : it.pos <= j /\ j < n => j \notin T
      BY <2>1, <2>2 DEF Slots
    <3>. QED  BY <2>2, <3>1
  <2>4. ItSlot = CHOOSE i \in Slots : F(i)
    BY <1>2 DEF ItSlot
  <2>. HIDE DEF F
  <2>5. ItSlot \in Slots /\ F(ItSlot)
    BY <2>3, <2>4
  <2>. QED  BY <2>5 DEF F, SlotRight, Slots
<1>. QED  BY <1>1, <1>2

LEMMA EmptyChain ==
  ASSUME NEW S, NEW t \in ChainsOf(S), NEW i \in S
  PROVE  t[i] = <<>> <=> Len(t[i]) = 0
<1>1. t[i] \in Seq(Bucket)
  BY DEF ChainsOf
<1>. HIDE DEF Bucket
<1>. QED  BY <1>1, EmptySeq

\* An iterator goes by the lengths of the chains and the keys in them.
LEMMA SameWay ==
  ASSUME Shaped, it.pos \in Int, Ahead, UNCHANGED <<size, iter>>, pc' \in {"idle", "call", "put"},
         table' \in ChainsOf(Slots), In(table') = In(table),
         \A i \in Slots : Len(table'[i]) = Len(table[i]),
         \A q \in In(table) : B(table', q).key = B(table, q).key
  PROVE  Ahead'
<1>1. \A i \in Slots : table'[i] = <<>> <=> table[i] = <<>>
  BY EmptyChain DEF Shaped
<1>2. size' = size /\ it' = it /\ seen' = seen
  BY DEF iter
<1>3. ItSlot' = ItSlot
  <2>1. SlotRight(ItSlot, size, table, it.pos)
    BY ItSlotIs DEF Shaped
  <2>2. (size \in Nat /\ it.pos \in Int => SlotRight(ItSlot, size, table, it.pos))'
    BY ItSlotIs, PTL
  <2>3. SlotRight(ItSlot', size, table', it.pos)
    BY <1>2, <2>2 DEF Shaped
  <2>4. SlotRight(ItSlot', size, table, it.pos)
    BY <1>1, <2>3 DEF SlotRight, Slots
  <2>. QED  BY <2>1, <2>4, OneSlotRight DEF Shaped
<1>4. \A s, n : Gone(s, n)' = Gone(s, n)
  BY DEF Gone
<1>5. ASSUME it # NoIt, ItSlot # size PROVE Len(table'[ItSlot]) = Len(table[ItSlot])
  <2>1. CASE ItSlot \in Slots
    BY <2>1
  <2>2. ItSlot \in Slots
    BY <1>5, ItSlotIs DEF Shaped, SlotRight, Slots
  <2>. QED  BY <2>1, <2>2
<1>. QED  BY <1>2, <1>3, <1>4, <1>5 DEF Ahead

LEMMA PutReplacesStep ==
  ASSUME IndInv, PutReplaces
  PROVE  /\ IndInv' /\ Return([ok |-> TRUE, val |-> req.arg])
         /\ \E c \in Stored : /\ c.key = req.key
                              /\ Stored' = (Stored \ {c}) \cup {[key |-> c.key, val |-> req.arg]}
<1>. DEFINE p == Place(req.key, Hash)
            c == B(table, p)
            b == [key |-> c.key, val |-> req.arg]
<1>1. Putting /\ Known
  BY DEF PutReplaces
<1>2. /\ pc \in {"call", "put"} /\ old = NoChains /\ Buckets(old) = {} /\ Stored = Buckets(table)
      /\ req \in Calls /\ req.op = "put" /\ req.key \in Keys /\ req.arg \in Val
      /\ req.arg # NULL => owner[req.arg] = "caller"
      /\ Hash = Home(size, req.key) /\ Hash \in Slots
  BY <1>1, PutFacts
<1>3. Shaped /\ Injective(table)
  BY Shapes DEF IndInv, StoreInv, Keyed
<1>4. p \in In(table) /\ c.key = req.key /\ c \in Buckets(table)
  BY <1>1, <1>2, <1>3, PlaceFound DEF Known
<1>5. c \in Bucket /\ c = table[p[1]][p[2]]
  BY <1>3, <1>4, PlaceIs DEF Shaped
<1>6. b.key = req.key /\ b.val = req.arg
  BY <1>4
<1>7. /\ table' = SetDatum(table, p, req.arg)
      /\ owner' = IF c.val = NULL THEN Hand(req.arg, "table") ELSE GivenFor(c.val)
      /\ UNCHANGED <<size, items, flags, refcnt, iter>>
      /\ Return([ok |-> TRUE, val |-> req.arg])
  BY DEF PutReplaces, SetDatum, B
<1>. HIDE DEF p, c, b
<1>8. old' = NoChains /\ Buckets(old') = {} /\ Injective(old') /\ IsFiniteSet(In(old')) /\ khash' = 0
  BY <1>7, Bare DEF Return
<1>9. /\ table' \in ChainsOf(Slots) /\ In(table') = In(table) /\ Injective(table')
      /\ \A i \in Slots : /\ Len(table'[i]) = Len(table[i])
                          /\ KeysOf(table'[i]) = KeysOf(table[i])
      /\ \A q \in In(table) : B(table', q).key = B(table, q).key
      /\ Buckets(table') = (Buckets(table) \ {c}) \cup {b}
  <2>. DEFINE u == SetDatum(table, p, req.arg)
  <2>1. /\ u \in ChainsOf(Slots) /\ In(u) = In(table) /\ Injective(u)
        /\ \A i \in Slots : /\ Len(u[i]) = Len(table[i]) /\ KeysOf(u[i]) = KeysOf(table[i])
        /\ \A q \in In(table) : B(u, q).key = B(table, q).key
        /\ Buckets(u) = (Buckets(table) \ {B(table, p)})
                        \cup {[key |-> B(table, p).key, val |-> req.arg]}
    BY <1>2, <1>3, <1>4, SetDatumDoes DEF Shaped
  <2>. HIDE DEF u
  <2>2. table' = u
    BY <1>7 DEF u
  <2>. QED  BY <2>1, <2>2 DEF b, c
<1>10. Stored' = (Stored \ {c}) \cup {b}
  BY <1>2, <1>8, <1>9 DEF Stored
<1>11. InItsSlots'
  BY <1>7, <1>9, PlacedIs, PlacedNext DEF IndInv, StoreInv, Placed, Slots
<1>12. Keyed'
  <2>1. OnePerKey(Stored')
    BY <1>2, <1>4, <1>6, <1>10 DEF OnePerKey, IndInv, StoreInv, Keyed
  <2>. QED  BY <1>8, <1>9, <2>1 DEF Keyed
<1>13. StoreInv'
  BY <1>7, <1>8, <1>9, <1>11, <1>12 DEF IndInv, StoreInv, ItemsCounted, Finite
<1>14. \A d \in Data : owner[d] = "table" <=> \E a \in Stored : a.val = d
  BY DEF IndInv, Owned
<1>15. c.val # NULL => c.val \in Data /\ owner[c.val] = "table" /\ c.val # req.arg
  BY <1>2, <1>4, <1>5, <1>14 DEF Bucket, Val
<1>16. /\ owner' \in [Data -> {"caller", "table"}]
       /\ \A d \in Data : owner'[d] = IF d = c.val THEN "caller"
                                      ELSE IF d = req.arg THEN "table" ELSE owner[d]
  <2>1. /\ Hand(req.arg, "table") \in [Data -> {"caller", "table"}]
        /\ \A d \in Data : Hand(req.arg, "table")[d] = IF d = req.arg THEN "table" ELSE owner[d]
    BY <1>2, Handed DEF IndInv, TypeOK
  <2>2. CASE c.val = NULL
    BY <1>7, <2>1, <2>2, DataAssumption
  <2>3. CASE c.val # NULL
    BY <1>7, <1>15, <2>1, <2>3 DEF GivenFor
  <2>. QED  BY <2>2, <2>3
<1>17. Owned'
  <2>1. OnePerDatum(Stored)
    BY DEF IndInv, Owned
  <2>2. req.arg # NULL => \A a \in Stored : a.val # req.arg
    BY <1>2, <1>14 DEF Val
  <2>3. OnePerDatum(Stored')
    BY <1>6, <1>10, <2>1, <2>2 DEF OnePerDatum
  <2>4. ASSUME NEW d \in Data
        PROVE  owner'[d] = "table" <=> \E a \in Stored' : a.val = d
    <3>1. d # NULL
      BY DataAssumption
    <3>2. CASE d = req.arg
      BY <1>6, <1>10, <1>15, <1>16, <3>1, <3>2
    <3>3. CASE d # req.arg /\ d = c.val
      BY <1>2, <1>4, <1>6, <1>10, <1>16, <2>1, <3>1, <3>3 DEF OnePerDatum
    <3>4. CASE d # req.arg /\ d # c.val
      BY <1>6, <1>10, <1>14, <1>16, <3>4
    <3>. QED  BY <3>2, <3>3, <3>4
  <2>. QED  BY <2>3, <2>4 DEF Owned
<1>18. TypeOK'
  <2>1. table' \in [Slots -> Seq(Bucket)] /\ 0 \in Slots
    BY <1>3, <1>9, ChainsTyped, FirstHash
  <2>2. [ok |-> TRUE, val |-> req.arg] \in Answer
    BY <1>2, AnswerTyped
  <2>. HIDE DEF Bucket, Answer
  <2>. QED  BY <1>7, <1>8, <1>16, <2>1, <2>2, Bare
            DEF IndInv, TypeOK, Return, flags, iter, Slots, Shaped
<1>19. Calling'
  BY <1>7, <1>8 DEF IndInv, Calling, Return, PutPending, flags
<1>20. Ahead'
  <2>1. \A i \in Slots : Len(table'[i]) = Len(table[i])
    BY <1>9
  <2>2. UNCHANGED <<size, iter>> /\ pc' = "idle"
    BY <1>7 DEF Return
  <2>3. it.pos \in Int
    BY DEF IndInv, TypeOK
  <2>. QED  BY <1>3, <1>9, <2>1, <2>2, <2>3, SameWay DEF IndInv
<1>21. c \in Stored
  BY <1>2, <1>4
<1>22. IndInv'
  BY <1>13, <1>17, <1>18, <1>19, <1>20 DEF IndInv
<1>. QED  BY <1>4, <1>7, <1>10, <1>21, <1>22 DEF b

LEMMA RemoveStep ==
  ASSUME IndInv, Remove
  PROVE  /\ IndInv' /\ Return([ok |-> TRUE, val |-> Datum])
         /\ \E c \in Stored : c.key = req.key /\ c.val = Datum /\ Stored' = Stored \ {c}
<1>. DEFINE h == At[1]
            j == At[2]
            c == B(table, At)
<1>1. pc = "call" /\ ~Missing
  BY DEF Remove, Finding
<1>2. /\ Stored = Buckets(table) /\ req \in Calls /\ At \in In(table) /\ c \in Stored
      /\ c.key = req.key /\ c.val = Datum /\ c \in Bucket /\ Datum \in Val
  BY <1>1, FindFacts
<1>3. Shaped /\ Injective(table)
  BY Shapes DEF IndInv, StoreInv, Keyed
<1>4. At = <<h, j>> /\ h \in Slots /\ j \in 1 .. Len(table[h]) /\ c = table[h][j]
  BY <1>2, <1>3, PlaceIs DEF Shaped
<1>5. ~na
  BY DEF IndInv, Calling
<1>6. /\ table' = TakeOut(table, h, j) /\ items' = items - 1 /\ owner' = Hand(Datum, "caller")
      /\ Changed /\ UNCHANGED <<size, flags, refcnt>>
      /\ Return([ok |-> TRUE, val |-> Datum])
  BY <1>5 DEF Remove, Without, TakeOut
<1>. HIDE DEF c, h, j
<1>7. old' = NoChains /\ Buckets(old') = {} /\ Injective(old') /\ IsFiniteSet(In(old')) /\ khash' = 0
  BY <1>6, Bare DEF Return
<1>8. table' \in ChainsOf(Slots) /\ TakenOut(Slots, table, table', h, j)
  BY <1>3, <1>4, <1>6, TakeOutDoes DEF Shaped
<1>9. /\ In(table) = In(table') \cup {<<h, Len(table[h])>>}
      /\ <<h, Len(table[h])>> \notin In(table')
      /\ Injective(table') /\ Buckets(table') = Buckets(table) \ {c}
  <2>1. /\ In(table) = In(table') \cup {<<h, Len(table[h])>>}
        /\ <<h, Len(table[h])>> \notin In(table')
        /\ Injective(table) =>
             Injective(table') /\ Buckets(table') = Buckets(table) \ {table[h][j]}
    BY <1>3, <1>4, <1>8, OneLess DEF Shaped
  <2>. QED  BY <1>3, <1>4, <2>1
<1>10. IsFiniteSet(In(table')) /\ items' = Cardinality(In(table')) /\ items' \in Nat
  <2>. DEFINE x == <<h, Len(table[h])>>
  <2>1. In(table) = In(table') \cup {x} /\ x \notin In(table')
    BY <1>9
  <2>. HIDE DEF x
  <2>2. IsFiniteSet(In(table)) /\ items = Cardinality(In(table)) /\ items \in Nat
    BY DEF IndInv, StoreInv, Finite, ItemsCounted, TypeOK
  <2>3. IsFiniteSet(In(table'))
    BY <2>1, <2>2, FS_Subset
  <2>4. Cardinality(In(table')) \in Nat
    BY <2>3, FS_CardinalityType
  <2>. QED  BY <1>6, <2>1, <2>2, <2>3, <2>4, FS_AddElement
<1>11. Stored' = Stored \ {c}
  BY <1>2, <1>7, <1>9 DEF Stored
<1>12. InItsSlots'
  <2>1. Placed(size, table)
    BY PlacedIs DEF IndInv, StoreInv
  <2>2. Placed(size, table')
    BY <1>3, <1>4, <1>8, <2>1, PlacedLess DEF Slots, Shaped
  <2>. QED  BY <1>6, <2>2, PlacedNext
<1>13. Keyed'
  <2>1. OnePerKey(Stored')
    BY <1>11 DEF OnePerKey, IndInv, StoreInv, Keyed
  <2>. QED  BY <1>7, <1>9, <2>1 DEF Keyed
<1>14. StoreInv'
  BY <1>7, <1>10, <1>12, <1>13 DEF StoreInv, ItemsCounted, Finite
<1>15. /\ owner' \in [Data -> {"caller", "table"}]
       /\ \A d \in Data : owner'[d] = IF d = Datum THEN "caller" ELSE owner[d]
  BY <1>2, <1>6, Handed DEF IndInv, TypeOK
<1>16. Owned'
  <2>1. OnePerDatum(Stored) /\ \A d \in Data : owner[d] = "table" <=> \E a \in Stored : a.val = d
    BY DEF IndInv, Owned
  <2>2. OnePerDatum(Stored')
    BY <1>11, <2>1 DEF OnePerDatum
  <2>3. ASSUME NEW d \in Data
        PROVE  owner'[d] = "table" <=> \E a \in Stored' : a.val = d
    <3>1. d # NULL
      BY DataAssumption
    <3>2. CASE d = Datum
      BY <1>2, <1>11, <1>15, <2>1, <3>1, <3>2 DEF OnePerDatum
    <3>3. CASE d # Datum
      BY <1>2, <1>11, <1>15, <2>1, <3>3
    <3>. QED  BY <3>2, <3>3
  <2>. QED  BY <2>2, <2>3 DEF Owned
<1>17. TypeOK'
  <2>1. table' \in [Slots -> Seq(Bucket)] /\ 0 \in Slots
    BY <1>3, <1>8, ChainsTyped, FirstHash
  <2>2. [ok |-> TRUE, val |-> Datum] \in Answer
    BY <1>2, AnswerTyped
  <2>. HIDE DEF Bucket, Answer
  <2>. QED  BY <1>6, <1>7, <1>10, <1>15, <2>1, <2>2, Bare, NoItTyped
            DEF IndInv, TypeOK, Return, Changed, flags, Slots, Shaped
<1>18. Calling'
  BY <1>6, <1>7 DEF IndInv, Calling, Return, PutPending, flags
<1>19. Ahead'
  BY <1>6, NoIter
<1>20. IndInv'
  BY <1>14, <1>16, <1>17, <1>18, <1>19 DEF IndInv
<1>. QED  BY <1>2, <1>6, <1>11, <1>20

-----------------------------------------------------------------------------
(***************************************************************************)
(* The table grows, is copied, emptied and freed                           *)
(***************************************************************************)
\* The chains are the old ones now, and the new table is empty.
LEMMA Renewed ==
  ASSUME IndInv, old = NoChains, old' = table, items' = 0, owner' = owner,
         size' \in Nat, table' = [i \in 0 .. size' - 1 |-> <<>>]
  PROVE  /\ StoreInv' /\ Owned' /\ Stored' = Stored
         /\ table' \in ChainsOf(0 .. size' - 1) /\ Cardinality(In(table')) = 0
<1>1. /\ table' \in ChainsOf(0 .. size' - 1) /\ In(table') = {} /\ Buckets(table') = {}
      /\ IsFiniteSet(In(table')) /\ Cardinality(In(table')) = 0 /\ Injective(table')
  <2>. DEFINE S == 0 .. size' - 1
  <2>1. table' = [i \in S |-> <<>>]
    OBVIOUS
  <2>. HIDE DEF S
  <2>2. /\ table' \in ChainsOf(S) /\ In(table') = {} /\ Buckets(table') = {}
        /\ IsFiniteSet(In(table')) /\ Cardinality(In(table')) = 0 /\ Injective(table')
    BY <2>1, Empty
  <2>. QED  BY <2>2 DEF S
<1>2. Buckets(old) = {}
  BY Bare
<1>3. Stored' = Stored
  BY <1>1, <1>2 DEF Stored
<1>4. InItsSlots'
  BY PlacedEmpty, PlacedNext
<1>5. Keyed' /\ ItemsCounted' /\ Finite' /\ Owned'
  BY <1>1, <1>3 DEF IndInv, StoreInv, Keyed, ItemsCounted, Finite, Owned
<1>. QED  BY <1>1, <1>3, <1>4, <1>5 DEF StoreInv

LEMMA GrowStep ==
  ASSUME IndInv, Grow
  PROVE  IndInv' /\ Stored' = Stored
<1>1. /\ pc = "call" /\ req.op = "put" /\ AtLimit /\ pc' = "rehash"
      /\ size' = 4 * size /\ items' = 0 /\ old' = table /\ Changed
      /\ table' = [i \in 0 .. size' - 1 |-> <<>>]
      /\ UNCHANGED <<flags, refcnt, owner, req, res, khash>>
  BY DEF Grow
<1>2. old = NoChains /\ 4 * size <= MaxSize
  BY <1>1 DEF IndInv, Calling
<1>3. size \in Nat /\ 4 <= size /\ table \in ChainsOf(Slots)
  BY Shapes DEF IndInv, Shaped
<1>4. size' \in Nat /\ 4 <= size' /\ size <= size'
  BY <1>1, <1>3
<1>5. /\ StoreInv' /\ Owned' /\ Stored' = Stored
      /\ table' \in ChainsOf(0 .. size' - 1)
  BY <1>1, <1>2, <1>4, Renewed
<1>6. TypeOK'
  <2>1. table' \in [Slots' -> Seq(Bucket)]
    BY <1>5 DEF ChainsOf, Slots
  <2>2. old' \in [DOMAIN old' -> Seq(Bucket)] /\ DOMAIN old' \subseteq Slots'
    BY <1>1, <1>3, <1>4 DEF ChainsOf, Slots
  <2>3. khash' \in Slots'
    BY <1>1, <1>3, <1>4 DEF IndInv, TypeOK, Slots
  <2>4. it' \in [pos : -1 .. size', bpos : Nat] /\ seen' \subseteq Keys
    BY <1>1, <1>4, NoItTyped DEF Changed
  <2>5. size' <= MaxSize
    BY <1>1, <1>2
  <2>. HIDE DEF Bucket
  <2>. QED  BY <1>1, <1>4, <2>1, <2>2, <2>3, <2>4, <2>5 DEF IndInv, TypeOK, flags
<1>7. Calling'
  BY <1>1, <1>5 DEF IndInv, Calling, PutPending, flags
<1>8. Ahead'
  BY <1>1, NoIter
<1>. QED  BY <1>5, <1>6, <1>7, <1>8 DEF IndInv

\* The first bucket of an old chain goes to a slot where its key may be.
LEMMA MovedStep ==
  ASSUME IndInv, NEW i \in DOMAIN old, old[i] # <<>>, NEW s \in Slots,
         s \in LookedInto(Head(old[i]).key, Home(size, Head(old[i]).key)),
         table' = PutIn(table, s, Head(old[i])), old' = TakeFirst(old, i),
         items' = items + 1, UNCHANGED <<size, owner>>
  PROVE  /\ StoreInv' /\ Owned' /\ Stored' = Stored
         /\ table' \in [Slots -> Seq(Bucket)] /\ items' \in Nat
         /\ old' \in [DOMAIN old' -> Seq(Bucket)] /\ DOMAIN old' \subseteq Slots
         /\ Cardinality(In(old')) \in Nat
         /\ items' + Cardinality(In(old')) = items + Cardinality(In(old))
<1>. DEFINE b == Head(old[i])
<1>1. Shaped
  BY Shapes DEF IndInv
<1>2. /\ table' \in ChainsOf(Slots) /\ old' \in ChainsOf(DOMAIN old)
      /\ InFront(Slots, table, table', s, b)
      /\ Injective(table') /\ Injective(old')
      /\ Buckets(table') \cup Buckets(old') = Buckets(table) \cup Buckets(old)
      /\ Buckets(table') \cap Buckets(old') = {}
      /\ IsFiniteSet(In(table')) /\ IsFiniteSet(In(old'))
      /\ Cardinality(In(table')) = Cardinality(In(table)) + 1
      /\ Cardinality(In(old)) = Cardinality(In(old')) + 1
  <2>. DEFINE T == DOMAIN old
              u == PutIn(table, s, b)
              v == TakeFirst(old, i)
  <2>1. /\ table \in ChainsOf(Slots) /\ old \in ChainsOf(T) /\ i \in T
        /\ Injective(table) /\ Injective(old) /\ OnePerKey(Buckets(table) \cup Buckets(old))
        /\ Buckets(table) \cap Buckets(old) = {}
        /\ IsFiniteSet(In(table)) /\ IsFiniteSet(In(old))
    BY <1>1 DEF Shaped, IndInv, StoreInv, Keyed, Finite, Stored
  <2>. HIDE DEF T
  <2>2. /\ u \in ChainsOf(Slots) /\ v \in ChainsOf(T) /\ InFront(Slots, table, u, s, b)
        /\ Injective(u) /\ Injective(v)
        /\ Buckets(u) \cup Buckets(v) = Buckets(table) \cup Buckets(old)
        /\ Buckets(u) \cap Buckets(v) = {}
        /\ IsFiniteSet(In(u)) /\ IsFiniteSet(In(v))
        /\ Cardinality(In(u)) = Cardinality(In(table)) + 1
        /\ Cardinality(In(old)) = Cardinality(In(v)) + 1
    BY <2>1, MovedBucket
  <2>3. table' = u /\ old' = v
    OBVIOUS
  <2>. HIDE DEF u, v, b
  <2>. QED  BY <2>2, <2>3 DEF T
<1>. HIDE DEF b
<1>3. Stored' = Stored
  BY <1>2 DEF Stored
<1>4. items = Cardinality(In(table)) /\ items \in Nat
  BY DEF IndInv, StoreInv, ItemsCounted, TypeOK
<1>5. Cardinality(In(old')) \in Nat
  BY <1>2, FS_CardinalityType
<1>6. InItsSlots'
  <2>1. Placed(size, table) /\ s \in Near(size, b.key)
    BY PlacedIs, NearIs DEF IndInv, StoreInv, b
  <2>2. Placed(size, table')
    BY <1>1, <1>2, <2>1, PlacedMore DEF Slots, Shaped
  <2>. QED  BY <2>2, PlacedNext
<1>7. StoreInv' /\ Owned'
  BY <1>2, <1>3, <1>4, <1>6
     DEF IndInv, StoreInv, Keyed, ItemsCounted, Finite, Owned
<1>8. table' \in [Slots -> Seq(Bucket)] /\ old' \in [DOMAIN old' -> Seq(Bucket)]
      /\ DOMAIN old' \subseteq Slots
  BY <1>2 DEF ChainsOf, IndInv, TypeOK
<1>9. items' \in Nat /\ items' + Cardinality(In(old')) = items + Cardinality(In(old))
  <2>1. Cardinality(In(old)) = Cardinality(In(old')) + 1 /\ items' = items + 1
    BY <1>2
  <2>. QED  BY <1>4, <1>5, <2>1
<1>. QED  BY <1>3, <1>5, <1>7, <1>8, <1>9

\* Its key is in no other bucket.
LEMMA MovedIsNew ==
  ASSUME IndInv, NEW i \in DOMAIN old, old[i] # <<>>
  PROVE  /\ Head(old[i]).key \in Keys /\ Head(old[i]) \in Stored
         /\ \A j \in Slots : Head(old[i]).key \notin KeysOf(table[j])
<1>. DEFINE b == Head(old[i])
<1>1. Shaped /\ i \in DOMAIN old
  BY Shapes DEF IndInv
<1>2. b \in Buckets(old) /\ b \in Bucket
  <2>1. old[i] \in Seq(Bucket) /\ Len(old[i]) # 0 /\ Len(old[i]) \in Nat
    BY <1>1, EmptyChain DEF Shaped, ChainsOf
  <2>2. b = old[i][1] /\ 1 \in 1 .. Len(old[i])
    BY <2>1
  <2>3. <<i, 1>> \in In(old) /\ B(old, <<i, 1>>) = b
    BY <1>1, <2>2, IsPlace DEF Shaped
  <2>4. b \in Bucket
    BY <1>1, <2>3, PlaceIs DEF Shaped
  <2>. QED  BY <2>3, <2>4 DEF Buckets
<1>. HIDE DEF b
<1>3. \A c \in Buckets(table) : c.key # b.key
  BY <1>2 DEF IndInv, StoreInv, Keyed, OnePerKey, Stored
<1>4. \A j \in Slots : b.key \notin KeysOf(table[j])
  BY <1>1, <1>3, KeysFound DEF Shaped
<1>5. b.key \in Keys /\ b \in Stored
  BY <1>2 DEF Bucket, Stored
<1>. QED  BY <1>4, <1>5 DEF b

LEMMA PutNodeStep ==
  ASSUME IndInv, PutNode
  PROVE  IndInv' /\ Stored' = Stored /\ pc' = pc
<1>1. PICK i \in DOMAIN old :
        /\ FirstLeft(i)
        /\ table' = [table EXCEPT ![Home(size, Head(old[i]).key)] = <<Head(old[i])>> \o @]
        /\ pc' = IF Head(old[i]).key \in KeysOf(table[Home(size, Head(old[i]).key)])
                 THEN "dead" ELSE pc
        /\ old' = Remaining(i)
  BY DEF PutNode
<1>2. /\ pc = "rehash" /\ items' = items + 1
      /\ UNCHANGED <<size, flags, refcnt, owner, req, res, khash, iter>>
  BY DEF PutNode
<1>. DEFINE b == Head(old[i])
            h == Home(size, b.key)
<1>3. old[i] # <<>>
  BY <1>1 DEF FirstLeft
<1>4. Shaped
  BY Shapes DEF IndInv
<1>5. b.key \in Keys /\ \A j \in Slots : b.key \notin KeysOf(table[j])
  BY <1>3, MovedIsNew
<1>6. h \in Slots /\ h \in LookedInto(b.key, h)
  <2>1. size \in Nat /\ size # 0
    BY <1>4 DEF Shaped
  <2>. QED  BY <1>5, <2>1, HomeIsSlot DEF Slots, LookedInto
<1>7. table' = PutIn(table, h, b) /\ old' = TakeFirst(old, i) /\ pc' = pc
  BY <1>1, <1>5, <1>6 DEF PutIn, TakeFirst, Remaining
<1>8. /\ StoreInv' /\ Owned' /\ Stored' = Stored
      /\ table' \in [Slots -> Seq(Bucket)] /\ items' \in Nat
      /\ old' \in [DOMAIN old' -> Seq(Bucket)] /\ DOMAIN old' \subseteq Slots
  BY <1>2, <1>3, <1>6, <1>7, MovedStep
<1>9. TypeOK'
  <2>. HIDE DEF Bucket
  <2>. QED  BY <1>2, <1>7, <1>8 DEF IndInv, TypeOK, flags, iter, Slots
<1>10. Calling'
  BY <1>2, <1>7, <1>8 DEF IndInv, Calling, PutPending, flags
<1>11. Ahead'
  BY <1>2 DEF IndInv, Ahead, iter
<1>. QED  BY <1>7, <1>8, <1>9, <1>10, <1>11 DEF IndInv

LEMMA DupNodeStep ==
  ASSUME IndInv, DupNode
  PROVE  IndInv' /\ Stored' = Stored /\ pc' = pc
<1>1. PICK i \in DOMAIN old :
        LET k == Head(old[i]).key
            s == Slot(k, Home(size, k))
        IN  /\ FirstLeft(i)
            /\ table' = [table EXCEPT ![s] = <<Head(old[i])>> \o @]
            /\ pc' = IF AtLimit \/ (~norepl /\ Holding(k, Home(size, k)) # {})
                        \/ k \in KeysOf(table[s])
                     THEN "dead" ELSE pc
            /\ old' = Remaining(i)
  BY DEF DupNode
<1>2. /\ pc = "dup" /\ items' = items + 1
      /\ UNCHANGED <<size, flags, refcnt, owner, req, res, khash, iter>>
  BY DEF DupNode
<1>. DEFINE b == Head(old[i])
            h == Home(size, b.key)
            s == Slot(b.key, h)
<1>3. old[i] # <<>>
  BY <1>1 DEF FirstLeft
<1>4. Shaped
  BY Shapes DEF IndInv
<1>5. b.key \in Keys /\ \A j \in Slots : b.key \notin KeysOf(table[j])
  BY <1>3, MovedIsNew
<1>6. s \in Slots /\ s \in LookedInto(b.key, h) /\ LookedInto(b.key, h) \subseteq Slots
  <2>1. size \in Nat /\ size # 0
    BY <1>4 DEF Shaped
  <2>2. h \in Slots
    BY <1>5, <2>1, HomeIsSlot DEF Slots
  <2>. QED  BY <1>4, <1>5, <2>2, SlotIsLookedInto
<1>7. Holding(b.key, h) = {}
  BY <1>5, <1>6 DEF Holding
<1>8. table' = PutIn(table, s, b) /\ old' = TakeFirst(old, i)
  BY <1>1 DEF PutIn, TakeFirst, Remaining
<1>9. /\ StoreInv' /\ Owned' /\ Stored' = Stored
      /\ table' \in [Slots -> Seq(Bucket)] /\ items' \in Nat
      /\ old' \in [DOMAIN old' -> Seq(Bucket)] /\ DOMAIN old' \subseteq Slots
      /\ Cardinality(In(old')) \in Nat
      /\ items' + Cardinality(In(old')) = items + Cardinality(In(old))
  BY <1>2, <1>3, <1>6, <1>8, MovedStep
<1>10. ~AtLimit
  <2>1. SUFFICES ASSUME grows PROVE ~(size - items <= size \div 3)
    BY DEF AtLimit
  <2>2. size - (items + Cardinality(In(old)) - 1) > size \div 3
    BY <1>2, <2>1 DEF IndInv, Calling
  <2>3. items \in Nat /\ size \in Nat
    BY DEF IndInv, TypeOK
  <2>4. IsFiniteSet(In(old))
    BY DEF IndInv, StoreInv, Finite
  <2>. DEFINE c == Cardinality(In(old))
              d == Cardinality(In(old'))
              m == size \div 3
  <2>5. c \in Nat /\ d \in Nat /\ items + c = (items + 1) + d /\ m \in Int
    BY <1>2, <1>9, <2>3, <2>4, FS_CardinalityType
  <2>6. size - (items + c - 1) > m
    BY <2>2
  <2>. HIDE DEF c, d, m
  <2>7. ~(size - items <= m)
    BY <2>3, <2>5, <2>6
  <2>. QED  BY <2>7 DEF m
<1>11. pc' = pc
  BY <1>1, <1>5, <1>6, <1>7, <1>10
<1>12. TypeOK'
  <2>. HIDE DEF Bucket
  <2>. QED  BY <1>2, <1>9, <1>11 DEF IndInv, TypeOK, flags, iter, Slots
<1>13. Calling'
  <2>1. grows' => size' - (items' + Cardinality(In(old')) - 1) > size' \div 3
    <3>1. grows => size - (items + Cardinality(In(old)) - 1) > size \div 3
      BY <1>2 DEF IndInv, Calling
    <3>. DEFINE c == items + Cardinality(In(old))
                d == items' + Cardinality(In(old'))
    <3>2. c = d /\ size' = size /\ grows' = grows
      BY <1>2, <1>9 DEF flags
    <3>3. items' + Cardinality(In(old')) - 1 = d - 1 /\ items + Cardinality(In(old)) - 1 = c - 1
      <4>1. IsFiniteSet(In(old)) /\ items \in Nat
        BY DEF IndInv, StoreInv, Finite, TypeOK
      <4>2. Cardinality(In(old)) \in Nat
        BY <4>1, FS_CardinalityType
      <4>. QED  BY <1>9, <4>1, <4>2
    <3>. HIDE DEF c, d
    <3>. QED  BY <3>1, <3>2, <3>3
  <2>. HIDE DEF b, h, s
  <2>. QED  BY <1>2, <1>9, <1>11, <2>1 DEF IndInv, Calling, PutPending, flags
<1>14. Ahead'
  BY <1>2 DEF IndInv, Ahead, iter
<1>. QED  BY <1>9, <1>11, <1>12, <1>13, <1>14 DEF IndInv

LEMMA DupStep ==
  ASSUME IndInv, Dup
  PROVE  IndInv' /\ Stored' = Stored
<1>1. /\ pc = "idle" /\ pc' = "dup" /\ old' = table /\ items' = 0 /\ Changed
      /\ na' = FALSE /\ refcnt' = 0
      /\ table' = [i \in Slots |-> <<>>]
      /\ grows => size - (items - 1) > size \div 3
      /\ UNCHANGED <<size, grows, norepl, owner, req, res, khash>>
  BY DEF Dup
<1>2. old = NoChains /\ req = NoCall
  BY <1>1 DEF IndInv, Calling, TypeOK
<1>3. size \in Nat /\ 4 <= size /\ table \in ChainsOf(Slots)
  BY Shapes DEF IndInv, Shaped
<1>4. size' \in Nat /\ table' = [i \in 0 .. size' - 1 |-> <<>>]
  BY <1>1, <1>3 DEF Slots
<1>5. /\ StoreInv' /\ Owned' /\ Stored' = Stored /\ table' \in ChainsOf(0 .. size' - 1)
  BY <1>1, <1>2, <1>4, Renewed
<1>6. TypeOK'
  <2>1. table' \in [Slots' -> Seq(Bucket)]
    BY <1>5 DEF ChainsOf, Slots
  <2>2. old' \in [DOMAIN old' -> Seq(Bucket)] /\ DOMAIN old' \subseteq Slots'
    BY <1>1, <1>3 DEF ChainsOf, Slots
  <2>3. it' \in [pos : -1 .. size', bpos : Nat] /\ seen' \subseteq Keys
    BY <1>1, <1>3, NoItTyped DEF Changed
  <2>4. khash' \in Slots' /\ refcnt' \in 0 .. MaxRefs
    BY <1>1, SizeAssumption DEF IndInv, TypeOK, Slots
  <2>. HIDE DEF Bucket
  <2>. QED  BY <1>1, <1>2, <1>4, <2>1, <2>2, <2>3, <2>4 DEF IndInv, TypeOK
<1>7. Calling'
  <2>1. grows' => size' - (items' + Cardinality(In(old')) - 1) > size' \div 3
    <3>1. Cardinality(In(old')) = items /\ items \in Nat
      BY <1>1 DEF IndInv, StoreInv, ItemsCounted, TypeOK
    <3>2. items' + Cardinality(In(old')) - 1 = items - 1
      BY <1>1, <3>1
    <3>. QED  BY <1>1, <3>2
  <2>. QED  BY <1>1, <1>2, <2>1 DEF IndInv, Calling, PutPending
<1>8. Ahead'
  BY <1>1, NoIter
<1>. QED  BY <1>5, <1>6, <1>7, <1>8 DEF IndInv

\* The table is emptied, and every datum it had is freed.
LEMMA Emptied ==
  ASSUME IndInv, pc = "idle", old' = old, items' = 0,
         size' \in Nat, table' = [i \in 0 .. size' - 1 |-> <<>>],
         NEW D, \A c \in Stored : c.val \in D, owner' = Freed(D)
  PROVE  /\ StoreInv' /\ Owned' /\ Stored' = {}
         /\ table' \in ChainsOf(0 .. size' - 1)
         /\ owner' \in [Data -> {"caller", "table"}]
<1>1. /\ table' \in ChainsOf(0 .. size' - 1) /\ In(table') = {} /\ Buckets(table') = {}
      /\ IsFiniteSet(In(table')) /\ Cardinality(In(table')) = 0 /\ Injective(table')
  <2>. DEFINE S == 0 .. size' - 1
  <2>1. table' = [i \in S |-> <<>>]
    OBVIOUS
  <2>. HIDE DEF S
  <2>2. /\ table' \in ChainsOf(S) /\ In(table') = {} /\ Buckets(table') = {}
        /\ IsFiniteSet(In(table')) /\ Cardinality(In(table')) = 0 /\ Injective(table')
    BY <2>1, Empty
  <2>. QED  BY <2>2 DEF S
<1>2. old' = NoChains /\ Buckets(old') = {} /\ Injective(old') /\ IsFiniteSet(In(old'))
  BY Bare DEF IndInv, Calling
<1>3. Stored' = {}
  BY <1>1, <1>2 DEF Stored
<1>4. InItsSlots'
  BY PlacedEmpty, PlacedNext
<1>5. Keyed' /\ ItemsCounted' /\ Finite'
  BY <1>1, <1>2, <1>3 DEF Keyed, ItemsCounted, Finite, OnePerKey
<1>6. owner' \in [Data -> {"caller", "table"}] /\ \A d \in Data : owner'[d] = "caller"
  BY DEF IndInv, Owned, Freed, TypeOK
<1>7. Owned'
  BY <1>3, <1>6 DEF Owned, OnePerDatum
<1>. QED  BY <1>1, <1>3, <1>4, <1>5, <1>6, <1>7 DEF StoreInv

LEMMA CleanStep ==
  ASSUME IndInv, Misuse = {}, Clean
  PROVE  IndInv' /\ Stored' = {} /\ pc' = pc
<1>. DEFINE D == {Head(table[i]).val : i \in {i \in Slots : table[i] # <<>>}}
<1>1. /\ pc = "idle" /\ owner' = Freed(D) /\ items' = 0 /\ Changed
      /\ table' = [i \in Slots |-> <<>>]
      /\ \A i \in Slots : Len(table[i]) <= 1
      /\ UNCHANGED <<size, flags, refcnt, req, res, khash, old>>
  BY DEF Clean
<1>2. ~na
  BY DEF IndInv, Calling
<1>3. pc' = pc
  BY <1>2 DEF Clean
<1>4. old = NoChains /\ Shaped
  BY <1>1, Shapes DEF IndInv, Calling
<1>5. \A c \in Stored : c.val \in D
  <2>. SUFFICES ASSUME NEW c \in Stored PROVE c.val \in D
    OBVIOUS
  <2>1. PICK p \in In(table) : c = B(table, p)
    BY <1>4, Bare DEF Stored, Buckets
  <2>2. /\ p[1] \in Slots /\ p[2] \in 1 .. Len(table[p[1]]) /\ Len(table[p[1]]) \in Nat
        /\ c = table[p[1]][p[2]]
    BY <1>4, <2>1, PlaceIs DEF Shaped
  <2>3. p[2] = 1 /\ Len(table[p[1]]) # 0
    BY <1>1, <2>2
  <2>4. table[p[1]] # <<>> /\ Head(table[p[1]]) = table[p[1]][1]
    BY <1>4, <2>2, <2>3, EmptyChain DEF Shaped
  <2>. QED  BY <2>2, <2>3, <2>4
<1>. HIDE DEF D
<1>6. size' \in Nat /\ table' = [i \in 0 .. size' - 1 |-> <<>>]
  BY <1>1, <1>4 DEF Shaped, Slots
<1>7. /\ StoreInv' /\ Owned' /\ Stored' = {} /\ table' \in ChainsOf(0 .. size' - 1)
      /\ owner' \in [Data -> {"caller", "table"}]
  BY <1>1, <1>5, <1>6, Emptied
<1>8. TypeOK'
  <2>1. table' \in [Slots' -> Seq(Bucket)]
    BY <1>7 DEF ChainsOf, Slots
  <2>2. it' \in [pos : -1 .. size', bpos : Nat] /\ seen' \subseteq Keys
    BY <1>1, <1>6, NoItTyped DEF Changed
  <2>. HIDE DEF Bucket
  <2>. QED  BY <1>1, <1>3, <1>6, <1>7, <2>1, <2>2 DEF IndInv, TypeOK, flags, Slots
<1>9. Calling'
  BY <1>1, <1>3 DEF IndInv, Calling, PutPending, flags
<1>10. Ahead'
  BY <1>1, NoIter
<1>. QED  BY <1>3, <1>7, <1>8, <1>9, <1>10 DEF IndInv

LEMMA FreeStep ==
  ASSUME IndInv, Free
  PROVE  IndInv' /\ Stored' = {}
<1>1. /\ pc = "idle" /\ owner' = Freed(AllFreed) /\ items' = 0 /\ Changed
      /\ size' \in InitSizes /\ table' = [i \in 0 .. size' - 1 |-> <<>>]
      /\ UNCHANGED <<flags, refcnt, pc, req, res, khash, old>>
  BY DEF Free
<1>2. old = NoChains /\ khash = 0
  BY <1>1 DEF IndInv, Calling
<1>3. \A c \in Stored : c.val \in AllFreed
  <2>. SUFFICES ASSUME NEW c \in Stored PROVE c.val \in AllFreed
    OBVIOUS
  <2>1. PICK p \in In(table) : c = B(table, p)
    BY <1>2, Bare DEF Stored, Buckets
  <2>. QED  BY <2>1 DEF B, AllFreed
<1>4. size' \in Nat /\ 4 <= size' /\ size' <= MaxSize
  BY <1>1, SizeAssumption
<1>5. /\ StoreInv' /\ Owned' /\ Stored' = {} /\ table' \in ChainsOf(0 .. size' - 1)
      /\ owner' \in [Data -> {"caller", "table"}]
  BY <1>1, <1>3, <1>4, Emptied
<1>6. TypeOK'
  <2>1. table' \in [Slots' -> Seq(Bucket)]
    BY <1>5 DEF ChainsOf, Slots
  <2>2. it' \in [pos : -1 .. size', bpos : Nat] /\ seen' \subseteq Keys
    BY <1>1, <1>4, NoItTyped DEF Changed
  <2>3. khash' \in Slots' /\ old' \in [DOMAIN old' -> Seq(Bucket)] /\ DOMAIN old' \subseteq Slots'
    BY <1>1, <1>2, <1>4, Bare DEF Slots
  <2>. HIDE DEF Bucket
  <2>. QED  BY <1>1, <1>4, <1>5, <2>1, <2>2, <2>3 DEF IndInv, TypeOK, flags
<1>7. Calling'
  BY <1>1, <1>2 DEF IndInv, Calling, PutPending, flags
<1>8. Ahead'
  BY <1>1, NoIter
<1>. QED  BY <1>5, <1>6, <1>7, <1>8 DEF IndInv

-----------------------------------------------------------------------------
(***************************************************************************)
(* The iterator                                                            *)
(***************************************************************************)
LEMMA NextSlotIs ==
  ASSUME Shaped, size' = size, table' = table, it'.pos \in Int
  PROVE  SlotRight(ItSlot', size, table, it'.pos)
<1>1. (size \in Nat /\ it.pos \in Int => SlotRight(ItSlot, size, table, it.pos))'
  BY ItSlotIs, PTL
<1>. QED  BY <1>1 DEF Shaped

\* No bucket is in an empty slot.
LEMMA NotInEmpty ==
  ASSUME Shaped, NEW p \in In(table)
  PROVE  /\ table[p[1]] # <<>> /\ p[1] \in Slots /\ p[1] \in Int /\ p[2] \in Int
         /\ 1 <= p[2] /\ p[2] <= Len(table[p[1]])
<1>1. p[1] \in Slots /\ p[2] \in 1 .. Len(table[p[1]]) /\ Len(table[p[1]]) \in Nat
  BY PlaceIs DEF Shaped
<1>2. table[p[1]] # <<>>
  BY <1>1, EmptyChain DEF Shaped
<1>. QED  BY <1>1, <1>2 DEF Slots

LEMMA GoneIs ==
  \A s, n, k : k \in Gone(s, n) <=>
    \E p \in In(table) : (p[1] < s \/ (p[1] = s /\ p[2] <= n)) /\ B(table, p).key = k
  BY DEF Gone

LEMMA ItInitStep ==
  ASSUME IndInv, ItInit
  PROVE  IndInv'
<1>1. /\ UNCHANGED <<store, flags, refcnt, owner, pc, req, res, khash, old>>
      /\ pc = "idle" /\ it' = [pos |-> 0, bpos |-> 0] /\ seen' = {}
  BY DEF ItInit
<1>2. Shaped
  BY Shapes DEF IndInv
<1>3. TypeOK'
  BY <1>1, <1>2 DEF IndInv, TypeOK, store, flags, Slots, Shaped
<1>4. StoreInv' /\ Owned'
  BY <1>1, SameStore DEF IndInv
<1>5. Calling'
  BY <1>1, <1>4 DEF IndInv, Calling, PutPending, flags, store
<1>6. Ahead'
  <2>1. size' = size /\ table' = table /\ it'.pos = 0 /\ it'.bpos = 0
    BY <1>1 DEF store
  <2>. DEFINE s == ItSlot'
  <2>2. SlotRight(s, size, table, 0)
    BY <1>2, <2>1, NextSlotIs
  <2>3. \A m, n : Gone(m, n)' = Gone(m, n)
    BY <2>1 DEF Gone
  <2>4. \A p \in In(table) : ~(p[1] < s) /\ ~(p[2] <= 0)
    <3>. SUFFICES ASSUME NEW p \in In(table) PROVE ~(p[1] < s) /\ ~(p[2] <= 0)
      OBVIOUS
    <3>. HIDE DEF s
    <3>1. /\ table[p[1]] # <<>> /\ p[1] \in 0 .. size - 1 /\ p[1] \in Int /\ p[2] \in Int
          /\ 1 <= p[2]
      BY <1>2, NotInEmpty DEF Slots
    <3>2. 0 <= p[1]
      BY <3>1
    <3>. QED  BY <2>2, <3>1, <3>2 DEF SlotRight
  <2>5. Gone(s, 0) = {}
    BY <2>4, GoneIs
  <2>6. s = size \/ 0 < Len(table[s])
    <3>. HIDE DEF s
    <3>1. CASE s \in Slots /\ table[s] # <<>>
      <4>1. Len(table[s]) # 0 /\ Len(table[s]) \in Nat
        BY <1>2, <3>1, EmptyChain DEF Shaped, ChainsOf
      <4>. QED  BY <4>1
    <3>2. s = size \/ (s \in Slots /\ table[s] # <<>>)
      BY <2>2 DEF SlotRight, Slots
    <3>. QED  BY <3>1, <3>2
  <2>. QED  BY <1>1, <2>1, <2>3, <2>5, <2>6 DEF Ahead
<1>. QED  BY <1>3, <1>4, <1>5, <1>6 DEF IndInv

LEMMA ItGetStep ==
  ASSUME IndInv, ItGet
  PROVE  IndInv' /\ pc' = pc
<1>. DEFINE s == ItSlot
            n == it.bpos
            k == table[s][n + 1].key
<1>1. /\ pc = "idle" /\ it # NoIt /\ ItSlot < size
      /\ UNCHANGED <<store, flags, refcnt, owner, req, res, khash, old>>
  BY DEF ItGet
<1>2. Shaped /\ it \in [pos : -1 .. size, bpos : Nat] /\ seen \subseteq Keys
  BY Shapes DEF IndInv, TypeOK
<1>3. SlotRight(s, size, table, it.pos) /\ it.pos \in Int
  BY <1>2, ItSlotIs DEF Shaped
<1>4. s \in Slots /\ s \in Int /\ s # size /\ it.pos <= s
  BY <1>1, <1>2, <1>3 DEF SlotRight, Slots, Shaped
<1>5. seen = Gone(s, n) /\ n < Len(table[s]) /\ n \in Nat
  BY <1>1, <1>2, <1>4 DEF IndInv, Ahead
<1>6. /\ seen' = seen \cup {k} /\ pc' = pc
      /\ it' = IF n + 1 = Len(table[s]) THEN [pos |-> s + 1, bpos |-> 0]
               ELSE [it EXCEPT !.bpos = @ + 1]
  BY <1>5 DEF ItGet, ItNext
<1>7. n + 1 \in 1 .. Len(table[s]) /\ Len(table[s]) \in Nat
  <2>1. Len(table[s]) \in Nat
    BY <1>2, <1>4 DEF Shaped, ChainsOf
  <2>. QED  BY <1>5, <2>1
<1>8. <<s, n + 1>> \in In(table) /\ B(table, <<s, n + 1>>).key = k
  BY <1>2, <1>4, <1>7, IsPlace DEF Shaped
<1>9. size' = size /\ table' = table
  BY <1>1 DEF store
<1>10. \A i, j : Gone(i, j)' = Gone(i, j)
  BY <1>9 DEF Gone
<1>. HIDE DEF s, n, k
<1>11. Gone(s, n + 1) = Gone(s, n) \cup {k}
  <2>1. ASSUME NEW x \in Gone(s, n + 1) PROVE x \in Gone(s, n) \cup {k}
    <3>1. PICK p \in In(table) : (p[1] < s \/ (p[1] = s /\ p[2] <= n + 1)) /\ B(table, p).key = x
      BY <2>1, GoneIs
    <3>2. p = <<p[1], p[2]>> /\ p[2] \in Int
      BY <1>2, <3>1, PlaceIs, NotInEmpty DEF Shaped
    <3>3. CASE p[1] = s /\ p[2] = n + 1
      BY <1>8, <3>1, <3>2, <3>3
    <3>4. CASE ~(p[1] = s /\ p[2] = n + 1)
      <4>1. p[1] < s \/ (p[1] = s /\ p[2] <= n)
        BY <1>5, <3>1, <3>2, <3>4
      <4>. QED  BY <3>1, <4>1, GoneIs
    <3>. QED  BY <3>3, <3>4
  <2>2. ASSUME NEW x \in Gone(s, n) PROVE x \in Gone(s, n + 1)
    <3>1. PICK p \in In(table) : (p[1] < s \/ (p[1] = s /\ p[2] <= n)) /\ B(table, p).key = x
      BY <2>2, GoneIs
    <3>2. p[2] \in Int
      BY <1>2, <3>1, NotInEmpty
    <3>3. p[1] < s \/ (p[1] = s /\ p[2] <= n + 1)
      BY <1>5, <3>1, <3>2
    <3>. QED  BY <3>1, <3>3, GoneIs
  <2>3. k \in Gone(s, n + 1)
    <3>. DEFINE p == <<s, n + 1>>
    <3>1. p[1] = s /\ p[2] = n + 1 /\ n + 1 <= n + 1
      BY <1>5
    <3>2. p \in In(table) /\ B(table, p).key = k
      BY <1>8
    <3>. HIDE DEF p
    <3>. QED  BY <3>1, <3>2, GoneIs
  <2>. QED  BY <2>1, <2>2, <2>3
<1>12. k \in Keys
  <2>1. B(table, <<s, n + 1>>) \in Bucket
    BY <1>2, <1>8, PlaceIs DEF Shaped
  <2>. QED  BY <1>8, <2>1 DEF Bucket
<1>13. it' \in [pos : -1 .. size, bpos : Nat]
  BY <1>2, <1>4, <1>5, <1>6 DEF Slots, Shaped, n
<1>14. it'.pos \in Int
  BY <1>13
<1>15. SlotRight(ItSlot', size, table, it'.pos)
  BY <1>2, <1>9, <1>14, NextSlotIs
<1>16. Ahead'
  <2>1. CASE n + 1 = Len(table[s])
    <3>1. it'.pos = s + 1 /\ it'.bpos = 0
      BY <1>6, <2>1
    <3>. DEFINE m == ItSlot'
    <3>2. SlotRight(m, size, table, s + 1)
      BY <1>15, <3>1
    <3>. HIDE DEF m
    <3>3. s < m
      BY <1>2, <1>4, <3>2 DEF SlotRight, Slots, Shaped
    <3>4. ASSUME NEW p \in In(table)
          PROVE  (p[1] < m \/ (p[1] = m /\ p[2] <= 0)) <=> (p[1] < s \/ (p[1] = s /\ p[2] <= n + 1))
      <4>1. /\ table[p[1]] # <<>> /\ p[1] \in 0 .. size - 1 /\ p[1] \in Int /\ p[2] \in Int
            /\ 1 <= p[2] /\ p[2] <= Len(table[p[1]])
        BY <1>2, NotInEmpty DEF Slots
      <4>2. ~(p[2] <= 0)
        BY <4>1
      <4>3. m \in Int
        BY <1>2, <3>2 DEF SlotRight, Shaped
      <4>4. CASE s < p[1]
        <5>1. s + 1 <= p[1]
          BY <1>4, <4>1, <4>4
        <5>2. ~(p[1] < m)
          BY <3>2, <4>1, <5>1 DEF SlotRight
        <5>. QED  BY <1>4, <4>1, <4>2, <4>4, <5>2
      <4>5. CASE p[1] = s
        BY <2>1, <3>3, <4>1, <4>5
      <4>6. CASE p[1] < s
        BY <1>4, <3>3, <4>1, <4>3, <4>6
      <4>. QED  BY <1>4, <4>1, <4>4, <4>5, <4>6
    <3>5. Gone(m, 0) = Gone(s, n + 1)
      BY <3>4, GoneIs
    <3>6. m = size \/ 0 < Len(table[m])
      <4>1. CASE m \in Slots /\ table[m] # <<>>
        <5>1. Len(table[m]) # 0 /\ Len(table[m]) \in Nat
          BY <1>2, <4>1, EmptyChain DEF Shaped, ChainsOf
        <5>. QED  BY <5>1
      <4>2. m = size \/ (m \in Slots /\ table[m] # <<>>)
        BY <3>2 DEF SlotRight, Slots
      <4>. QED  BY <4>1, <4>2
    <3>7. seen' = Gone(m, 0)
      BY <1>5, <1>6, <1>11, <3>5
    <3>. QED  BY <1>1, <1>6, <1>9, <1>10, <3>1, <3>6, <3>7 DEF Ahead, m
  <2>2. CASE n + 1 # Len(table[s])
    <3>1. it'.pos = it.pos /\ it'.bpos = n + 1
      BY <1>2, <1>6, <2>2 DEF n
    <3>2. ItSlot' = s
      BY <1>2, <1>3, <1>15, <3>1, OneSlotRight DEF Shaped
    <3>3. n + 1 < Len(table[s])
      BY <1>5, <1>7, <2>2
    <3>4. seen' = Gone(s, n + 1)
      BY <1>5, <1>6, <1>11
    <3>. QED  BY <1>1, <1>4, <1>6, <1>9, <1>10, <3>1, <3>2, <3>3, <3>4 DEF Ahead
  <2>. QED  BY <2>1, <2>2
<1>17. TypeOK'
  BY <1>1, <1>2, <1>6, <1>12, <1>13 DEF IndInv, TypeOK, store, flags, Slots
<1>18. StoreInv' /\ Owned'
  BY <1>1, SameStore DEF IndInv
<1>19. Calling'
  BY <1>1, <1>6, <1>18 DEF IndInv, Calling, PutPending, flags, store
<1>. QED  BY <1>6, <1>16, <1>17, <1>18, <1>19 DEF IndInv

-----------------------------------------------------------------------------
(***************************************************************************)
(* The invariant                                                           *)
(***************************************************************************)
LEMMA InitIndInv ==
  ASSUME Misuse = {}, Init
  PROVE  IndInv
<1>1. /\ size \in Nat /\ 4 <= size /\ size <= MaxSize
      /\ table = [i \in Slots |-> <<>>] /\ old = NoChains /\ items = 0
      /\ owner = [d \in Data |-> "caller"] /\ ~na /\ na \in BOOLEAN
      /\ pc = "idle" /\ req = NoCall /\ khash = 0 /\ it = NoIt /\ seen = {}
      /\ refcnt = 0 /\ res = Nothing /\ grows = FALSE /\ norepl = FALSE
  BY SizeAssumption DEF Init
<1>2. /\ table \in ChainsOf(Slots) /\ In(table) = {} /\ Buckets(table) = {}
      /\ IsFiniteSet(In(table)) /\ Cardinality(In(table)) = 0 /\ Injective(table)
  BY <1>1, Empty
<1>3. /\ In(old) = {} /\ Buckets(old) = {} /\ Injective(old) /\ IsFiniteSet(In(old))
      /\ old \in [DOMAIN old -> Seq(Bucket)] /\ DOMAIN old = {}
  BY <1>1, Bare
<1>4. Stored = {}
  BY <1>2, <1>3 DEF Stored
<1>5. TypeOK
  <2>1. table \in [Slots -> Seq(Bucket)] /\ 0 \in Slots
    BY <1>1, <1>2 DEF ChainsOf, Slots
  <2>2. refcnt \in 0 .. MaxRefs
    BY <1>1, SizeAssumption
  <2>3. it \in [pos : -1 .. size, bpos : Nat] /\ seen \subseteq Keys
    BY <1>1, NoItTyped
  <2>. HIDE DEF Bucket
  <2>. QED  BY <1>1, <1>3, <2>1, <2>2, <2>3, AnswerTyped DEF TypeOK
<1>6. InItsSlots
  <2>1. \A i \in Slots : KeysOf(table[i]) = {}
    BY <1>1 DEF KeysOf
  <2>. QED  BY <2>1 DEF InItsSlots
<1>7. StoreInv
  BY <1>1, <1>2, <1>3, <1>4, <1>6 DEF StoreInv, Keyed, OnePerKey, ItemsCounted, Finite
<1>8. Owned
  BY <1>1, <1>4 DEF Owned, OnePerDatum
<1>9. Calling
  BY <1>1 DEF Calling, PutPending
<1>10. Ahead
  BY <1>1 DEF Ahead
<1>. QED  BY <1>5, <1>7, <1>8, <1>9, <1>10 DEF IndInv

LEMMA StutterStep ==
  ASSUME IndInv, UNCHANGED vars
  PROVE  IndInv' /\ Stored' = Stored
<1>1. UNCHANGED <<store, flags, refcnt, owner, pc, req, res, khash, old, iter>>
  BY DEF vars
<1>2. TypeOK'
  BY <1>1 DEF IndInv, TypeOK, store, flags, iter, Slots
<1>3. StoreInv' /\ Owned' /\ Stored' = Stored
  BY <1>1, SameStore DEF IndInv
<1>4. Calling'
  <2>1. AtLimit' = AtLimit /\ Home(size', req'.key) = Home(size, req.key)
    BY <1>1 DEF AtLimit, store, flags
  <2>. QED  BY <1>1, <1>3, <2>1 DEF IndInv, Calling, PutPending, store, flags
<1>5. Ahead'
  <2>1. CASE it = NoIt
    BY <1>1, <2>1 DEF Ahead, iter
  <2>2. CASE it # NoIt
    BY <1>1, <2>2, SameIter DEF IndInv, Ahead
  <2>. QED  BY <2>1, <2>2
<1>. QED  BY <1>2, <1>3, <1>4, <1>5 DEF IndInv

LEMMA NextInv ==
  ASSUME Misuse = {}, IndInv, [Next]_vars
  PROVE  IndInv'
<1>1. CASE Ctl
  BY <1>1, CtlStep
<1>2. CASE Clean
  BY <1>2, CleanStep
<1>3. CASE Ref \/ Unref
  BY <1>3, RefStep
<1>4. CASE Dup
  BY <1>4, DupStep
<1>5. CASE Free
  BY <1>5, FreeStep
<1>6. CASE ItInit
  BY <1>6, ItInitStep
<1>7. CASE ItGet
  BY <1>7, ItGetStep
<1>8. ASSUME NEW r \in Calls, Call(r) PROVE IndInv'
  BY <1>8, CallStep
<1>9. CASE Working
  <2>1. CASE Grow
    BY <2>1, GrowStep
  <2>2. CASE GrowFails
    BY <2>2, GrowFailsStep
  <2>3. CASE PutNode
    BY <2>3, PutNodeStep
  <2>4. CASE RehashDone
    BY <2>4, RehashDoneStep
  <2>5. CASE PutRefused
    BY <2>5, PutRefusedStep
  <2>6. CASE DupNode
    BY <2>6, DupNodeStep
  <2>7. CASE DupDone
    BY <2>7, DupDoneStep
  <2>8. CASE PutReplaces
    BY <2>8, PutReplacesStep
  <2>9. CASE PutNew
    BY <2>9, PutNewStep
  <2>10. CASE Get
    BY <2>10, GetStep
  <2>11. CASE RemoveMiss
    BY <2>11, RemoveMissStep
  <2>12. CASE Remove
    BY <2>12, RemoveStep
  <2>. QED  BY <1>9, <2>1, <2>2, <2>3, <2>4, <2>5, <2>6, <2>7, <2>8, <2>9, <2>10, <2>11, <2>12
            DEF Working
<1>10. CASE UNCHANGED vars
  BY <1>10, StutterStep
<1>. QED  BY <1>1, <1>2, <1>3, <1>4, <1>5, <1>6, <1>7, <1>8, <1>9, <1>10 DEF Next

\* What a table is between any two steps of its code, for callers that avoid
\* what Misuse names: whatever keys, hashes and sizes there are.
THEOREM Inductive ==
  ASSUME Misuse = {}
  PROVE  Spec => []IndInv
<1>1. Init => IndInv
  BY InitIndInv
<1>2. IndInv /\ [Next]_vars => IndInv'
  BY NextInv
<1>. QED  BY <1>1, <1>2, PTL DEF Spec

-----------------------------------------------------------------------------
(***************************************************************************)
(* What follows from it                                                    *)
(***************************************************************************)
LEMMA PresentIs ==
  ASSUME Shaped
  PROVE  \A k : k \in Present <=> \E b \in Buckets(table) : b.key = k
<1>. TAKE k
<1>1. (\E b \in Buckets(table) : b.key = k) <=> \E i \in Slots : k \in KeysOf(table[i])
  BY KeysFound DEF Shaped
<1>. QED  BY <1>1 DEF Present

LEMMA TableIsRight ==
  ASSUME IndInv
  PROVE  TableOK
<1>1. /\ \A p, q \in In(table) : table[p[1]][p[2]].key = table[q[1]][q[2]].key => p = q
      /\ \A p, q \in In(old) : old[p[1]][p[2]].key = old[q[1]][q[2]].key => p = q
  BY DEF IndInv, StoreInv, Keyed, Injective, B
<1>2. ASSUME NEW p \in In(old), old[p[1]][p[2]].key \in Present PROVE FALSE
  <2>1. PICK b \in Buckets(table) : b.key = B(old, p).key
    BY <1>2, PresentIs, Shapes DEF IndInv, B
  <2>2. B(old, p) \in Buckets(old)
    BY DEF Buckets
  <2>3. b = B(old, p)
    BY <2>1, <2>2 DEF IndInv, StoreInv, Keyed, OnePerKey, Stored
  <2>. QED  BY <2>2, <2>3 DEF IndInv, StoreInv, Keyed
<1>. QED  BY <1>1, <1>2 DEF IndInv, StoreInv, TableOK, KeysOnce

\* The buckets of a datum, as Holders counts them.
LEMMA HoldersAre ==
  ASSUME IndInv, NEW d \in Data
  PROVE  /\ owner[d] = "table" => \E x : Holders(d) = {x}
         /\ owner[d] # "table" => Holders(d) = {}
<1>. DEFINE mark(p) == <<-1 - p[1], p[2]>>
<1>1. Shaped /\ Injective(table) /\ Injective(old) /\ Buckets(table) \cap Buckets(old) = {}
  BY Shapes DEF IndInv, StoreInv, Keyed
<1>2. \A p \in In(table) : B(table, p) \in Buckets(table) /\ B(table, p) = table[p[1]][p[2]]
  BY DEF Buckets, B
<1>3. \A p \in In(old) : B(old, p) \in Buckets(old) /\ B(old, p) = old[p[1]][p[2]]
  BY DEF Buckets, B
<1>4. \A x : x \in Holders(d) <=> \/ x \in In(table) /\ B(table, x).val = d
                                  \/ \E p \in In(old) : B(old, p).val = d /\ x = mark(p)
  BY <1>2, <1>3 DEF Holders
<1>. HIDE DEF mark
<1>5. \A a, b \in Stored : a.val = d /\ b.val = d => a = b
  BY DataAssumption DEF IndInv, Owned, OnePerDatum
<1>6. ASSUME owner[d] = "table" PROVE \E x : Holders(d) = {x}
  <2>1. PICK b \in Stored : b.val = d
    BY <1>6 DEF IndInv, Owned
  <2>2. CASE b \in Buckets(table)
    <3>1. PICK p \in In(table) : b = B(table, p)
      BY <2>2 DEF Buckets
    <3>2. ASSUME NEW q \in In(table), B(table, q).val = d PROVE q = p
      <4>1. B(table, q) = b
        BY <1>2, <1>5, <2>1, <3>2 DEF Stored
      <4>. QED  BY <1>1, <3>1, <4>1 DEF Injective
    <3>3. ASSUME NEW q \in In(old), B(old, q).val = d PROVE FALSE
      <4>1. B(old, q) = b
        BY <1>3, <1>5, <2>1, <3>3 DEF Stored
      <4>. QED  BY <1>1, <1>3, <2>2, <4>1
    <3>4. Holders(d) = {p}
      BY <1>4, <2>1, <3>1, <3>2, <3>3
    <3>. QED  BY <3>4
  <2>3. CASE b \in Buckets(old)
    <3>1. PICK p \in In(old) : b = B(old, p)
      BY <2>3 DEF Buckets
    <3>2. ASSUME NEW q \in In(old), B(old, q).val = d PROVE q = p
      <4>1. B(old, q) = b
        BY <1>3, <1>5, <2>1, <3>2 DEF Stored
      <4>. QED  BY <1>1, <3>1, <4>1 DEF Injective
    <3>3. ASSUME NEW q \in In(table), B(table, q).val = d PROVE FALSE
      <4>1. B(table, q) = b
        BY <1>2, <1>5, <2>1, <3>3 DEF Stored
      <4>. QED  BY <1>1, <1>2, <2>3, <4>1
    <3>4. Holders(d) = {mark(p)}
      BY <1>4, <2>1, <3>1, <3>2, <3>3
    <3>. QED  BY <3>4
  <2>. QED  BY <2>1, <2>2, <2>3 DEF Stored
<1>7. ASSUME owner[d] # "table" PROVE Holders(d) = {}
  <2>1. \A b \in Stored : b.val # d
    BY <1>7 DEF IndInv, Owned
  <2>. QED  BY <1>2, <1>3, <1>4, <2>1 DEF Stored
<1>. QED  BY <1>6, <1>7

LEMMA MemoryIsRight ==
  ASSUME IndInv
  PROVE  MemoryOK
<1>1. NotDead
  BY DEF IndInv, Calling, NotDead
<1>2. ASSUME NEW d \in Data
      PROVE  Cardinality(Holders(d)) = IF owner[d] = "table" THEN 1 ELSE 0
  <2>1. CASE owner[d] = "table"
    <3>1. PICK x : Holders(d) = {x}
      BY <2>1, HoldersAre
    <3>. QED  BY <2>1, <3>1, FS_Singleton
  <2>2. CASE owner[d] # "table"
    BY <2>2, HoldersAre, FS_EmptySet
  <2>. QED  BY <2>1, <2>2
<1>. QED  BY <1>1, <1>2 DEF MemoryOK, OwnedOnce

LEMMA IteratorIsRight ==
  ASSUME IndInv
  PROVE  VisitsEach
<1>. SUFFICES ASSUME it # NoIt, pc = "idle"
              PROVE  IF ItSlot = size THEN seen = Present
                     ELSE /\ it.bpos < Len(table[ItSlot])
                          /\ table[ItSlot][it.bpos + 1].key \notin seen
  BY DEF VisitsEach
<1>. DEFINE s == ItSlot
            n == it.bpos
<1>1. Shaped /\ Injective(table)
  BY Shapes DEF IndInv, StoreInv, Keyed
<1>2. it.pos \in Int /\ n \in Nat /\ size \in Nat
  BY DEF IndInv, TypeOK
<1>3. SlotRight(s, size, table, it.pos)
  BY <1>2, ItSlotIs
<1>4. /\ seen = Gone(s, n)
      /\ IF s = size THEN n = 0 ELSE n < Len(table[s])
  BY DEF IndInv, Ahead
<1>. HIDE DEF s, n
<1>5. CASE s = size
  <2>1. \A p \in In(table) : p[1] < s
    BY <1>1, <1>2, <1>5, NotInEmpty DEF Slots
  <2>2. \A k : k \in Gone(s, n) <=> \E p \in In(table) : B(table, p).key = k
    BY <2>1, GoneIs
  <2>3. \A k : k \in Present <=> \E p \in In(table) : B(table, p).key = k
    BY <1>1, PresentIs DEF Buckets
  <2>4. seen = Present
    BY <1>4, <2>2, <2>3 DEF Gone, Present
  <2>. QED  BY <1>5, <2>4 DEF s
<1>6. CASE s # size
  <2>1. s \in Slots /\ n + 1 \in 1 .. Len(table[s]) /\ s \in Int
    BY <1>1, <1>2, <1>3, <1>4, <1>6 DEF SlotRight, Slots, Shaped, ChainsOf
  <2>2. <<s, n + 1>> \in In(table) /\ B(table, <<s, n + 1>>) = table[s][n + 1]
    BY <1>1, <2>1, IsPlace DEF Shaped
  <2>3. ASSUME table[s][n + 1].key \in seen PROVE FALSE
    <3>1. PICK p \in In(table) : /\ p[1] < s \/ (p[1] = s /\ p[2] <= n)
                                 /\ B(table, p).key = table[s][n + 1].key
      BY <1>4, <2>3, GoneIs
    <3>2. p = <<s, n + 1>>
      BY <1>1, <2>2, <3>1 DEF Injective
    <3>3. p[1] = s /\ p[2] = n + 1
      BY <3>2
    <3>. QED  BY <1>2, <2>1, <3>1, <3>3
  <2>. QED  BY <1>4, <1>6, <2>3 DEF s, n
<1>. QED  BY <1>5, <1>6 DEF s

\* Every bucket stays in a slot where a lookup of its key finds it, with the
\* size the table has now, no key is in two buckets, also while
\* n_hash_rehash or n_hash_dup moves them, and ht->items counts them.
THEOREM TableIsOK ==
  ASSUME Misuse = {}
  PROVE  Spec => []TableOK
<1>1. IndInv => TableOK
  BY TableIsRight
<1>. QED  BY <1>1, Inductive, PTL

\* No call of n_hash_*.c ends the program or frees what malloc did not give,
\* and a datum the table took is in one bucket until it is freed or returned:
\* neither growing nor copying loses one or doubles one.
THEOREM MemoryIsOK ==
  ASSUME Misuse = {}
  PROVE  Spec => []MemoryOK
<1>1. IndInv => MemoryOK
  BY MemoryIsRight
<1>. QED  BY <1>1, Inductive, PTL

\* n_hash_it_get never returns a key again and ends when it has returned all,
\* whatever chains there are and wherever the empty slots lie.
THEOREM IteratorVisitsEach ==
  ASSUME Misuse = {}
  PROVE  Spec => []VisitsEach
<1>1. IndInv => VisitsEach
  BY IteratorIsRight
<1>. QED  BY <1>1, Inductive, PTL

-----------------------------------------------------------------------------
(***************************************************************************)
(* The map                                                                 *)
(***************************************************************************)
Contents == [k \in Keys |-> MapOf(k)]

\* v is the datum of k in the set S of buckets, or the mark of an absent key.
Holds(v, k, S) == \/ \E b \in S : b.key = k /\ v = b.val
                  \/ (\A b \in S : b.key # k) /\ v = <<"absent">>

LEMMA OneHolds ==
  ASSUME NEW S, OnePerKey(S), NEW k, NEW v, NEW w, Holds(v, k, S), Holds(w, k, S)
  PROVE  v = w
  BY DEF OnePerKey, Holds

LEMMA ValueIs ==
  ASSUME NEW t, NEW k, \E b \in Buckets(t) : b.key = k
  PROVE  \E b \in Buckets(t) : b.key = k /\ Value(t, k) = b.val
<1>. DEFINE K(p) == t[p[1]][p[2]].key = k
            c    == CHOOSE p \in In(t) : K(p)
<1>1. PICK p \in In(t) : B(t, p).key = k
  BY DEF Buckets
<1>2. c \in In(t) /\ K(c)
  <2>1. K(p)
    BY <1>1 DEF B
  <2>. HIDE DEF K
  <2>. QED  BY <2>1
<1>3. Value(t, k) = t[c[1]][c[2]].val
  BY DEF Value
<1>. HIDE DEF c
<1>. QED  BY <1>2, <1>3 DEF Buckets, B

MapRight == \A k \in Keys : Holds(Contents[k], k, Stored)

LEMMA MapIs == IndInv => MapRight
<1>. SUFFICES ASSUME IndInv, NEW k \in Keys PROVE Holds(MapOf(k), k, Stored)
  BY DEF Contents, MapRight
<1>1. Shaped
  BY Shapes DEF IndInv
<1>2. (\E i \in DOMAIN old : k \in KeysOf(old[i])) <=> \E b \in Buckets(old) : b.key = k
  BY <1>1, KeysFound DEF Shaped
<1>3. k \in Present <=> \E b \in Buckets(table) : b.key = k
  BY <1>1, PresentIs
<1>4. CASE k \in Present
  <2>1. \E b \in Buckets(table) : b.key = k /\ Value(table, k) = b.val
    BY <1>3, <1>4, ValueIs
  <2>. QED  BY <1>4, <2>1 DEF MapOf, Holds, Stored
<1>5. CASE k \notin Present /\ \E i \in DOMAIN old : k \in KeysOf(old[i])
  <2>1. \E b \in Buckets(old) : b.key = k /\ Value(old, k) = b.val
    BY <1>2, <1>5, ValueIs
  <2>. QED  BY <1>5, <2>1 DEF MapOf, Holds, Stored
<1>6. CASE k \notin Present /\ ~\E i \in DOMAIN old : k \in KeysOf(old[i])
  BY <1>2, <1>3, <1>6 DEF MapOf, Holds, Stored
<1>. QED  BY <1>4, <1>5, <1>6

LEMMA StoredTyped ==
  ASSUME IndInv, NEW b \in Stored
  PROVE  b \in Bucket
<1>1. CASE b \in Buckets(table)
  BY <1>1, Shapes, PlaceIs DEF IndInv, Shaped, Buckets
<1>2. CASE b \in Buckets(old)
  BY <1>2, Shapes, PlaceIs DEF IndInv, Shaped, Buckets
<1>. QED  BY <1>1, <1>2 DEF Stored

\* What the map has at a key, and whether it has the key at all.
LEMMA MapAt ==
  ASSUME IndInv, NEW k \in Keys
  PROVE  /\ \A b \in Stored : b.key = k => Contents[k] = b.val
         /\ Contents[k] # <<"absent">> <=> \E b \in Stored : b.key = k
<1>1. Holds(Contents[k], k, Stored)
  BY MapIs DEF MapRight
<1>2. OnePerKey(Stored)
  BY DEF IndInv, StoreInv, Keyed
<1>3. \A b \in Stored : b.val # <<"absent">>
  BY StoredTyped, DataAssumption DEF Bucket
<1>. QED  BY <1>1, <1>2, <1>3 DEF Holds, OnePerKey

\* A step that changes the buckets of one key changes the map there.
LEMMA MapChanges ==
  ASSUME IndInv, IndInv', NEW k \in Keys, NEW v, Holds(v, k, Stored'),
         \A b : b.key # k => (b \in Stored' <=> b \in Stored)
  PROVE  Contents' = [Contents EXCEPT ![k] = v]
<1>1. (IndInv => MapRight)'
  BY MapIs, PTL
<1>2. \A j \in Keys : Holds(Contents'[j], j, Stored')
  BY <1>1 DEF MapRight, Holds
<1>3. \A j \in Keys : Holds(Contents[j], j, Stored)
  BY MapIs DEF MapRight
<1>4. OnePerKey(Stored')
  BY DEF IndInv, StoreInv, Keyed, OnePerKey
<1>5. \A j \in Keys : j # k => Holds(Contents[j], j, Stored')
  BY <1>3 DEF Holds
<1>6. \A j \in Keys : Contents'[j] = IF j = k THEN v ELSE Contents[j]
  BY <1>2, <1>4, <1>5, OneHolds
<1>7. Contents = [j \in Keys |-> Contents[j]] /\ Contents' = [j \in Keys |-> Contents'[j]]
  BY DEF Contents
<1>. QED  BY <1>6, <1>7

LEMMA MapStays ==
  ASSUME IndInv, IndInv', Stored' = Stored
  PROVE  Contents' = Contents
<1>1. (IndInv => MapRight)'
  BY MapIs, PTL
<1>2. \A j \in Keys : Holds(Contents'[j], j, Stored')
  BY <1>1 DEF MapRight, Holds
<1>3. \A j \in Keys : Holds(Contents[j], j, Stored)
  BY MapIs DEF MapRight
<1>4. OnePerKey(Stored)
  BY DEF IndInv, StoreInv, Keyed
<1>5. \A j \in Keys : Contents'[j] = Contents[j]
  BY <1>2, <1>3, <1>4, OneHolds
<1>6. Contents = [j \in Keys |-> Contents[j]] /\ Contents' = [j \in Keys |-> Contents'[j]]
  BY DEF Contents
<1>. QED  BY <1>5, <1>6

Limit == IF grows THEN 0 ELSE Cardinality(Keys) + 1

LEMMA MapPresent ==
  ASSUME IndInv
  PROVE  /\ Map!Present = {k \in Keys : Contents[k] # <<"absent">>}
         /\ \A k \in Keys : k \in Map!Present <=> \E b \in Stored : b.key = k
<1>1. Map!Present = {k \in Keys : Contents[k] # <<"absent">>}
  BY DEF Map!Present, Map!Absent, Contents
<1>. QED  BY <1>1, MapAt

LEMMA MapFound ==
  ASSUME IndInv, NEW k \in Keys
  PROVE  Map!Found(k) = IF \E b \in Stored : b.key = k
                        THEN [ok |-> TRUE, val |-> Contents[k]] ELSE Nothing
<1>1. Map!Found(k) = IF k \in Map!Present THEN [ok |-> TRUE, val |-> Contents[k]] ELSE Nothing
  BY DEF Map!Found, Map!Nothing, Nothing, Contents
<1>. QED  BY <1>1, MapPresent

\* A step that only moves buckets.
LEMMA MapStutters ==
  ASSUME IndInv, IndInv', Stored' = Stored, UNCHANGED <<grows, req, res>>
  PROVE  UNCHANGED Map!vars
<1>1. Contents' = Contents
  BY MapStays
<1>. QED  BY <1>1 DEF Map!vars, Contents

LEMMA IdleRequest ==
  ASSUME IndInv, pc = "idle"
  PROVE  req = Map!NoCall /\ old = NoChains /\ Stored = Buckets(table)
<1>1. req = NoCall /\ old = NoChains
  BY DEF IndInv, TypeOK, Calling
<1>. QED  BY <1>1, Bare DEF Map!NoCall, NoCall, Stored

LEMMA MapCtl ==
  ASSUME IndInv, Ctl
  PROVE  [Map!Next]_(Map!vars)
<1>1. IndInv' /\ Stored' = Stored
  <2>1. UNCHANGED <<store, old, owner>>
    BY DEF Ctl
  <2>. QED  BY <2>1, CtlStep, SameStore DEF IndInv
<1>2. UNCHANGED <<req, res>> /\ pc = "idle" /\ items = 0 /\ grows' \in BOOLEAN /\ grows \in BOOLEAN
  BY DEF Ctl, IndInv, TypeOK
<1>3. grows => grows'
  BY DEF Ctl
<1>4. CASE grows' = grows
  BY <1>1, <1>2, <1>4, MapStutters
<1>5. CASE grows' # grows
  <2>1. Contents' = Contents
    BY <1>1, MapStays
  <2>2. Stored = {}
    <3>1. In(table) = {}
      BY <1>2, FS_EmptySet DEF IndInv, StoreInv, ItemsCounted, Finite
    <3>. QED  BY <1>2, <3>1, IdleRequest DEF Buckets
  <2>3. Map!Present = {}
    BY <2>2, MapPresent
  <2>4. grows' = TRUE
    BY <1>2, <1>3, <1>5
  <2>5. req = Map!NoCall
    BY <1>2, IdleRequest
  <2>6. Map!LetGrow
    BY <1>2, <2>1, <2>3, <2>4, <2>5 DEF Map!LetGrow, Contents
  <2>. QED  BY <2>6 DEF Map!Next
<1>. QED  BY <1>4, <1>5

LEMMA MapEmptied ==
  ASSUME IndInv, IndInv', pc = "idle", Stored' = {}, UNCHANGED <<grows, req, res>>
  PROVE  Map!Next
<1>1. (IndInv => MapRight)'
  BY MapIs, PTL
<1>2. \A k \in Keys : Contents'[k] = <<"absent">>
  BY <1>1 DEF MapRight, Holds
<1>3. Contents' = [k \in Keys |-> Map!Absent]
  <2>1. Contents' = [k \in Keys |-> Contents'[k]]
    BY DEF Contents
  <2>. QED  BY <1>2, <2>1 DEF Map!Absent
<1>4. req = Map!NoCall
  BY IdleRequest
<1>5. Map!Clean
  BY <1>3, <1>4 DEF Map!Clean, Contents
<1>. QED  BY <1>5 DEF Map!Next

LEMMA MapCall ==
  ASSUME IndInv, Misuse = {}, NEW r \in Calls, Call(r)
  PROVE  Map!Next
<1>1. IndInv' /\ Stored' = Stored
  <2>1. UNCHANGED <<store, old, owner>>
    BY DEF Call
  <2>. QED  BY <2>1, CallStep, SameStore DEF IndInv
<1>2. pc = "idle" /\ req' = r /\ res' = Nothing /\ grows' = grows
  BY DEF Call, flags
<1>3. Contents' = Contents
  BY <1>1, MapStays
<1>4. r \in Map!Request
  BY DEF Calls, Request, Val, Map!Request, Map!Val, Map!Modes
<1>5. req = Map!NoCall
  BY <1>2, IdleRequest
<1>6. Map!Call
  BY <1>2, <1>3, <1>4, <1>5 DEF Map!Call, Map!Nothing, Nothing, Contents
<1>. QED  BY <1>6 DEF Map!Next

\* A call that takes effect and returns.
LEMMA MapEffect ==
  ASSUME NEW a, Return(a), grows' = grows, NEW op, req.op = op, op \in {"put", "get", "remove"}
  PROVE  Map!TakesEffect(op)
<1>1. req # Map!NoCall
  BY DEF Map!NoCall
<1>2. req' = Map!NoCall
  BY DEF Return, NoCall, Map!NoCall
<1>. QED  BY <1>1, <1>2 DEF Map!TakesEffect

LEMMA MapPutRefused ==
  ASSUME IndInv, PutRefused
  PROVE  Map!Next
<1>1. Putting /\ Known /\ req.mode = "die" /\ Return(Nothing) /\ UNCHANGED <<store, flags, owner>>
  BY DEF PutRefused
<1>2. /\ pc \in {"call", "put"} /\ old = NoChains /\ Stored = Buckets(table)
      /\ req.op = "put" /\ req.key \in Keys /\ Hash \in Slots
  BY <1>1, PutFacts
<1>3. \E b \in Stored : b.key = req.key
  <2>1. Shaped /\ Injective(table) /\ Holding(req.key, Hash) # {}
    BY <1>1, Shapes DEF IndInv, StoreInv, Keyed, Known
  <2>. QED  BY <1>2, <2>1, PlaceFound
<1>4. IndInv' /\ Stored' = Stored
  <2>1. old' = NoChains
    BY <1>1 DEF Return
  <2>. QED  BY <1>1, <1>2, <2>1, PutRefusedStep, SameStore DEF IndInv
<1>5. Contents' = Contents
  BY <1>4, MapStays
<1>6. Map!TakesEffect("put")
  BY <1>1, <1>2, MapEffect DEF flags
<1>7. req.key \in Map!Present
  BY <1>2, <1>3, MapPresent
<1>8. res' = Map!Nothing
  BY <1>1 DEF Return, Nothing, Map!Nothing
<1>9. Map!PutOld
  BY <1>1, <1>5, <1>6, <1>7, <1>8 DEF Map!PutOld, Contents
<1>. QED  BY <1>9 DEF Map!Next, Map!Effect

LEMMA MapPutReplaces ==
  ASSUME IndInv, PutReplaces
  PROVE  Map!Next
<1>1. Putting /\ req.mode = "replace" /\ UNCHANGED flags
  BY DEF PutReplaces
<1>2. req.op = "put" /\ req.key \in Keys
  BY <1>1, PutFacts
<1>. DEFINE a == [ok |-> TRUE, val |-> req.arg]
<1>3. IndInv' /\ Return(a)
  BY PutReplacesStep
<1>4. PICK c \in Stored : /\ c.key = req.key
                          /\ Stored' = (Stored \ {c}) \cup {[key |-> c.key, val |-> req.arg]}
  BY PutReplacesStep
<1>5. Contents' = [Contents EXCEPT ![req.key] = req.arg]
  <2>. DEFINE e == [key |-> c.key, val |-> req.arg]
  <2>0. e.key = req.key /\ e.val = req.arg /\ e \in Stored'
    BY <1>4
  <2>. HIDE DEF e
  <2>1. Holds(req.arg, req.key, Stored')
    BY <2>0 DEF Holds
  <2>2. \A b : b.key # req.key => (b \in Stored' <=> b \in Stored)
    BY <1>4
  <2>. QED  BY <1>2, <1>3, <2>1, <2>2, MapChanges
<1>6. Map!TakesEffect("put")
  BY <1>1, <1>2, <1>3, MapEffect DEF flags
<1>7. req.key \in Map!Present
  BY <1>2, <1>4, MapPresent
<1>8. res' = a
  BY <1>3 DEF Return
<1>9. Map!PutOld
  BY <1>1, <1>5, <1>6, <1>7, <1>8 DEF Map!PutOld, Contents
<1>. QED  BY <1>9 DEF Map!Next, Map!Effect

LEMMA MapPutNew ==
  ASSUME IndInv, PutNew
  PROVE  Map!Next
<1>1. Putting /\ ~Known /\ UNCHANGED flags
  BY DEF PutNew
<1>2. req.op = "put" /\ req.key \in Keys
  BY <1>1, PutFacts
<1>. DEFINE a == [ok |-> TRUE, val |-> req.arg]
<1>3. IndInv' /\ Return(a) /\ Stored' = Stored \cup {NewBucket(req)}
  BY PutNewStep
<1>4. \A b \in Stored : b.key # req.key
  BY <1>1, Unknown
<1>5. Contents' = [Contents EXCEPT ![req.key] = req.arg]
  <2>0. NewBucket(req).key = req.key /\ NewBucket(req).val = req.arg
    BY DEF NewBucket
  <2>1. Holds(req.arg, req.key, Stored')
    BY <1>3, <2>0 DEF Holds
  <2>2. \A b : b.key # req.key => (b \in Stored' <=> b \in Stored)
    BY <1>3, <2>0
  <2>. QED  BY <1>2, <1>3, <2>1, <2>2, MapChanges
<1>6. Map!TakesEffect("put")
  BY <1>1, <1>2, <1>3, MapEffect DEF flags
<1>7. req.key \notin Map!Present
  BY <1>2, <1>4, MapPresent
<1>8. res' = a
  BY <1>3 DEF Return
<1>9. Map!PutNew
  BY <1>5, <1>6, <1>7, <1>8 DEF Map!PutNew, Contents
<1>. QED  BY <1>9 DEF Map!Next, Map!Effect

\* The answer of a lookup is that of the map.
LEMMA LookupFound ==
  ASSUME IndInv, pc = "call"
  PROVE  Map!Found(req.key) = IF Missing THEN Nothing ELSE [ok |-> TRUE, val |-> Datum]
<1>1. /\ req.key \in Keys
      /\ Missing => \A b \in Stored : b.key # req.key
      /\ ~Missing => /\ B(table, At) \in Stored /\ B(table, At).key = req.key
                     /\ B(table, At).val = Datum
  BY FindFacts
<1>2. ~Missing => Contents[req.key] = Datum
  BY <1>1, MapAt
<1>. QED  BY <1>1, <1>2, MapFound

LEMMA MapGet ==
  ASSUME IndInv, Get
  PROVE  Map!Next
<1>. DEFINE a == IF Missing THEN Nothing ELSE [ok |-> TRUE, val |-> Datum]
<1>1. pc = "call" /\ req.op = "get" /\ Return(a) /\ UNCHANGED <<store, flags, owner>>
  BY DEF Get, Finding
<1>2. IndInv' /\ Stored' = Stored
  <2>1. old' = NoChains /\ old = NoChains
    BY <1>1 DEF Return, IndInv, Calling
  <2>. QED  BY <1>1, <2>1, GetStep, SameStore DEF IndInv
<1>3. Contents' = Contents
  BY <1>2, MapStays
<1>4. Map!TakesEffect("get")
  <2>. HIDE DEF a
  <2>. QED  BY <1>1, MapEffect DEF flags
<1>5. res' = Map!Found(req.key)
  BY <1>1, LookupFound DEF Return
<1>6. Map!Get
  BY <1>3, <1>4, <1>5 DEF Map!Get, Contents
<1>. QED  BY <1>6 DEF Map!Next, Map!Effect

LEMMA MapRemove ==
  ASSUME IndInv, RemoveMiss \/ Remove
  PROVE  Map!Next
<1>1. pc = "call" /\ req.op = "remove" /\ UNCHANGED flags
  BY DEF RemoveMiss, Remove, Finding
<1>2. req.key \in Keys
  BY <1>1, FindFacts
<1>3. /\ IndInv' /\ res' = Map!Found(req.key) /\ Map!TakesEffect("remove")
      /\ Contents' = [Contents EXCEPT ![req.key] = <<"absent">>]
  <2>1. CASE RemoveMiss
    <3>1. Missing /\ Return(Nothing) /\ UNCHANGED <<store, owner>>
      BY <2>1 DEF RemoveMiss
    <3>2. IndInv' /\ Stored' = Stored
      <4>1. old' = NoChains /\ old = NoChains
        BY <1>1, <3>1 DEF Return, IndInv, Calling
      <4>. QED  BY <2>1, <3>1, <4>1, RemoveMissStep, SameStore DEF IndInv
    <3>3. Holds(<<"absent">>, req.key, Stored')
      BY <1>1, <3>1, <3>2, FindFacts DEF Holds
    <3>4. Contents' = [Contents EXCEPT ![req.key] = <<"absent">>]
      BY <1>2, <3>2, <3>3, MapChanges
    <3>5. Map!TakesEffect("remove")
      BY <1>1, <3>1, MapEffect DEF flags
    <3>6. res' = Map!Found(req.key)
      BY <1>1, <3>1, LookupFound DEF Return
    <3>. QED  BY <3>2, <3>4, <3>5, <3>6
  <2>2. CASE Remove
    <3>. DEFINE a == [ok |-> TRUE, val |-> Datum]
    <3>1. ~Missing /\ IndInv' /\ Return(a)
      BY <2>2, RemoveStep DEF Remove
    <3>2. PICK c \in Stored : c.key = req.key /\ Stored' = Stored \ {c}
      BY <2>2, RemoveStep
    <3>3. Holds(<<"absent">>, req.key, Stored')
      <4>1. OnePerKey(Stored)
        BY DEF IndInv, StoreInv, Keyed
      <4>. QED  BY <3>2, <4>1 DEF Holds, OnePerKey
    <3>4. \A b : b.key # req.key => (b \in Stored' <=> b \in Stored)
      BY <3>2
    <3>5. Contents' = [Contents EXCEPT ![req.key] = <<"absent">>]
      BY <1>2, <3>1, <3>3, <3>4, MapChanges
    <3>6. Map!TakesEffect("remove")
      <4>. HIDE DEF a
      <4>. QED  BY <1>1, <3>1, MapEffect DEF flags
    <3>7. res' = Map!Found(req.key)
      BY <1>1, <3>1, LookupFound DEF Return
    <3>. QED  BY <3>1, <3>5, <3>6, <3>7
  <2>. QED  BY <2>1, <2>2
<1>4. Map!Remove
  BY <1>1, <1>3 DEF Map!Remove, Map!Absent, Contents
<1>. QED  BY <1>4 DEF Map!Next, Map!Effect

\* The steps that work on the table without an answer leave the map alone.
LEMMA MapSilent ==
  ASSUME IndInv,
         \/ Ref \/ Unref \/ Dup \/ ItInit \/ ItGet \/ Grow \/ GrowFails \/ PutNode
         \/ RehashDone \/ DupNode \/ DupDone
  PROVE  UNCHANGED Map!vars
<1>1. UNCHANGED <<grows, req, res>>
  BY DEF Ref, Unref, Dup, ItInit, ItGet, Grow, GrowFails, PutNode, RehashDone, DupNode, DupDone, flags
<1>2. IndInv'
  BY RefStep, DupStep, ItInitStep, ItGetStep, GrowStep, GrowFailsStep, PutNodeStep,
     RehashDoneStep, DupNodeStep, DupDoneStep
<1>3. Stored' = Stored
  <2>1. CASE Ref \/ Unref \/ ItInit \/ ItGet \/ GrowFails
    <3>1. UNCHANGED <<store, old, owner>>
      BY <2>1 DEF Ref, Unref, ItInit, ItGet, GrowFails
    <3>. QED  BY <3>1, SameStore DEF IndInv
  <2>2. CASE RehashDone \/ DupDone
    <3>1. NoneLeft /\ UNCHANGED <<store, owner>> /\ old' = NoChains
      BY <2>2 DEF RehashDone, DupDone
    <3>. QED  BY <3>1, OldDropped
  <2>3. CASE Dup
    BY <2>3, DupStep
  <2>4. CASE Grow
    BY <2>4, GrowStep
  <2>5. CASE PutNode
    BY <2>5, PutNodeStep
  <2>6. CASE DupNode
    BY <2>6, DupNodeStep
  <2>. QED  BY <2>1, <2>2, <2>3, <2>4, <2>5, <2>6
<1>. QED  BY <1>1, <1>2, <1>3, MapStutters

LEMMA MapStep ==
  ASSUME IndInv, Misuse = {}, [Next]_vars
  PROVE  [Map!Next]_(Map!vars)
<1>1. CASE Ctl
  BY <1>1, MapCtl
<1>2. CASE Clean
  <2>1. pc = "idle" /\ UNCHANGED <<grows, req, res>>
    BY <1>2 DEF Clean, flags
  <2>. QED  BY <1>2, <2>1, CleanStep, MapEmptied
<1>3. CASE Free
  <2>1. pc = "idle" /\ UNCHANGED <<grows, req, res>>
    BY <1>3 DEF Free, flags
  <2>2. IndInv'
    BY <1>3, FreeStep
  <2>. QED  BY <1>3, <2>1, <2>2, FreeStep, MapEmptied
<1>4. ASSUME NEW r \in Calls, Call(r) PROVE [Map!Next]_(Map!vars)
  BY <1>4, MapCall
<1>5. CASE PutRefused
  BY <1>5, MapPutRefused
<1>6. CASE PutReplaces
  BY <1>6, MapPutReplaces
<1>7. CASE PutNew
  BY <1>7, MapPutNew
<1>8. CASE Get
  BY <1>8, MapGet
<1>9. CASE RemoveMiss \/ Remove
  BY <1>9, MapRemove
<1>10. CASE \/ Ref \/ Unref \/ Dup \/ ItInit \/ ItGet \/ Grow \/ GrowFails \/ PutNode
            \/ RehashDone \/ DupNode \/ DupDone
  BY <1>10, MapSilent
<1>11. CASE UNCHANGED vars
  <2>1. UNCHANGED <<grows, req, res>>
    BY <1>11 DEF vars, flags
  <2>. QED  BY <1>11, <2>1, StutterStep, MapStutters
<1>. QED  BY <1>1, <1>2, <1>3, <1>4, <1>5, <1>6, <1>7, <1>8, <1>9, <1>10, <1>11 DEF Next, Working

LEMMA MapInit ==
  ASSUME Misuse = {}, Init
  PROVE  Map!Init
<1>1. Stored = {} /\ IndInv
  <2>1. table = [i \in Slots |-> <<>>] /\ old = NoChains
    BY DEF Init
  <2>. QED  BY <2>1, Empty, Bare, InitIndInv DEF Stored
<1>2. \A k \in Keys : Contents[k] = <<"absent">>
  BY <1>1, MapIs DEF MapRight, Holds
<1>3. Contents = [k \in Keys |-> Map!Absent]
  <2>1. Contents = [k \in Keys |-> Contents[k]]
    BY DEF Contents
  <2>. QED  BY <1>2, <2>1 DEF Map!Absent
<1>4. Limit \in Nat \ {0}
  <2>1. Cardinality(Keys) \in Nat
    BY KeysAssumption, FS_CardinalityType
  <2>2. Limit = Cardinality(Keys) + 1
    BY DEF Init, Limit
  <2>. QED  BY <2>1, <2>2
<1>5. req = Map!NoCall /\ res = Map!Nothing
  BY DEF Init, NoCall, Map!NoCall, Nothing, Map!Nothing
<1>. QED  BY <1>3, <1>4, <1>5 DEF Map!Init, Contents, Limit

\* Every answer of n_hash_put, get and remove is that of a map that changes in
\* one step: no rehash, no copy, no slot next to the home slot and no hash
\* computed before the table grew shows.  That calls also return, which
\* IsAMap says as well, is left to the model checker.
THEOREM ImplementsAMap ==
  ASSUME Misuse = {}
  PROVE  Spec => Map!Init /\ [][Map!Next]_(Map!vars)
<1>1. Init => Map!Init
  BY MapInit
<1>2. IndInv /\ [Next]_vars => [Map!Next]_(Map!vars)
  BY MapStep
<1>. QED  BY <1>1, <1>2, Inductive, PTL DEF Spec
=============================================================================
