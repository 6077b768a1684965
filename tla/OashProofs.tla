----------------------------- MODULE OashProofs -----------------------------
(***************************************************************************)
(* Proofs about Oash, for every set of keys, every hash function and every *)
(* capacity: the invariants of the table, by the inductive invariant       *)
(* IndInv, and that its answers are those of a map.                        *)
(*                                                                         *)
(* Two assumptions on the constants, both of them about hazards the        *)
(* configurations nomem and clash show to be real: memory does not run out *)
(* with a failure hook that returns, and no key has a prefix whose hash    *)
(* and length are those of a third key.                                    *)
(***************************************************************************)
EXTENDS Oash, FiniteSetTheorems, TLAPS

NoClash ==
  \A c, e, k \in Keys :
    c # e /\ HashOf[c] = HashOf[e] /\ KLen[c] = KLen[e] /\ <<e, k>> \in Prefix => e = k

Sane == NoClash /\ ~CallocMayFail

-----------------------------------------------------------------------------
(***************************************************************************)
(* Walking around a table of c slots                                       *)
(***************************************************************************)
\* A hash has its home in the table.
LEMMA HomeInTable ==
  ASSUME NEW c \in Nat \ {0}, NEW h \in Nat
  PROVE  Home(c, h) \in 0 .. c - 1
BY Z3 DEF Home

\* The distance between two slots is less than the table is long; only a slot
\* itself is at distance 0, and two slots are never at the same distance.
LEMMA DistFacts ==
  ASSUME NEW c \in Nat \ {0}, NEW a \in 0 .. c - 1, NEW b \in 0 .. c - 1
  PROVE  /\ Dist(c, a, b) \in 0 .. c - 1
         /\ Dist(c, a, a) = 0
         /\ \A d \in 0 .. c - 1 : Dist(c, a, b) = Dist(c, a, d) => b = d
BY DEF Dist

\* One step further is one more, except back at the start.
LEMMA AfterFacts ==
  ASSUME NEW c \in Nat, c >= 4, NEW a \in 0 .. c - 1, NEW b \in 0 .. c - 1
  PROVE  /\ After(c, b) \in 0 .. c - 1
         /\ After(c, b) # b
         /\ After(c, b) # a => Dist(c, a, After(c, b)) = Dist(c, a, b) + 1
         /\ After(c, b) = a => Dist(c, a, b) = c - 1
         /\ After(c, b) = a => Dist(c, a, After(c, b)) = 0
BY DEF Dist, After

\* A walk starts from a slot of the table, at distance 0.
LEMMA StartFacts ==
  ASSUME TypeOK, NEW h \in Nat
  PROVE  /\ Home(cap, h) \in Slots
         /\ Dist(cap, Home(cap, h), Home(cap, h)) = 0
         /\ \A j \in Slots : Dist(cap, Home(cap, h), j) \in Nat
<1>1. cap \in Nat \ {0} /\ Slots = 0 .. cap - 1
  BY DEF TypeOK, Slots
<1>2. Home(cap, h) \in 0 .. cap - 1
  BY <1>1, HomeInTable
<1>3. Dist(cap, Home(cap, h), Home(cap, h)) = 0
  BY <1>1, <1>2, DistFacts
<1>4. ASSUME NEW j \in Slots PROVE Dist(cap, Home(cap, h), j) \in Nat
  <2>1. Dist(cap, Home(cap, h), j) \in 0 .. cap - 1
    BY <1>1, <1>2, DistFacts
  <2>. QED  BY <1>1, <2>1
<1>. QED  BY <1>1, <1>2, <1>3, <1>4

-----------------------------------------------------------------------------
(***************************************************************************)
(* Counting                                                                *)
(***************************************************************************)
\* The slots that are taken are a finite set, no larger than the table.
LEMMA TakenFinite ==
  ASSUME TypeOK
  PROVE  IsFiniteSet(Taken) /\ Cardinality(Taken) \in 0 .. cap
<1>1. IsFiniteSet(Slots) /\ Cardinality(Slots) = cap
  BY FS_Interval DEF TypeOK, Slots
<1>2. Taken \in SUBSET Slots
  BY DEF Taken
<1>. QED  BY <1>1, <1>2, FS_Subset, FS_CardinalityType DEF TypeOK

\* A table whose size is below its capacity has an empty slot.
LEMMA EmptySlot ==
  ASSUME TypeOK, SizeCounts, size < cap
  PROVE  \E i \in Slots : table[i].hash = 0
<1>1. IsFiniteSet(Slots) /\ Cardinality(Slots) = cap
  BY FS_Interval DEF TypeOK, Slots
<1>2. SUFFICES ASSUME \A i \in Slots : table[i].hash # 0 PROVE FALSE
  OBVIOUS
<1>3. Taken = Slots
  BY <1>2 DEF Taken
<1>. QED  BY <1>1, <1>3 DEF SizeCounts, TypeOK

-----------------------------------------------------------------------------
(***************************************************************************)
(* The initial states, and the steps that do not change the table          *)
(***************************************************************************)
\* An empty slot is an entry; no table is a table of no slots.
LEMMA EmptyEntry == Empty \in Entry /\ NoTable \in [0 .. 0 - 1 -> Entry]
<1>1. Empty \in Entry
  BY DEF Empty, Entry
<1>. QED  BY <1>1 DEF NoTable

\* A new table satisfies the invariant.
LEMMA InitIndInv == Init => IndInv
<1> SUFFICES ASSUME Init PROVE IndInv
  OBVIOUS
<1> USE DEF Init, Slots
<1>1. TypeOK
  <2>1. old \in [0 .. ocap - 1 -> Entry] /\ oi \in 0 .. ocap
    BY EmptyEntry
  <2>2. table \in [Slots -> Entry] /\ data \in [Slots -> Dentry \cup {NULL}]
    BY EmptyEntry
  <2>3. cap \in Nat /\ 4 <= cap /\ cap <= MaxCap /\ dsize \in 0 .. DsizeMod - 1
    BY SizeAssumption
  <2>4. res \in Answer
    BY DEF Answer, Nothing, Val
  <2>. QED  BY <2>1, <2>2, <2>3, <2>4, EmptyEntry DEF TypeOK
<1>2. Taken = {}
  BY DEF Taken, Empty
<1>3. SizeCounts
  BY <1>2, FS_EmptySet DEF SizeCounts
<1>4. PslAccurate /\ RobinHood /\ PslFits /\ KeysUnique /\ DentriesReached
  BY <1>1 DEF PslAccurate, RobinHood, PslFits, KeysUnique, DentriesReached,
              Carrying, InTable, Empty, TypeOK
<1>5. EntriesOwnDentries
  BY DEF EntriesOwnDentries, Carrying, InTable, Empty, Left
<1>6. Control /\ Vacating /\ PuttingKey /\ ProbeEnds /\ Growing /\ RoomToSpare /\ NeverDead
  BY DEF Control, Vacating, PuttingKey, ProbeEnds, Growing, RoomToSpare, NeverDead,
         Carrying, CarriesNew, Keyed
<1>. QED  BY <1>1, <1>3, <1>4, <1>5, <1>6 DEF IndInv

\* A call that returns without touching the table, when nothing is being
\* carried, vacated or left to move, preserves the invariant.
LEMMA ReturnIndInv ==
  ASSUME IndInv, NEW answer \in Answer, Return(answer), UNCHANGED flags,
         UNCHANGED <<cap, table, size, dsize>>,
         data' \in [Slots -> Dentry \cup {NULL}],
         \A a \in Slots : /\ data[a] = NULL <=> data'[a] = NULL
                          /\ data[a] # NULL => data'[a].key = data[a].key,
         pc \in {"lookup", "rehash"} \/ (CarriesNew /\ pc = "probe"),
         Left = {},
         grows => cap - size > cap \div 3
  PROVE  IndInv'
<1> USE DEF Return, flags
<1>1. TypeOK'
  <2>1. (old \in [0 .. ocap - 1 -> Entry] /\ oi \in 0 .. ocap)'
    BY EmptyEntry
  <2>2. table' \in [Slots' -> Entry] /\ data' \in [Slots' -> Dentry \cup {NULL}]
    BY DEF IndInv, TypeOK, Slots
  <2>3. index' \in Slots' /\ hole' \in Slots' /\ re' \in -1 .. cap' - 1
    BY DEF IndInv, TypeOK, Slots
  <2>. QED  BY <2>1, <2>2, <2>3, EmptyEntry DEF IndInv, TypeOK
<1>2. PslAccurate' /\ RobinHood' /\ PslFits'
  BY DEF IndInv, PslAccurate, RobinHood, PslFits, Carrying, InTable, IsHole, HomeOf, Slots, CarriesNew
<1>3. SizeCounts'
  BY DEF IndInv, SizeCounts, Taken, Slots
<1>4. EntriesOwnDentries'
  <2>1. \A i \in Slots : ~Pending(i)
    BY DEF IndInv, TypeOK, Pending, CarriesNew, Slots, Carrying
  <2>2. \A i \in Slots : table[i].hash # 0 => Refers(table[i])'
    BY <2>1 DEF IndInv, EntriesOwnDentries, Refers, Slots
  <2>3. EntriesOwnDentries
    BY DEF IndInv
  <2>. QED  BY SMTT(30), <2>1, <2>2, <2>3 DEF EntriesOwnDentries, Refers, Carrying, CarriesNew, InTable, IsHole,
                                    Left, Slots, Pending, Keyed
<1>5. DentriesReached'
  BY DEF IndInv, TypeOK, DentriesReached, Carrying, CarriesNew, InTable, IsHole, Left, Slots, Pending, Keyed
<1>6. KeysUnique'
  BY DEF IndInv, KeysUnique, Slots
<1>7. Control' /\ Vacating' /\ PuttingKey' /\ ProbeEnds' /\ Growing' /\ RoomToSpare' /\ NeverDead'
  BY DEF Control, Vacating, PuttingKey, ProbeEnds, Growing, RoomToSpare, NeverDead,
         Carrying, CarriesNew, Keyed
<1>. QED  BY <1>1, <1>2, <1>3, <1>4, <1>5, <1>6, <1>7 DEF IndInv

\* Starting or continuing a lookup preserves the invariant.
LEMMA LookupIndInv ==
  ASSUME IndInv, pc \in {"idle", "lookup"}, pc' = "lookup",
         UNCHANGED <<store, flags, placed, carry, moving, removal>>,
         index' \in Slots, np' \in Nat, res' \in Answer,
         req' \in Request, req'.op = "put" => size = cap
  PROVE  IndInv'
<1> USE DEF store, flags, carry, moving, removal
<1>1. TypeOK'
  BY DEF IndInv, TypeOK, Slots
<1>2. PslAccurate' /\ RobinHood' /\ PslFits'
  BY DEF IndInv, PslAccurate, RobinHood, PslFits, Carrying, InTable, IsHole, HomeOf, Slots
<1>3. SizeCounts'
  BY DEF IndInv, SizeCounts, Taken, Slots
<1>4. EntriesOwnDentries' /\ DentriesReached' /\ KeysUnique'
  <2>1. EntriesOwnDentries'
    BY SMTT(30) DEF IndInv, EntriesOwnDentries, Refers, Carrying, CarriesNew, InTable, IsHole, Left,
        Slots, Pending, Keyed
  <2>2. DentriesReached'
    BY DEF IndInv, DentriesReached, Refers, Carrying, CarriesNew, InTable, IsHole, Left, Slots,
        Pending, Keyed
  <2>3. KeysUnique'
    BY DEF IndInv, KeysUnique, Refers, Carrying, CarriesNew, InTable, IsHole, Left, Slots,
        Pending, Keyed
  <2>. QED  BY <2>1, <2>2, <2>3
<1>5. Control' /\ Vacating' /\ PuttingKey' /\ ProbeEnds' /\ Growing' /\ NeverDead'
  BY DEF IndInv, Control, Vacating, PuttingKey, ProbeEnds, Growing, NeverDead,
         Carrying, CarriesNew, Keyed
<1>6. RoomToSpare'
  BY DEF IndInv, RoomToSpare, Keyed, Control
<1>. QED  BY <1>1, <1>2, <1>3, <1>4, <1>5, <1>6 DEF IndInv

\* Starting to probe for a key preserves the invariant, when the table has
\* room or holds the key.
LEMMA ProbeStartIndInv ==
  ASSUME IndInv, pc \in {"idle", "lookup"}, ocap = 0,
         req' \in Request, req'.op = "put", StartProbe(Fresh(req'.key)),
         UNCHANGED <<store, flags, placed, np, moving, removal>>, res' \in Answer,
         size = cap => \E i \in Slots : table[i].hash # 0 /\ data[table[i].di].key = req'.key,
         AtLimit(size + 1) => 2 * cap <= MaxCap
  PROVE  IndInv'
<1> DEFINE k == req'.key
<1>u. /\ pc' = "probe" /\ re' = -1 /\ entry' = [Fresh(k) EXCEPT !.psl = 0]
      /\ index' = Home(cap, Fresh(k).hash) /\ Slots' = Slots
      /\ UNCHANGED <<cap, table, size, data, dsize, grows, norepl, placed, np, ocap, old, oi, victim, hole>>
  BY DEF store, flags, moving, removal, StartProbe, Slots
<1>0. /\ entry' = [hash |-> HashOf[k], klen |-> KLen[k], psl |-> 0, di |-> 0]
      /\ entry' \in Entry /\ entry'.hash # 0 /\ index' = Home(cap, entry'.hash)
      /\ index' \in Slots
  <2>1. k \in Keys /\ HashOf[k] \in Nat \ {0} /\ KLen[k] \in Nat
    BY KeysAssumption DEF Request
  <2>2. entry' = [hash |-> HashOf[k], klen |-> KLen[k], psl |-> 0, di |-> 0] /\ index' = Home(cap, HashOf[k])
    BY <1>u DEF Fresh
  <2>3. index' \in Slots
    BY <2>1, <2>2, StartFacts DEF IndInv
  <2>. QED  BY <2>1, <2>2, <2>3 DEF Entry
<1>1. TypeOK'
  BY <1>0, <1>u DEF IndInv, TypeOK
<1>2. PslAccurate' /\ RobinHood' /\ PslFits'
  <2>1. /\ Dist(cap, Home(cap, entry'.hash), index') = 0 /\ entry'.psl = 0 /\ 0 < cap
        /\ \A j \in Slots : ~(Dist(cap, Home(cap, entry'.hash), j) < entry'.psl)
    <3>1. entry'.hash \in Nat /\ entry'.psl = 0
      BY <1>0 DEF Entry
    <3>2. /\ Dist(cap, Home(cap, entry'.hash), Home(cap, entry'.hash)) = 0
          /\ \A j \in Slots : Dist(cap, Home(cap, entry'.hash), j) \in Nat
      BY <3>1, StartFacts DEF IndInv
    <3>3. 0 < cap
      BY DEF IndInv, TypeOK
    <3>. QED  BY <1>0, <3>1, <3>2, <3>3
  <2>2. PslAccurate' /\ PslFits'
    BY <1>0, <1>u, <2>1 DEF IndInv, PslAccurate, PslFits, Carrying, InTable, IsHole, HomeOf
  <2>3. RobinHood'
    BY <1>u, <2>1 DEF IndInv, RobinHood, Carrying, InTable, IsHole, HomeOf
  <2>. QED  BY <2>2, <2>3
<1>3. SizeCounts' /\ KeysUnique'
  BY <1>u DEF IndInv, SizeCounts, KeysUnique, Taken
<1>i. /\ Left = {} /\ Left' = {} /\ re' \notin Slots
      /\ \A i \in Slots : ~Pending(i) /\ ~Pending(i)' /\ (InTable(i) <=> table[i].hash # 0)
                        /\ (InTable(i)' <=> table[i].hash # 0)
  BY <1>u DEF Left, Pending, Slots, InTable, IsHole
<1>4. EntriesOwnDentries'
  <2>1. \A i \in Slots : Refers(table[i]) => Refers(table[i])'
    BY <1>u DEF Refers
  <2>. QED  BY <1>u, <1>i, <2>1 DEF IndInv, EntriesOwnDentries, Carrying, CarriesNew, Keyed
<1>d. DentriesReached'
  BY <1>u, <1>i DEF IndInv, DentriesReached, Carrying
<1>5. Control' /\ Vacating' /\ NeverDead'
  BY <1>u DEF IndInv, Control, Vacating, NeverDead, Keyed
<1>e. ProbeEnds' /\ Growing'
  BY <1>u, <1>i DEF ProbeEnds, Growing, AtLimit, Carrying, CarriesNew, Keyed, HoldsKey
<1>6. PuttingKey'
  <2>1. \A i \in Slots : 0 <= table[i].psl
    BY DEF IndInv, TypeOK, Entry
  <2>. QED  BY <1>0, <1>u, <2>1 DEF PuttingKey, Carrying, CarriesNew, Keyed, HoldsKey
<1>7. RoomToSpare'
  BY <1>u DEF IndInv, RoomToSpare, Keyed, Control
<1>. QED  BY <1>1, <1>2, <1>3, <1>4, <1>d, <1>5, <1>e, <1>6, <1>7 DEF IndInv

-----------------------------------------------------------------------------
(***************************************************************************)
(* n_oash_put_entry                                                        *)
(***************************************************************************)
\* Where the carried entry is, and that no entry of the table is further from
\* its home than the table is long.
LEMMA CarryFacts ==
  ASSUME IndInv, pc = "probe"
  PROVE  /\ cap \in Nat /\ cap >= 4 /\ index \in Slots /\ entry \in Entry
         /\ Home(cap, entry.hash) \in Slots
         /\ entry.psl = Dist(cap, Home(cap, entry.hash), index)
         /\ entry.psl \in 0 .. cap - 1
         /\ \A i \in Slots : /\ table[i] \in Entry
                             /\ HomeOf(i) \in Slots
                             /\ table[i].hash # 0 => table[i].psl = Dist(cap, HomeOf(i), i)
                             /\ table[i].psl \in 0 .. cap - 1
         /\ \A i \in Slots : ~IsHole(i)
<1>1. /\ cap \in Nat /\ cap >= 4 /\ index \in Slots /\ entry \in Entry
      /\ \A i \in Slots : table[i] \in Entry
  BY DEF IndInv, TypeOK
<1>2. Home(cap, entry.hash) \in Slots /\ \A i \in Slots : HomeOf(i) \in Slots
  BY <1>1, HomeInTable DEF Entry, HomeOf, Slots
<1>3. \A i \in Slots : ~IsHole(i)
  BY DEF IsHole
<1>. QED  BY <1>1, <1>2, <1>3 DEF IndInv, PslAccurate, PslFits, Carrying, InTable, Entry

\* Counting up below the modulus.
LEMMA SmallMod ==
  ASSUME NEW m \in Nat, NEW n \in Nat, n < m
  PROVE  n % m = n
BY Z3

\* The psl of an entry that goes on does not wrap.
LEMMA PslUp ==
  ASSUME TypeOK, NEW n \in Nat, n + 1 < cap
  PROVE  (n + 1) % PslMod = n + 1
BY SmallMod, SizeAssumption DEF TypeOK

\* The loop does not swap before it comes to the key it was given.
LEMMA NoSwapBeforeKey ==
  ASSUME IndInv, Probing, Keyed, ~SlotIsKey, entry.psl > table[index].psl
  PROVE  \A i \in Slots : ~HoldsKey(i)
<1>1. SUFFICES ASSUME NEW i \in Slots, HoldsKey(i) PROVE FALSE
  OBVIOUS
<1>2. re = -1 /\ entry.psl <= table[i].psl /\ entry.hash = HashOf[req.key] /\ entry.klen = KLen[req.key]
  BY <1>1 DEF IndInv, PuttingKey, Probing, Carrying, CarriesNew
<1>3. Refers(table[i]) /\ table[i].hash = entry.hash /\ table[i].klen = entry.klen
  BY <1>1, <1>2 DEF IndInv, EntriesOwnDentries, HoldsKey, Refers
<1>4. i # index
  BY <1>1, <1>3, KeysAssumption DEF SlotIsKey, HoldsKey, Refers, IndInv, TypeOK, Dentry
<1>5. table[index].psl >= entry.psl
  BY <1>1, <1>2, <1>3, CarryFacts DEF IndInv, RobinHood, Probing, HomeOf, InTable, HoldsKey
<1>. QED  BY <1>5, CarryFacts DEF Probing, Entry

\* The carried entry stops short of a full turn.
LEMMA CarryStops ==
  ASSUME IndInv, Probing, ~SlotIsKey
  PROVE  entry.psl + 1 < cap
<1> DEFINE h == Home(cap, entry.hash)
<1> USE CarryFacts DEF Probing
<1>1. \A j \in Slots : Dist(cap, h, j) \in 0 .. cap - 1 /\ (j # index => Dist(cap, h, j) # entry.psl)
  BY DistFacts DEF Slots
<1>2. CASE size < cap
  <2>1. PICK i \in Slots : table[i].hash = 0
    BY <1>2, EmptySlot DEF IndInv
  <2>2. i # index /\ ~(Dist(cap, h, i) < entry.psl)
    BY <2>1 DEF IndInv, RobinHood, Carrying
  <2>. QED  BY <1>1, <2>1, <2>2
<1>3. CASE size = cap
  <2>1. PICK i \in Slots : HoldsKey(i)
    BY <1>3 DEF IndInv, ProbeEnds, Carrying
  <2>2. CarriesNew
    BY <1>3 DEF IndInv, ProbeEnds, Carrying
  <2>3. Refers(table[i]) /\ entry.psl <= table[i].psl /\ table[i].hash = entry.hash /\ table[i].klen = entry.klen
    BY SMTT(30), <2>1, <2>2 DEF IndInv, EntriesOwnDentries, PuttingKey, HoldsKey, Refers, CarriesNew, Carrying
  <2>4. i # index
    BY <2>1, <2>2, <2>3, KeysAssumption DEF SlotIsKey, HoldsKey, Refers, CarriesNew, IndInv, TypeOK, Dentry
  <2>5. table[i].psl = Dist(cap, h, i)
    BY <2>1, <2>3 DEF HomeOf, HoldsKey
  <2>. QED  BY <1>1, <2>3, <2>4, <2>5
<1>. QED  BY <1>2, <1>3 DEF IndInv, TypeOK

\* Going on to the next slot keeps the way back to slot re open.
LEMMA WalkOn ==
  ASSUME IndInv, Probing, re # -1
  PROVE  /\ re \in Slots /\ After(cap, index) # re
         /\ \A j \in Slots : Dist(cap, re, j) < Dist(cap, re, After(cap, index)) => table[j].hash # 0
<1> USE CarryFacts DEF Probing
<1>1. /\ re \in Slots /\ size < cap
      /\ \A j \in Slots : Dist(cap, re, j) < Dist(cap, re, index) => table[j].hash # 0
  BY DEF IndInv, TypeOK, ProbeEnds, Carrying, CarriesNew, Slots
<1>2. \A j \in Slots : /\ Dist(cap, re, j) \in 0 .. cap - 1
                       /\ j # index => Dist(cap, re, j) # Dist(cap, re, index)
  BY <1>1, DistFacts DEF Slots
<1>3. After(cap, index) # re
  <2>1. SUFFICES ASSUME After(cap, index) = re PROVE FALSE
    OBVIOUS
  <2>2. Dist(cap, re, index) = cap - 1
    BY <1>1, <2>1, AfterFacts DEF Slots
  <2>3. \A j \in Slots : table[j].hash # 0
    BY <1>1, <1>2, <2>2
  <2>. QED  BY <1>1, <2>3, EmptySlot DEF IndInv
<1>4. Dist(cap, re, After(cap, index)) = Dist(cap, re, index) + 1
  BY <1>1, <1>3, AfterFacts DEF Slots
<1>. QED  BY <1>1, <1>2, <1>3, <1>4

\* Passing a slot preserves the invariant.
LEMMA ProbeNextIndInv ==
  ASSUME IndInv, ProbeNext
  PROVE  IndInv'
<1> DEFINE h == Home(cap, entry.hash)
           e == table[index]
<1> USE DEF ProbeNext, Probing, GivesWay, store, flags, moving, removal
<1>0. pc = "probe" /\ pc' = "probe" /\ UNCHANGED <<cap, table, size, data, re, req, ocap, old, oi>>
  OBVIOUS
<1>1. entry' = [entry EXCEPT !.psl = entry.psl + 1] /\ entry.psl + 1 < cap
  <2>1. entry.psl + 1 < cap
    BY CarryStops
  <2>. QED  BY <2>1, CarryFacts, PslUp DEF IndInv
<1>2. index' = After(cap, index) /\ index' \in Slots /\ Dist(cap, h, index') = entry.psl + 1
  BY <1>1, CarryFacts, AfterFacts DEF Slots
<1>3. entry' \in Entry /\ entry'.hash = entry.hash /\ entry'.psl = entry.psl + 1
      /\ entry'.di = entry.di /\ entry'.klen = entry.klen
  BY <1>1, CarryFacts DEF Entry
<1>4. TypeOK'
  BY <1>2, <1>3 DEF IndInv, TypeOK, Slots
<1>5. PslAccurate' /\ PslFits'
  BY <1>1, <1>2, <1>3 DEF IndInv, PslAccurate, PslFits, Carrying, InTable, IsHole, HomeOf, Slots
<1>6. RobinHood'
  <2>1. ASSUME NEW j \in Slots, Dist(cap, h, j) < entry.psl + 1
        PROVE  table[j].hash # 0 /\ table[j].psl >= Dist(cap, h, j)
    <3>1. CASE j = index
      BY <3>1, CarryFacts
    <3>2. CASE j # index
      <4>1. Dist(cap, h, j) \in Nat /\ Dist(cap, h, j) # entry.psl
        BY <3>2, CarryFacts, DistFacts DEF Slots
      <4>. QED  BY <2>1, <4>1, CarryFacts DEF IndInv, RobinHood, Carrying
    <3>. QED  BY <3>1, <3>2
  <2>. QED  BY <1>0, <1>3, <2>1 DEF IndInv, RobinHood, Carrying, InTable, IsHole, HomeOf, Slots
<1>7. SizeCounts' /\ KeysUnique' /\ RoomToSpare' /\ Vacating' /\ NeverDead'
  BY DEF IndInv, SizeCounts, KeysUnique, RoomToSpare, Vacating, NeverDead, Taken, Slots, Keyed
<1>8. EntriesOwnDentries' /\ DentriesReached'
  <2>1. EntriesOwnDentries'
    BY SMTT(30), <1>3 DEF IndInv, EntriesOwnDentries, Refers, Carrying, CarriesNew, InTable, IsHole, Left,
        Slots, Pending, Keyed
  <2>2. DentriesReached'
    BY <1>3 DEF IndInv, DentriesReached, Refers, Carrying, CarriesNew, InTable, IsHole, Left,
        Slots, Pending, Keyed
  <2>. QED  BY <2>1, <2>2
<1>9. Control' /\ Growing'
  BY DEF IndInv, Control, Growing, AtLimit, Carrying, Keyed
<1>10. PuttingKey'
  <2>1. ASSUME NEW i \in Slots, HoldsKey(i), Keyed
        PROVE  re = -1 /\ entry.psl + 1 <= table[i].psl
    <3>1. re = -1 /\ entry.psl <= table[i].psl /\ entry.hash = HashOf[req.key] /\ entry.klen = KLen[req.key]
      BY <2>1 DEF IndInv, PuttingKey, Carrying, CarriesNew
    <3>2. Refers(table[i]) /\ table[i].hash = entry.hash /\ table[i].klen = entry.klen
      BY <2>1, <3>1 DEF IndInv, EntriesOwnDentries, HoldsKey, Refers
    <3>3. i # index
      BY <2>1, <3>2, KeysAssumption DEF SlotIsKey, HoldsKey, Refers, IndInv, TypeOK, Dentry
    <3>4. Dist(cap, h, i) # entry.psl
      BY <3>3, CarryFacts, DistFacts DEF Slots
    <3>5. table[i].psl = Dist(cap, h, i)
      BY <2>1, <3>2, CarryFacts DEF HomeOf, HoldsKey
    <3>. QED  BY <3>1, <3>4, <3>5, CarryFacts
  <2>. QED  BY <1>0, <1>3, <2>1 DEF IndInv, PuttingKey, Carrying, CarriesNew, HoldsKey, Pending, Keyed, Slots
<1>11. ProbeEnds'
  BY <1>2, WalkOn DEF IndInv, ProbeEnds, Carrying, CarriesNew, HoldsKey, Pending, Keyed, Slots
<1>. QED  BY <1>4, <1>5, <1>6, <1>7, <1>8, <1>9, <1>10, <1>11 DEF IndInv

\* Swapping the carried entry with a richer one preserves the invariant.
LEMMA ProbeSwapIndInv ==
  ASSUME IndInv, ProbeSwap
  PROVE  IndInv'
<1> DEFINE h == Home(cap, entry.hash)
           e == table[index]
<1> USE DEF ProbeSwap, Probing, GivesWay, flags, moving, removal
<1>0. pc = "probe" /\ pc' = "probe" /\ UNCHANGED <<cap, size, data, req, ocap, old, oi>>
  OBVIOUS
<1>1. entry' = [e EXCEPT !.psl = e.psl + 1] /\ e.psl < entry.psl /\ e.psl + 1 < cap
  <2>1. e.psl < entry.psl /\ e.psl + 1 < cap
    BY CarryFacts
  <2>. QED  BY <2>1, CarryFacts, PslUp DEF IndInv
<1>2. /\ index' = After(cap, index) /\ index' \in Slots
      /\ Dist(cap, HomeOf(index), index') = e.psl + 1
  BY <1>1, CarryFacts, AfterFacts DEF Slots
<1>3. entry' \in Entry /\ entry'.hash = e.hash /\ entry'.psl = e.psl + 1
      /\ entry'.di = e.di /\ entry'.klen = e.klen /\ e.hash # 0 /\ entry.hash # 0
  BY <1>1, CarryFacts DEF Entry, IndInv, PslAccurate, Carrying
<1>4. /\ table' \in [Slots -> Entry] /\ table'[index] = entry
      /\ \A i \in Slots : i # index => table'[i] = table[i]
  BY CarryFacts DEF IndInv, TypeOK
<1>5. TypeOK'
  <2>1. Slots' = Slots /\ re' \in -1 .. cap - 1
    <3>1. index \in -1 .. cap - 1 /\ re \in -1 .. cap - 1
      BY DEF IndInv, TypeOK, Slots
    <3>. QED  BY <1>0, <3>1 DEF Slots
  <2>2. UNCHANGED <<dsize, grows, norepl, res, placed, np, victim, hole>>
    OBVIOUS
  <2> HIDE DEF ProbeSwap, Probing, GivesWay, flags, moving, removal
  <2>. QED  BY <1>0, <1>2, <1>3, <1>4, <2>1, <2>2 DEF IndInv, TypeOK
<1>6. PslAccurate' /\ PslFits'
  BY <1>1, <1>2, <1>3, <1>4, CarryFacts DEF IndInv, PslAccurate, PslFits, Carrying, InTable, IsHole, HomeOf, Slots
<1>7. RobinHood'
  <2>1. ASSUME NEW j \in Slots, Dist(cap, HomeOf(index), j) < e.psl + 1
        PROVE  table'[j].hash # 0 /\ table'[j].psl >= Dist(cap, HomeOf(index), j)
    <3>1. Dist(cap, HomeOf(index), j) <= e.psl
      BY <2>1, CarryFacts, DistFacts DEF Slots
    <3>2. table[j].hash # 0 /\ table[j].psl >= Dist(cap, HomeOf(index), j)
      BY <1>3, <3>1, CarryFacts DEF IndInv, RobinHood, InTable
    <3>. QED  BY <1>1, <1>3, <1>4, <3>1, <3>2, CarryFacts, DistFacts DEF Slots
  <2>2. ASSUME NEW j \in Slots, Dist(cap, h, j) <= entry.psl
        PROVE  table'[j].hash # 0 /\ table'[j].psl >= Dist(cap, h, j)
    <3>1. CASE j = index
      BY <1>3, <1>4, <3>1, CarryFacts
    <3>2. CASE j # index
      <4>1. Dist(cap, h, j) \in Nat /\ Dist(cap, h, j) # entry.psl
        BY <3>2, CarryFacts, DistFacts DEF Slots
      <4>. QED  BY <1>4, <2>2, <3>2, <4>1, CarryFacts DEF IndInv, RobinHood, Carrying
    <3>. QED  BY <3>1, <3>2
  <2>3. ASSUME NEW i \in Slots, NEW j \in Slots, i # index, table[i].hash # 0,
               Dist(cap, HomeOf(i), j) <= table[i].psl
        PROVE  table'[j].hash # 0 /\ table'[j].psl >= Dist(cap, HomeOf(i), j)
    <3>1. table[j].hash # 0 /\ table[j].psl >= Dist(cap, HomeOf(i), j)
      BY <2>3, CarryFacts DEF IndInv, RobinHood, InTable
    <3>2. CASE j = index
      <4>1. Dist(cap, HomeOf(i), j) \in Nat /\ e.psl \in Nat /\ entry.psl \in Nat
        BY CarryFacts, DistFacts DEF Slots
      <4>. QED  BY <1>1, <1>3, <1>4, <3>1, <3>2, <4>1
    <3>3. CASE j # index
      BY <1>4, <3>1, <3>3
    <3>. QED  BY <3>2, <3>3
  <2>4. ASSUME NEW i \in Slots, NEW j \in Slots, table'[i].hash # 0,
               Dist(cap, Home(cap, table'[i].hash), j) <= table'[i].psl
        PROVE  table'[j].hash # 0 /\ table'[j].psl >= Dist(cap, Home(cap, table'[i].hash), j)
    <3>1. CASE i = index
      BY <1>4, <2>2, <2>4, <3>1
    <3>2. CASE i # index
      BY <1>4, <2>3, <2>4, <3>2 DEF HomeOf
    <3>. QED  BY <3>1, <3>2
  <2>5. Slots' = Slots /\ pc' = "probe" /\ cap' = cap
    BY <1>0 DEF Slots
  <2>6. Home(cap, entry'.hash) = HomeOf(index) /\ entry'.psl = e.psl + 1
    BY <1>3 DEF HomeOf
  <2>. QED  BY <2>1, <2>4, <2>5, <2>6 DEF RobinHood, Carrying, InTable, IsHole, HomeOf
<1>8. Taken' = Taken
  BY <1>0, <1>3, <1>4 DEF Taken, Slots
<1>9. SizeCounts' /\ KeysUnique' /\ RoomToSpare' /\ Vacating' /\ NeverDead'
  BY <1>0, <1>8 DEF IndInv, SizeCounts, KeysUnique, RoomToSpare, Vacating, NeverDead, Slots, Keyed
<1>10. Control' /\ Growing'
  BY <1>0 DEF IndInv, Control, Growing, AtLimit, Carrying, Keyed
<1>11. re' \in Slots /\ (re # -1 => re' = re /\ re # index) /\ (re = -1 => re' = index) /\ -1 \notin Slots
  <2>1. re = -1 \/ (re \in Slots /\ re # index)
    BY DEF IndInv, TypeOK, ProbeEnds, Carrying, Slots
  <2>2. -1 \notin Slots /\ index \in Slots
    BY CarryFacts DEF Slots
  <2>. QED  BY <2>1, <2>2
<1>12. EntriesOwnDentries'
  <2>1. Refers(e) /\ \A i \in Slots : i # index /\ table[i].hash # 0 /\ ~Pending(i) => table[i].di # e.di
    BY <1>3, <1>11, CarryFacts DEF IndInv, EntriesOwnDentries, InTable, Pending
  <2>2. \A i \in Left : Refers(old[i]) /\ old[i].di # e.di
    BY <1>3, <1>11, CarryFacts DEF IndInv, EntriesOwnDentries, InTable, Pending
  <2>3. \A i \in Slots : i # index /\ ~Pending(i)' => ~Pending(i)
    BY <1>0, <1>11 DEF Pending, Keyed
  <2>4. \A i \in Slots : i = index /\ ~Pending(i)' => ~CarriesNew
    BY <1>0, <1>11 DEF Pending, CarriesNew, Keyed
  <2>5. ~CarriesNew =>
          /\ Refers(entry)
          /\ \A i \in Slots : table[i].hash # 0 /\ ~Pending(i) => table[i].di # entry.di
          /\ \A i \in Left : old[i].di # entry.di
    BY CarryFacts DEF IndInv, EntriesOwnDentries, InTable, Carrying
  <2>6. ASSUME NEW i \in Slots, table'[i].hash # 0, ~Pending(i)'
        PROVE  /\ Refers(table'[i]) /\ table'[i].di # e.di
               /\ \A j \in Left : table'[i].di # old[j].di
               /\ \A j \in Slots : j # i /\ table'[j].hash # 0 /\ ~Pending(j)'
                                  => table'[i].di # table'[j].di
    <3>1. CASE i = index
      BY <1>3, <1>4, <1>11, <2>1, <2>3, <2>4, <2>5, <2>6, <3>1, CarryFacts DEF Pending
    <3>2. CASE i # index
      BY <1>4, <2>1, <2>2, <2>3, <2>4, <2>5, <2>6, <3>2, CarryFacts
         DEF IndInv, EntriesOwnDentries, InTable
    <3>. QED  BY <3>1, <3>2
  <2>7. Refers(entry')
    BY <1>3, <2>1 DEF Refers
  <2>8. \A i, j \in Left : i # j => old[i].di # old[j].di
    BY DEF IndInv, EntriesOwnDentries
  <2>9. Left' = Left /\ Slots' = Slots /\ old' = old /\ data' = data /\ pc' = "probe"
    BY <1>0 DEF Left, Slots
  <2>10. \A i \in Slots : table'[i].hash # 0 /\ ~Pending(i)' => Refers(table[i])' 
    BY <2>6, <2>9 DEF Refers
  <2>11. Refers(entry)' /\ \A i \in Left : Refers(old[i])'
    BY <2>2, <2>7, <2>9 DEF Refers
  <2>12. (\A i, j \in Slots : i # j /\ InTable(i) /\ InTable(j) /\ ~Pending(i) /\ ~Pending(j)
            => table[i].di # table[j].di)'
    BY <2>6, <2>9 DEF InTable
  <2>13. (\A i \in Slots : InTable(i) /\ ~Pending(i) =>
            /\ table[i].di # entry.di
            /\ \A j \in Left : table[i].di # old[j].di)'
    BY <1>3, <2>6, <2>9 DEF InTable
  <2>14. (\A i \in Left : old[i].di # entry.di)'
    BY <1>3, <2>2, <2>9
  <2> HIDE DEF ProbeSwap, Probing, GivesWay, flags, moving, removal
  <2>. QED  BY <2>8, <2>9, <2>10, <2>11, <2>12, <2>13, <2>14 DEF EntriesOwnDentries
<1>13. DentriesReached'
  BY <1>0, <1>3, <1>4, <1>11, CarryFacts
     DEF IndInv, DentriesReached, InTable, IsHole, Pending, Carrying, CarriesNew, Keyed, Left, Slots
<1>14. PuttingKey'
  <2>1. ASSUME Keyed
        PROVE  /\ \A i \in Slots : ~HoldsKey(i)'
               /\ data[e.di].key # req.key
    <3>1. \A i \in Slots : ~HoldsKey(i)
      BY <2>1, NoSwapBeforeKey
    <3>2. data[e.di].key # req.key
      BY <1>3, <1>11, <3>1, CarryFacts DEF HoldsKey, Pending
    <3>3. re # -1 => data[entry.di].key # req.key
      BY <2>1 DEF IndInv, PuttingKey, Carrying
    <3>. QED  BY <1>0, <1>4, <1>11, <2>1, <3>1, <3>2, <3>3 DEF HoldsKey, Pending, Keyed, Slots
  <2>2. ASSUME Keyed
        PROVE  table'[re'].hash = HashOf[req.key] /\ table'[re'].klen = KLen[req.key]
    BY <1>4, <1>11, <2>2 DEF IndInv, PuttingKey, Carrying, CarriesNew
  <2>. QED  BY <1>0, <1>3, <1>11, <2>1, <2>2 DEF PuttingKey, Carrying, CarriesNew, Keyed, Slots
<1>15. ProbeEnds'
  <2>1. size # cap
    <3>1. SUFFICES ASSUME size = cap PROVE FALSE
      OBVIOUS
    <3>2. Keyed /\ \E i \in Slots : HoldsKey(i)
      BY <3>1 DEF IndInv, ProbeEnds, Carrying, CarriesNew
    <3>. QED  BY <3>2, NoSwapBeforeKey
  <2>2. CASE re = -1
    <3>1. index' # index /\ Dist(cap, index, index') = 1
      BY <1>2, CarryFacts, AfterFacts, DistFacts DEF Slots
    <3>2. \A j \in Slots : Dist(cap, index, j) < 1 => j = index
      BY CarryFacts, DistFacts DEF Slots
    <3>. QED  BY <1>0, <1>3, <1>4, <1>11, <2>1, <2>2, <3>1, <3>2 DEF ProbeEnds, Carrying, Slots
  <2>3. CASE re # -1
    BY <1>0, <1>2, <1>3, <1>4, <1>11, <2>1, <2>3, WalkOn DEF ProbeEnds, Carrying, Slots
  <2>. QED  BY <2>2, <2>3
<1>. QED  BY <1>5, <1>6, <1>7, <1>9, <1>10, <1>12, <1>13, <1>14, <1>15 DEF IndInv

\* An empty slot means there is room, and that the loop has come past no key
\* it was given.
LEMMA EmptyMeansNew ==
  ASSUME IndInv, pc = "probe", table[index].hash = 0
  PROVE  size < cap /\ (Keyed => \A i \in Slots : ~HoldsKey(i))
<1> USE CarryFacts
<1>1. size # cap
  <2>1. IsFiniteSet(Slots) /\ Cardinality(Slots) = cap /\ Taken \in SUBSET Slots
    BY FS_Interval DEF Slots, Taken
  <2>. QED  BY <2>1, FS_Subset DEF IndInv, SizeCounts, Taken
<1>2. ASSUME Keyed, NEW i \in Slots, HoldsKey(i) PROVE FALSE
  <2>1. re = -1 /\ entry.psl <= table[i].psl /\ entry.hash = HashOf[req.key]
    BY <1>2 DEF IndInv, PuttingKey, Carrying, CarriesNew
  <2>2. table[i].hash = entry.hash
    BY <1>2, <2>1 DEF IndInv, EntriesOwnDentries, HoldsKey, Refers
  <2>. QED  BY <1>2, <2>1, <2>2 DEF IndInv, RobinHood, HomeOf, InTable, HoldsKey
<1>. QED  BY <1>1, <1>2 DEF IndInv, TypeOK

\* The slots taken when one more is.
LEMMA OneTaken ==
  ASSUME NEW t, NEW u, NEW S, NEW x \in S, t[x].hash = 0, u[x].hash # 0,
         \A i \in S : i # x => u[i] = t[i]
  PROVE  /\ {i \in S : u[i].hash # 0} = {i \in S : t[i].hash # 0} \cup {x}
         /\ x \notin {i \in S : t[i].hash # 0}
OBVIOUS

\* Filling an empty slot preserves the invariant.
LEMMA ProbeEmptyIndInv ==
  ASSUME IndInv, ProbeEmpty
  PROVE  IndInv'
<1> DEFINE h == Home(cap, entry.hash)
<1> USE DEF ProbeEmpty, flags, find, moving, removal
<1>0. /\ pc = "probe" /\ UNCHANGED <<cap, data, req, placed, index, entry, ocap, old, oi>>
      /\ pc' = (IF Keyed THEN "place" ELSE "rehash")
  OBVIOUS
<1>1. size < cap /\ size' = size + 1 /\ (Keyed => \A i \in Slots : ~HoldsKey(i))
  BY EmptyMeansNew
<1>2. /\ table' \in [Slots -> Entry] /\ table'[index] = entry /\ entry.hash # 0
      /\ \A i \in Slots : i # index => table'[i] = table[i]
  BY CarryFacts DEF IndInv, TypeOK, PslAccurate, Carrying
<1>3. -1 \notin Slots /\ re' \in Slots /\ (re = -1 => re' = index) /\ (re # -1 => re' = re /\ re # index)
  <2>1. re = -1 \/ (re \in Slots /\ re # index)
    BY DEF IndInv, TypeOK, ProbeEnds, Carrying, Slots
  <2>2. -1 \notin Slots /\ index \in Slots
    BY CarryFacts DEF Slots
  <2>. QED  BY <2>1, <2>2
<1>4. TypeOK'
  BY <1>1, <1>2, <1>3 DEF IndInv, TypeOK, Slots
<1>5. PslAccurate' /\ PslFits'
  <2>1. ASSUME NEW i \in Slots
        PROVE  /\ table'[i].psl < cap
               /\ table'[i].hash # 0 => table'[i].psl = Dist(cap, Home(cap, table'[i].hash), i)
    <3>1. CASE i = index
      BY <1>2, <3>1, CarryFacts
    <3>2. CASE i # index
      BY <1>2, <3>2, CarryFacts DEF HomeOf
    <3>. QED  BY <3>1, <3>2
  <2>. QED  BY <1>0, <2>1 DEF PslAccurate, PslFits, Carrying, InTable, HomeOf, Slots
<1>6. RobinHood'
  <2>1. ASSUME NEW j \in Slots, Dist(cap, h, j) <= entry.psl
        PROVE  table'[j].hash # 0 /\ table'[j].psl >= Dist(cap, h, j)
    <3>1. CASE j = index
      BY <1>2, <3>1, CarryFacts
    <3>2. CASE j # index
      <4>1. Dist(cap, h, j) \in Nat /\ Dist(cap, h, j) # entry.psl
        BY <3>2, CarryFacts, DistFacts DEF Slots
      <4>. QED  BY <1>2, <2>1, <3>2, <4>1, CarryFacts DEF IndInv, RobinHood, Carrying
    <3>. QED  BY <3>1, <3>2
  <2>2. ASSUME NEW i \in Slots, NEW j \in Slots, i # index, table[i].hash # 0,
               Dist(cap, HomeOf(i), j) <= table[i].psl
        PROVE  table'[j].hash # 0 /\ table'[j].psl >= Dist(cap, HomeOf(i), j)
    BY <1>2, <2>2, CarryFacts DEF IndInv, RobinHood, InTable
  <2>3. ASSUME NEW i \in Slots, NEW j \in Slots, table'[i].hash # 0,
               Dist(cap, Home(cap, table'[i].hash), j) <= table'[i].psl
        PROVE  table'[j].hash # 0 /\ table'[j].psl >= Dist(cap, Home(cap, table'[i].hash), j)
    <3>1. CASE i = index
      BY <1>2, <2>1, <2>3, <3>1
    <3>2. CASE i # index
      BY <1>2, <2>2, <2>3, <3>2 DEF HomeOf
    <3>. QED  BY <3>1, <3>2
  <2>4. Slots' = Slots /\ pc' # "probe" /\ pc' # "shift" /\ cap' = cap
    BY <1>0 DEF Slots
  <2> HIDE DEF ProbeEmpty, flags, find, moving, removal
  <2>5. ASSUME NEW i \in Slots', NEW j \in Slots',
               (InTable(i) /\ ~IsHole(j) /\ Dist(cap, HomeOf(i), j) <= table[i].psl)'
        PROVE  (table[j].hash # 0 /\ table[j].psl >= Dist(cap, HomeOf(i), j))'
    BY <2>3, <2>4, <2>5 DEF InTable, HomeOf
  <2>6. ~Carrying'
    BY <2>4 DEF Carrying
  <2>7. \A i, j \in Slots' :
           (InTable(i) /\ ~IsHole(j) /\ Dist(cap, HomeOf(i), j) <= table[i].psl
              => table[j].hash # 0 /\ table[j].psl >= Dist(cap, HomeOf(i), j))'
    BY <2>5
  <2>. QED  BY <2>6, <2>7 DEF RobinHood
<1>7. SizeCounts'
  <2>1. Taken' = Taken \cup {index} /\ index \notin Taken
    <3>1. table[index].hash = 0 /\ Slots' = Slots
      BY <1>0 DEF Slots
    <3>2. index \in Slots /\ table'[index].hash # 0 /\ \A i \in Slots : i # index => table'[i] = table[i]
      BY <1>0, <1>2, CarryFacts
    <3>. HIDE DEF ProbeEmpty
    <3>. QED  BY <3>1, <3>2, OneTaken DEF Taken
  <2>. QED  BY <1>1, <2>1, TakenFinite, FS_AddElement DEF IndInv, SizeCounts
<1>8. KeysUnique' /\ RoomToSpare' /\ Vacating' /\ NeverDead' /\ ProbeEnds'
  BY <1>0 DEF IndInv, KeysUnique, RoomToSpare, Vacating, NeverDead, ProbeEnds, Carrying, Slots, Keyed
<1>9. Control'
  BY <1>0, <1>3 DEF IndInv, Control, Keyed
<1>10. Growing'
  BY <1>0, <1>1 DEF IndInv, TypeOK, Growing, AtLimit, Carrying, Keyed
<1>11. ~CarriesNew =>
         /\ Refers(entry)
         /\ \A i \in Slots : table[i].hash # 0 /\ ~Pending(i) => table[i].di # entry.di
         /\ \A i \in Left : old[i].di # entry.di
  BY <1>0, CarryFacts DEF IndInv, EntriesOwnDentries, InTable, Carrying
<1>12. /\ \A i \in Slots : i # index /\ ~Pending(i)' => ~Pending(i)
       /\ \A i \in Slots : i = index /\ ~Pending(i)' => ~CarriesNew
       /\ \A i \in Slots : i # index /\ ~Pending(i) => ~Pending(i)'
       /\ \A i \in Slots : i = index /\ ~CarriesNew => ~Pending(i)'
  BY <1>0, <1>3 DEF Pending, CarriesNew, Keyed, Carrying
<1>13. EntriesOwnDentries'
  <2>1. ASSUME NEW i \in Slots, table'[i].hash # 0, ~Pending(i)'
        PROVE  /\ Refers(table'[i])
               /\ \A j \in Left : table'[i].di # old[j].di
               /\ \A j \in Slots : j # i /\ table'[j].hash # 0 /\ ~Pending(j)'
                                  => table'[i].di # table'[j].di
    <3>1. CASE i = index
      BY <1>2, <1>11, <1>12, <2>1, <3>1
    <3>2. CASE i # index
      BY <1>0, <1>2, <1>11, <1>12, <2>1, <3>2, CarryFacts DEF IndInv, EntriesOwnDentries, InTable
    <3>. QED  BY <3>1, <3>2
  <2>2. Left' = Left /\ Slots' = Slots /\ old' = old /\ data' = data /\ pc' \in {"place", "rehash"}
    BY <1>0 DEF Left, Slots
  <2>3. \A i \in Left : Refers(old[i])
    BY DEF IndInv, EntriesOwnDentries
  <2>4. \A i, j \in Left : i # j => old[i].di # old[j].di
    BY DEF IndInv, EntriesOwnDentries
  <2>5. (\A i \in Slots : table[i].hash # 0 /\ ~Pending(i) => Refers(table[i]))'
    BY <2>1, <2>2 DEF Refers
  <2>6. (\A i \in Left : Refers(old[i]))'
    BY <2>2, <2>3 DEF Refers
  <2>7. (\A i \in Slots : InTable(i) /\ ~Pending(i) =>
           /\ \A j \in Slots : i # j /\ InTable(j) /\ ~Pending(j) => table[i].di # table[j].di
           /\ \A j \in Left : table[i].di # old[j].di)'
    BY <2>1, <2>2 DEF InTable
  <2>. QED  BY <2>2, <2>4, <2>5, <2>6, <2>7 DEF EntriesOwnDentries, Carrying
<1>14. DentriesReached'
  <2>1. SUFFICES ASSUME NEW a \in Slots, data[a] # NULL
                 PROVE  \/ \E i \in Slots : table'[i].hash # 0 /\ ~Pending(i)' /\ table'[i].di = a
                        \/ \E i \in Left : old[i].di = a
    BY <1>0 DEF DentriesReached, InTable, IsHole, Carrying, Left, Slots
  <2>2. CASE \E i \in Slots : InTable(i) /\ ~Pending(i) /\ table[i].di = a
    BY <1>0, <1>2, <1>12, <2>2 DEF InTable
  <2>3. CASE Carrying /\ ~CarriesNew /\ entry.di = a
    BY <1>2, <1>12, <2>3, CarryFacts
  <2>. QED  BY <1>0, <2>1, <2>2, <2>3 DEF IndInv, DentriesReached
<1>15. PuttingKey'
  <2>1. ASSUME Keyed, NEW a \in Slots, data[a] # NULL
        PROVE  data[a].key # req.key
    <3>1. Left = {}
      BY <2>1 DEF Left, Keyed
    <3>2. CASE \E i \in Slots : InTable(i) /\ ~Pending(i) /\ table[i].di = a
      BY <1>1, <2>1, <3>2 DEF HoldsKey, InTable
    <3>3. CASE Carrying /\ ~CarriesNew /\ entry.di = a
      BY <2>1, <3>3 DEF IndInv, PuttingKey, CarriesNew
    <3>. QED  BY <1>0, <2>1, <3>1, <3>2, <3>3 DEF IndInv, DentriesReached
  <2>2. ASSUME Keyed
        PROVE  table'[re'].hash = HashOf[req.key] /\ table'[re'].klen = KLen[req.key]
    BY <1>0, <1>2, <1>3, <2>2 DEF IndInv, PuttingKey, Carrying, CarriesNew
  <2>. QED  BY <1>0, <2>1, <2>2 DEF PuttingKey, Carrying, CarriesNew, Keyed, Slots
<1>. QED  BY <1>4, <1>5, <1>6, <1>7, <1>8, <1>9, <1>10, <1>13, <1>14, <1>15 DEF IndInv

\* The answer built from a dentry is an answer.
LEMMA StoredAnswer ==
  ASSUME TypeOK, NEW a \in Slots, data[a] # NULL
  PROVE  Stored(a) \in Answer
BY DEF TypeOK, Stored, Answer, Dentry

\* Keeping or overwriting what a key holds preserves the invariant.
LEMMA UpdateIndInv ==
  ASSUME IndInv, NEW a \in Slots, data[a] # NULL, Update(a),
         pc = "lookup" \/ (pc = "probe" /\ CarriesNew), ocap = 0
  PROVE  IndInv'
<1>1. Left = {}
  BY DEF Left
<1>2. grows => cap - size > cap \div 3
  BY DEF IndInv, RoomToSpare, Keyed
<1>3. CASE req.mode = "keep" /\ Return(Stored(a)) /\ UNCHANGED <<store, flags>>
  BY <1>1, <1>2, <1>3, ReturnIndInv, StoredAnswer DEF IndInv, TypeOK, store
<1>4. CASE /\ data' = [data EXCEPT ![a].val = req.arg]
           /\ Return([ok |-> TRUE, val |-> req.arg])
           /\ UNCHANGED <<cap, table, size, dsize, flags>>
  <2>1. req.arg \in Val /\ data \in [Slots -> Dentry \cup {NULL}] /\ data[a] \in Dentry
    BY DEF IndInv, TypeOK, Request
  <2>2. [ok |-> TRUE, val |-> req.arg] \in Answer
    BY <2>1 DEF Answer
  <2>3. /\ data' \in [Slots -> Dentry \cup {NULL}]
        /\ data'[a] \in Dentry /\ data'[a].key = data[a].key
        /\ \A b \in Slots : b # a => data'[b] = data[b]
    BY <1>4, <2>1 DEF Dentry
  <2>4. data'[a] # NULL
    BY <2>3, DataAssumption DEF Dentry
  <2>. QED  BY <1>1, <1>2, <1>4, <2>2, <2>3, <2>4, ReturnIndInv
<1>. QED  BY <1>3, <1>4 DEF Update

\* The loop recognises no key once it has swapped, so long as no key clashes.
LEMMA FoundBeforeSwap ==
  ASSUME IndInv, NoClash, Probing, SlotIsKey
  PROVE  CarriesNew
<1> USE CarryFacts DEF Probing
<1>1. SUFFICES ASSUME re # -1 PROVE FALSE
  BY DEF CarriesNew, Carrying, SlotIsKey
<1>2. index # re /\ ~CarriesNew /\ ~Pending(index) /\ Carrying /\ Keyed
  BY <1>1 DEF IndInv, ProbeEnds, Carrying, CarriesNew, Pending, SlotIsKey
<1>3. Refers(entry) /\ Refers(table[index]) /\ table[index].di # entry.di
  BY <1>2 DEF IndInv, EntriesOwnDentries, InTable
<1> DEFINE c == data[entry.di].key
           e == data[table[index].di].key
<1>4. c \in Keys /\ e \in Keys /\ req.key \in Keys /\ c # e
  BY <1>3 DEF IndInv, TypeOK, KeysUnique, Refers, Dentry, Request, NoCall
<1>5. HashOf[c] = HashOf[e] /\ KLen[c] = KLen[e] /\ <<e, req.key>> \in Prefix
  BY <1>3 DEF SlotIsKey, Refers
<1>6. e = req.key
  BY <1>4, <1>5 DEF NoClash
<1>7. HoldsKey(index)
  BY <1>2, <1>6 DEF HoldsKey
<1>. QED  BY <1>1, <1>2, <1>7 DEF IndInv, PuttingKey

\* Coming upon the key preserves the invariant.
LEMMA ProbeFoundIndInv ==
  ASSUME IndInv, NoClash, ProbeFound
  PROVE  IndInv'
<1> DEFINE a == table[index].di
<1>1. CarriesNew /\ re = -1 /\ ocap = 0 /\ pc = "probe" /\ index \in Slots /\ table[index].hash # 0
  BY FoundBeforeSwap, CarryFacts DEF ProbeFound, CarriesNew, Probing, Keyed
<1>2. ~Pending(index)
  BY <1>1 DEF Pending, Slots, IndInv, TypeOK
<1>3. a \in Slots /\ data[a] # NULL
  BY <1>1, <1>2 DEF IndInv, EntriesOwnDentries, Refers
<1>4. CASE Update(a)
  BY <1>1, <1>3, <1>4, UpdateIndInv
<1>5. CASE Return(Nothing) /\ UNCHANGED <<store, flags>>
  <2>1. Left = {} /\ (grows => cap - size > cap \div 3)
    BY <1>1 DEF Left, IndInv, RoomToSpare, Keyed
  <2>2. Nothing \in Answer
    BY DEF Nothing, Answer, Val
  <2>. QED  BY <1>1, <1>5, <2>1, <2>2, ReturnIndInv DEF IndInv, TypeOK, store
<1>. QED  BY <1>1, <1>4, <1>5 DEF ProbeFound

-----------------------------------------------------------------------------
(***************************************************************************)
(* new_dentry and put_dentry                                               *)
(***************************************************************************)
\* dsize stays a number of its width.
LEMMA DsizeStep ==
  ASSUME NEW n \in Int, NEW m \in Nat \ {0}
  PROVE  n % m \in 0 .. m - 1
BY Z3

\* Giving the new entry its dentry preserves the invariant.
LEMMA PlaceIndInv ==
  ASSUME IndInv, Place
  PROVE  IndInv'
<1>1. PICK a \in Slots :
        /\ FirstFree(a)
        /\ data' = [data EXCEPT ![a] = [key |-> req.key, val |-> req.arg]]
        /\ table' = [table EXCEPT ![re].di = a]
  BY DEF Place
<1>2. /\ pc = "place" /\ ocap = 0 /\ Keyed /\ re \in Slots /\ ~placed
      /\ req \in Request /\ req.key \in Keys /\ req.arg \in Val
  BY DEF Place, IndInv, TypeOK, Control, Keyed, Slots, Request
<1>3. UNCHANGED <<cap, size, grows, norepl>> /\ dsize' = (dsize + 1) % DsizeMod /\ ocap' = 0
  BY <1>2 DEF Place, Return, flags, moving
<1>4. \/ (pc' = "grow" /\ placed' /\ AtLimit(size))
      \/ (pc' = "idle" /\ ~placed' /\ ~AtLimit(size))
  BY DEF Place, Return
<1>5. data[a] = NULL
  BY <1>1 DEF FirstFree
<1>6. /\ data' \in [Slots -> Dentry \cup {NULL}]
      /\ data'[a] = [key |-> req.key, val |-> req.arg] /\ data'[a] # NULL
      /\ \A b \in Slots : b # a => data'[b] = data[b]
  BY <1>1, <1>2, DataAssumption DEF IndInv, TypeOK, Dentry
<1>7. /\ table' \in [Slots -> Entry] /\ table'[re].di = a
      /\ \A i \in Slots : /\ table'[i].hash = table[i].hash
                          /\ table'[i].klen = table[i].klen
                          /\ table'[i].psl = table[i].psl
                          /\ i # re => table'[i] = table[i]
  <2>1. table \in [Slots -> Entry] /\ table[re] \in Entry /\ a \in Nat
    BY <1>2 DEF IndInv, TypeOK, Slots
  <2>2. table' = [table EXCEPT ![re] = [table[re] EXCEPT !.di = a]]
    BY <1>1
  <2> DEFINE e == [table[re] EXCEPT !.di = a]
  <2>3. /\ e \in Entry /\ e.di = a
        /\ e.hash = table[re].hash /\ e.klen = table[re].klen /\ e.psl = table[re].psl
    BY <2>1 DEF Entry
  <2> HIDE DEF e
  <2>4. table' = [table EXCEPT ![re] = e]
    BY <2>2 DEF e
  <2>. QED  BY <1>2, <2>1, <2>3, <2>4
<1>8. TypeOK'
  <2>1. dsize' \in 0 .. DsizeMod - 1
    BY <1>3, DsizeStep, SizeAssumption DEF IndInv, TypeOK
  <2>2. [ok |-> TRUE, val |-> req.arg] \in Answer
    BY <1>2 DEF Answer
  <2>3. CASE AtLimit(size)
    <3>1. /\ pc' = "grow" /\ placed' = TRUE /\ res' = [ok |-> TRUE, val |-> req.arg] /\ Slots' = Slots
          /\ UNCHANGED <<req, index, np, entry, re, ocap, old, oi, victim, hole>>
      BY <1>3, <2>3 DEF Place, find, carry, moving, removal, Slots
    <3>. QED  BY <1>2, <1>3, <1>6, <1>7, <2>1, <2>2, <3>1 DEF IndInv, TypeOK
  <2>4. CASE ~AtLimit(size)
    <3>1. (old \in [0 .. ocap - 1 -> Entry] /\ oi \in 0 .. ocap)'
      BY <2>4, EmptyEntry DEF Place, Return
    <3>2. Return([ok |-> TRUE, val |-> req.arg])
      BY <2>4 DEF Place
    <3>3. index' \in Slots' /\ hole' \in Slots' /\ re' \in -1 .. cap' - 1 /\ Slots' = Slots
      BY <1>3, <3>2 DEF IndInv, TypeOK, Slots, Return
    <3>4. pc' = "idle" /\ req' = NoCall /\ res' \in Answer /\ placed' = FALSE /\ np' = 0
      BY <2>2, <3>2 DEF Return
    <3>5. entry' \in Entry /\ victim' \in Entry /\ ocap' = 0
      BY <3>2, EmptyEntry DEF Return
    <3>6. /\ cap' \in Nat /\ 4 <= cap' /\ cap' <= MaxCap /\ size' \in 0 .. cap'
          /\ grows' \in BOOLEAN /\ norepl' \in BOOLEAN
          /\ ocap' \in Nat /\ np' \in Nat
      BY <1>3, <3>4 DEF IndInv, TypeOK
    <3>7. table' \in [Slots' -> Entry] /\ data' \in [Slots' -> Dentry \cup {NULL}]
      BY <1>6, <1>7, <3>3
    <3>. QED  BY <2>1, <3>1, <3>3, <3>4, <3>5, <3>6, <3>7 DEF TypeOK
  <2>. QED  BY <2>3, <2>4
<1>9. PslAccurate' /\ RobinHood' /\ PslFits'
  BY <1>2, <1>3, <1>4, <1>7
     DEF IndInv, PslAccurate, RobinHood, PslFits, Carrying, InTable, IsHole, HomeOf, Slots
<1>10. SizeCounts'
  BY <1>3, <1>7 DEF IndInv, SizeCounts, Taken, Slots
<1>11. \A i \in Slots : i # re /\ table[i].hash # 0 => Refers(table[i]) /\ table[i].di # a
  BY <1>5 DEF IndInv, EntriesOwnDentries, Refers, Pending
<1>12. EntriesOwnDentries'
  <2>1. ASSUME NEW i \in Slots, table'[i].hash # 0
        PROVE  Refers(table[i])'
    <3>1. CASE i = re
      BY <1>2, <1>3, <1>6, <1>7, <3>1 DEF Refers, IndInv, PuttingKey, Slots
    <3>2. CASE i # re
      BY <1>3, <1>6, <1>7, <1>11, <2>1, <3>2 DEF Refers, Slots
    <3>. QED  BY <3>1, <3>2
  <2>2. ASSUME NEW i \in Slots, NEW j \in Slots, i # j, table'[i].hash # 0, table'[j].hash # 0
        PROVE  table'[i].di # table'[j].di
    <3>1. CASE i = re \/ j = re
      BY <1>7, <1>11, <2>2, <3>1
    <3>2. CASE i # re /\ j # re
      BY <1>2, <1>7, <2>2, <3>2 DEF IndInv, EntriesOwnDentries, InTable, IsHole, Pending
    <3>. QED  BY <3>1, <3>2
  <2>. QED  BY <1>3, <1>4, <2>1, <2>2 DEF EntriesOwnDentries, Carrying, Left, InTable, Slots
<1>13. DentriesReached'
  <2>1. SUFFICES ASSUME NEW b \in Slots, data'[b] # NULL
                 PROVE  \E i \in Slots : table'[i].hash # 0 /\ table'[i].di = b
    BY <1>3, <1>4 DEF DentriesReached, InTable, IsHole, Pending, Slots
  <2>2. CASE b = a
    <3>1. table'[re].hash # 0
      BY <1>2, <1>7, KeysAssumption DEF IndInv, PuttingKey, Slots
    <3>. QED  BY <1>2, <1>7, <2>2, <3>1
  <2>3. CASE b # a
    <3>1. PICK i \in Slots : InTable(i) /\ ~Pending(i) /\ table[i].di = b
      BY <1>2, <1>6, <2>1, <2>3 DEF IndInv, DentriesReached, Carrying, Left
    <3>. QED  BY <1>2, <1>7, <3>1 DEF InTable, Pending
  <2>. QED  BY <2>2, <2>3
<1>14. KeysUnique'
  BY <1>2, <1>3, <1>6 DEF IndInv, KeysUnique, PuttingKey, Slots
<1>15. Control' /\ Vacating' /\ PuttingKey' /\ ProbeEnds' /\ NeverDead'
  BY <1>3, <1>4 DEF Control, Vacating, PuttingKey, ProbeEnds, NeverDead, Carrying, CarriesNew
<1>16. Growing'
  BY <1>2, <1>3, <1>4 DEF IndInv, Growing, Carrying
<1>17. RoomToSpare'
  BY <1>3, <1>4 DEF IndInv, TypeOK, RoomToSpare, AtLimit
<1>. QED  BY <1>8, <1>9, <1>10, <1>12, <1>13, <1>14, <1>15, <1>16, <1>17 DEF IndInv

-----------------------------------------------------------------------------
(***************************************************************************)
(* ohash_rehash                                                            *)
(***************************************************************************)
\* Starting with an empty table of twice the capacity preserves the invariant.
LEMMA GrowIndInv ==
  ASSUME IndInv, Grow
  PROVE  IndInv'
<1>1. /\ pc = "grow" /\ ocap = 0 /\ placed /\ cap' = 2 * cap /\ size' = 0
      /\ ocap' = cap /\ old' = table /\ oi' = 0 /\ pc' = "rehash"
      /\ UNCHANGED <<dsize, grows, norepl, req, res, placed, index, np, entry, re, victim, hole>>
  BY DEF Grow, IndInv, Control, flags, find, carry, removal
<1>2. cap \in Nat /\ 4 <= cap /\ 2 * cap <= MaxCap /\ size \in 0 .. cap
  BY <1>1 DEF IndInv, TypeOK, Growing
<1>3. /\ Slots' = 0 .. 2 * cap - 1 /\ Slots \subseteq Slots'
      /\ table' = [i \in Slots' |-> Empty]
      /\ data' = [a \in Slots' |-> IF a < cap THEN data[a] ELSE NULL]
  BY <1>1, <1>2 DEF Grow, Slots
<1>4. /\ \A a \in Slots' : data'[a] # NULL => a \in Slots
      /\ \A a \in Slots : data'[a] = data[a]
  BY <1>2, <1>3 DEF Slots
<1>5. TypeOK'
  <2>1. table' \in [Slots' -> Entry] /\ data' \in [Slots' -> Dentry \cup {NULL}]
    BY <1>3, <1>4, EmptyEntry DEF IndInv, TypeOK
  <2>2. old' \in [0 .. ocap' - 1 -> Entry] /\ oi' \in 0 .. ocap'
    BY <1>1, <1>2 DEF IndInv, TypeOK, Slots
  <2>3. index' \in Slots' /\ hole' \in Slots' /\ re' \in -1 .. cap' - 1
    BY <1>1, <1>2, <1>3 DEF IndInv, TypeOK, Slots
  <2>. QED  BY <1>1, <1>2, <2>1, <2>2, <2>3 DEF IndInv, TypeOK
<1>6. PslAccurate' /\ RobinHood' /\ PslFits'
  BY <1>1, <1>2, <1>3 DEF PslAccurate, RobinHood, PslFits, Carrying, InTable, Empty
<1>7. SizeCounts'
  <2>1. Taken' = {}
    BY <1>3 DEF Taken, Empty
  <2>. QED  BY <1>1, <2>1, FS_EmptySet DEF SizeCounts
<1>8. Left' = Taken
  BY <1>1, <1>2 DEF Left, Taken, Slots
<1>9. EntriesOwnDentries'
  <2>1. \A i \in Taken : Refers(table[i]) /\ \A j \in Taken : i # j => table[i].di # table[j].di
    BY <1>1 DEF IndInv, EntriesOwnDentries, InTable, IsHole, Pending, Taken
  <2>2. (\A i \in Left : Refers(old[i]))'
    BY <1>1, <1>3, <1>4, <1>8, <2>1 DEF Refers
  <2>3. \A i \in Slots' : table'[i].hash = 0
    BY <1>3 DEF Empty
  <2>. QED  BY <1>1, <1>8, <2>1, <2>2, <2>3 DEF EntriesOwnDentries, Carrying, InTable
<1>10. DentriesReached'
  <2>1. SUFFICES ASSUME NEW a \in Slots', data'[a] # NULL
                 PROVE  \E i \in Taken : table[i].di = a
    BY <1>1, <1>8 DEF DentriesReached
  <2>. QED  BY <1>1, <1>4, <2>1 DEF IndInv, DentriesReached, Carrying, Left, InTable, Taken
<1>11. KeysUnique'
  BY <1>4 DEF IndInv, KeysUnique
<1>12. Control' /\ Vacating' /\ PuttingKey' /\ ProbeEnds' /\ NeverDead' /\ Growing' /\ RoomToSpare'
  BY <1>1, <1>2 DEF IndInv, Control, Vacating, PuttingKey, ProbeEnds, NeverDead, Growing, RoomToSpare,
                    Carrying, CarriesNew, Keyed
<1>. QED  BY <1>5, <1>6, <1>7, <1>9, <1>10, <1>11, <1>12 DEF IndInv

\* Going past an empty slot of the old table preserves the invariant.
LEMMA RehashSkipIndInv ==
  ASSUME IndInv, RehashSkip
  PROVE  IndInv'
<1> USE DEF RehashSkip, store, flags, find, carry, removal
<1>1. TypeOK'
  BY DEF IndInv, TypeOK, Slots
<1>2. Left' = Left
  BY DEF IndInv, TypeOK, Left
<1>3. PslAccurate' /\ RobinHood' /\ PslFits' /\ SizeCounts' /\ KeysUnique'
  BY DEF IndInv, PslAccurate, RobinHood, PslFits, SizeCounts, KeysUnique, Taken, Carrying, InTable,
         IsHole, HomeOf, Slots
<1>4. EntriesOwnDentries' /\ DentriesReached'
  <2>1. EntriesOwnDentries'
    BY <1>2 DEF IndInv, EntriesOwnDentries, Refers, Carrying, InTable, IsHole, Pending, Slots
  <2>2. DentriesReached'
    BY <1>2 DEF IndInv, DentriesReached, Refers, Carrying, InTable, IsHole, Pending, Slots
  <2>. QED  BY <2>1, <2>2
<1>5. Control' /\ Vacating' /\ PuttingKey' /\ ProbeEnds' /\ NeverDead' /\ RoomToSpare'
  BY DEF IndInv, Control, Vacating, PuttingKey, ProbeEnds, NeverDead, RoomToSpare,
         Carrying, CarriesNew, Keyed
<1>6. Growing'
  BY DEF IndInv, TypeOK, Growing, Carrying
<1>. QED  BY <1>1, <1>3, <1>4, <1>5, <1>6 DEF IndInv

\* Taking an entry out of the old table preserves the invariant.
LEMMA RehashTakeIndInv ==
  ASSUME IndInv, RehashTake
  PROVE  IndInv'
<1>1. /\ pc = "rehash" /\ pc' = "probe" /\ oi < ocap /\ old[oi].hash # 0 /\ oi' = oi + 1 /\ re' = -1
      /\ UNCHANGED <<cap, table, size, data, dsize, grows, norepl, req, res, placed, np, ocap, old, victim, hole>>
  BY DEF RehashTake, StartProbe, store, flags, removal
<1>2. cap \in Nat /\ cap >= 4 /\ oi \in Nat /\ ocap \in Nat /\ cap = 2 * ocap /\ old[oi] \in Entry
  BY <1>1 DEF IndInv, TypeOK
<1>3. /\ entry' \in Entry /\ entry'.psl = 0 /\ entry'.hash = old[oi].hash
      /\ entry'.klen = old[oi].klen /\ entry'.di = old[oi].di
  BY <1>2 DEF RehashTake, StartProbe, Entry
<1>4. index' = Home(cap, entry'.hash) /\ index' \in Slots
  BY <1>2, <1>3, HomeInTable DEF RehashTake, StartProbe, Entry, Slots
<1>5. TypeOK'
  BY <1>1, <1>2, <1>3, <1>4 DEF IndInv, TypeOK, Slots
<1>6. oi \in Left /\ Left' = Left \ {oi}
  BY <1>1, <1>2 DEF Left
<1>7. PslAccurate' /\ RobinHood' /\ PslFits'
  <2>1. Dist(cap, index', index') = 0 /\ \A j \in Slots : Dist(cap, index', j) \in Nat
    <3>1. cap \in Nat \ {0} /\ index' \in 0 .. cap - 1
      BY <1>2, <1>4 DEF Slots
    <3>2. Dist(cap, index', index') = 0
      BY <3>1, DistFacts
    <3>3. \A j \in 0 .. cap - 1 : Dist(cap, index', j) \in 0 .. cap - 1
      BY <3>1, DistFacts
    <3>. QED  BY <1>2, <3>2, <3>3 DEF Slots
  <2>2. entry'.hash # 0 /\ Slots' = Slots
    BY <1>1, <1>3 DEF Slots
  <2>3. PslAccurate' /\ PslFits'
    BY <1>1, <1>2, <1>3, <1>4, <2>1, <2>2
       DEF IndInv, PslAccurate, PslFits, Carrying, InTable, IsHole, HomeOf
  <2>4. \A j \in Slots : ~(Dist(cap, Home(cap, entry'.hash), j) < entry'.psl)
    BY <1>3, <1>4, <2>1
  <2>5. RobinHood'
    BY <1>1, <2>2, <2>4 DEF IndInv, RobinHood, Carrying, InTable, IsHole, HomeOf
  <2>. QED  BY <2>3, <2>5
<1>8. SizeCounts' /\ KeysUnique'
  BY <1>1 DEF IndInv, SizeCounts, KeysUnique, Taken, Slots
<1>9. EntriesOwnDentries'
  <2>1. /\ \A i \in Slots : table[i].hash # 0 => Refers(table[i])
        /\ \A i, j \in Slots : i # j /\ table[i].hash # 0 /\ table[j].hash # 0 => table[i].di # table[j].di
        /\ \A i \in Left : /\ Refers(old[i])
                           /\ \A j \in Slots : table[j].hash # 0 => table[j].di # old[i].di
                           /\ \A j \in Left : i # j => old[i].di # old[j].di
    BY <1>1 DEF IndInv, EntriesOwnDentries, InTable, IsHole, Pending
  <2>2. \A i \in Slots : ~Pending(i)'
    BY <1>1, <1>2 DEF Pending, Keyed
  <2>3. Refers(entry')
    BY <1>3, <1>6, <2>1 DEF Refers
  <2>4. Refers(entry)'
    BY <1>1, <2>3 DEF Refers, Slots
  <2>5. (\A i \in Slots : table[i].hash # 0 => Refers(table[i]))' /\ (\A i \in Left : Refers(old[i]))'
    BY <1>1, <1>6, <2>1 DEF Refers, Slots
  <2>6. Slots' = Slots
    BY <1>1 DEF Slots
  <2>. QED  BY <1>1, <1>3, <1>6, <2>1, <2>2, <2>4, <2>5, <2>6 DEF EntriesOwnDentries, InTable, IsHole
<1>10. DentriesReached'
  <2>1. SUFFICES ASSUME NEW a \in Slots, data[a] # NULL
                 PROVE  \/ \E i \in Slots : table[i].hash # 0 /\ table[i].di = a
                        \/ entry'.di = a
                        \/ \E i \in Left' : old[i].di = a
    BY <1>1, <1>2 DEF DentriesReached, Carrying, CarriesNew, InTable, IsHole, Pending, Keyed, Slots
  <2>. QED  BY <1>1, <1>3, <1>6, <2>1 DEF IndInv, DentriesReached, Carrying, InTable
<1>11. Control' /\ Vacating' /\ PuttingKey' /\ NeverDead' /\ RoomToSpare'
  BY <1>1, <1>2 DEF IndInv, Control, Vacating, PuttingKey, NeverDead, RoomToSpare,
                    Carrying, CarriesNew, Keyed
<1>12. Growing' /\ ProbeEnds'
  <2>1. size <= oi /\ size \in Nat
    BY <1>1, <1>2 DEF IndInv, TypeOK, Growing
  <2>2. size # cap /\ size < oi + 1 /\ size <= oi + 1
    BY <1>1, <1>2, <2>1
  <2>. QED  BY <1>1, <1>2, <2>2 DEF Growing, ProbeEnds, Carrying, Keyed
<1>. QED  BY <1>5, <1>7, <1>8, <1>9, <1>10, <1>11, <1>12 DEF IndInv

\* Returning from a table that has grown preserves the invariant.
LEMMA RehashDoneIndInv ==
  ASSUME IndInv, RehashDone
  PROVE  IndInv'
<1>1. pc = "rehash" /\ oi = ocap /\ ocap # 0 /\ placed /\ Return(res) /\ UNCHANGED <<store, flags>>
  BY DEF RehashDone, AfterGrow, IndInv, Control
<1>2. Left = {}
  BY <1>1 DEF Left, IndInv, TypeOK
<1>3. size <= ocap /\ ocap \in Nat /\ cap = 2 * ocap /\ size \in Nat
  BY <1>1 DEF IndInv, Growing, TypeOK
<1>4. cap - size > cap \div 3
  BY <1>1, <1>3
<1>. QED  BY <1>1, <1>2, <1>4, ReturnIndInv DEF IndInv, TypeOK, store

-----------------------------------------------------------------------------
(***************************************************************************)
(* Calls and lookups                                                       *)
(***************************************************************************)
\* A lookup that has come to the key has come to its dentry.
LEMMA HitFacts ==
  ASSUME IndInv, Hit
  PROVE  /\ ocap = 0 /\ Left = {} /\ Keyed /\ index \in Slots
         /\ table[index].hash # 0 /\ table[index].di \in Slots
         /\ data[table[index].di] # NULL /\ data[table[index].di].key = req.key
         /\ Stored(table[index].di) \in Answer
<1>1. /\ pc = "lookup" /\ ocap = 0 /\ Left = {} /\ index \in Slots /\ table[index].hash # 0
      /\ data[table[index].di].key = req.key
  BY DEF Hit, RunEnds, SameKey, IndInv, TypeOK, Control, Left
<1>2. Refers(table[index])
  BY <1>1 DEF IndInv, EntriesOwnDentries, Pending
<1>. QED  BY <1>1, <1>2, StoredAnswer DEF IndInv, Refers, Keyed

\* A call that finds nothing, or only looks, preserves the invariant.
LEMMA AnswerIndInv ==
  ASSUME IndInv, GetHit \/ FindMiss \/ FullRefused
  PROVE  IndInv'
<1>1. pc = "lookup" /\ Left = {} /\ (grows => cap - size > cap \div 3)
  BY DEF GetHit, FindMiss, FullRefused, Hit, Miss, IndInv, Control, Left, RoomToSpare, Keyed
<1>2. PICK answer \in Answer : Return(answer) /\ UNCHANGED <<store, flags>>
  <2>1. Nothing \in Answer
    BY DEF Nothing, Answer, Val
  <2>2. CASE GetHit
    BY <2>2, HitFacts DEF GetHit
  <2>. QED  BY <2>1, <2>2 DEF FindMiss, FullRefused
<1>. QED  BY <1>1, <1>2, ReturnIndInv DEF IndInv, TypeOK, store

\* Calling put preserves the invariant.
LEMMA CallPutIndInv ==
  ASSUME IndInv, NEW r \in Calls, CallPut(r)
  PROVE  IndInv'
<1>1. /\ pc = "idle" /\ ocap = 0 /\ req' = r /\ r \in Request /\ r.op = "put" /\ r.key \in Keys
      /\ res' = Nothing /\ Nothing \in Answer
      /\ UNCHANGED <<store, flags, placed, moving, removal>>
  BY DEF CallPut, Calls, Request, IndInv, Control, Nothing, Answer, Val
<1>2. CASE size = cap
  <2>1. cap \in Nat \ {0} /\ HashOf[r.key] \in Nat
    BY <1>1, KeysAssumption DEF IndInv, TypeOK
  <2>2. index' \in Slots /\ np' = 0 /\ pc' = "lookup" /\ UNCHANGED carry
    BY <1>2, <2>1, HomeInTable DEF CallPut, StartLookup, Slots
  <2>. QED  BY <1>1, <1>2, <2>2, LookupIndInv
<1>3. CASE size # cap
  BY <1>1, <1>3, ProbeStartIndInv DEF CallPut
<1>. QED  BY <1>2, <1>3

\* Calling get or remove preserves the invariant.
LEMMA CallFindIndInv ==
  ASSUME IndInv, NEW r \in Calls, CallFind(r)
  PROVE  IndInv'
<1>1. /\ pc = "idle" /\ req' = r /\ r \in Request /\ r.op # "put" /\ r.key \in Keys
      /\ res' = Nothing /\ Nothing \in Answer
      /\ UNCHANGED <<store, flags, placed, carry, moving, removal>>
  BY DEF CallFind, Calls, Request, Nothing, Answer, Val
<1>2. cap \in Nat \ {0} /\ HashOf[r.key] \in Nat
  BY <1>1, KeysAssumption DEF IndInv, TypeOK
<1>3. index' \in Slots /\ np' = 0 /\ pc' = "lookup"
  BY <1>2, HomeInTable DEF CallFind, StartLookup, Slots
<1>. QED  BY <1>1, <1>3, LookupIndInv

\* Looking into the next slot preserves the invariant.
LEMMA LookupNextIndInv ==
  ASSUME IndInv, LookupNext
  PROVE  IndInv'
<1>1. /\ pc = "lookup" /\ pc' = pc /\ req' = req /\ res' = res
      /\ UNCHANGED <<store, flags, placed, carry, moving, removal>>
  BY DEF LookupNext
<1>2. index' \in Slots /\ np' \in Nat
  BY AfterFacts DEF LookupNext, IndInv, TypeOK, Slots
<1>3. req' \in Request /\ res' \in Answer /\ (req'.op = "put" => size = cap)
  BY <1>1 DEF IndInv, TypeOK, Control
<1>. QED  BY <1>1, <1>2, <1>3, LookupIndInv

\* A put that finds its key in a full table preserves the invariant.
LEMMA FullHitIndInv ==
  ASSUME IndInv, FullHit \/ FullHitDie
  PROVE  IndInv'
<1>1. Hit /\ req.op = "put" /\ pc = "lookup"
  BY DEF FullHit, FullHitDie, Hit
<1>2. CASE FullHit
  BY <1>1, <1>2, HitFacts, UpdateIndInv DEF FullHit
<1>3. CASE FullHitDie
  <2>1. size = cap /\ ~grows
    BY <1>1, HitFacts DEF IndInv, TypeOK, Control, RoomToSpare
  <2>2. req \in Request /\ res \in Answer
    BY <1>1 DEF IndInv, TypeOK
  <2>. QED  BY <1>1, <1>3, <2>1, <2>2, HitFacts, ProbeStartIndInv DEF FullHitDie, AtLimit
<1>. QED  BY <1>2, <1>3

\* A table that may grow is never full.
LEMMA NeverFullGrow ==
  ASSUME IndInv
  PROVE  ~FullGrow
BY DEF FullGrow, Miss, IndInv, TypeOK, Control, RoomToSpare, Keyed

-----------------------------------------------------------------------------
(***************************************************************************)
(* n_oash_remove                                                           *)
(***************************************************************************)
\* Starting to vacate a slot preserves the invariant.
LEMMA RemoveHitIndInv ==
  ASSUME IndInv, RemoveHit
  PROVE  IndInv'
<1>1. /\ pc = "lookup" /\ ocap = 0 /\ Keyed /\ index \in Slots /\ table[index].hash # 0
      /\ req.op = "remove" /\ pc' = "shift" /\ victim' = table[index] /\ hole' = index
      /\ index' = After(cap, index) /\ Left = {}
      /\ UNCHANGED <<cap, table, size, data, dsize, grows, norepl, req, res, placed, np, entry, re,
                     ocap, old, oi>>
  BY HitFacts DEF RemoveHit, Hit, store, flags, carry, moving
<1>2. TypeOK'
  <2>1. index' \in Slots /\ victim' \in Entry
    BY <1>1, AfterFacts DEF IndInv, TypeOK, Slots
  <2>. QED  BY <1>1, <2>1 DEF IndInv, TypeOK, Slots
<1>3. PslAccurate' /\ RobinHood' /\ PslFits' /\ SizeCounts' /\ KeysUnique'
  BY <1>1 DEF IndInv, PslAccurate, RobinHood, PslFits, SizeCounts, KeysUnique, Taken, Carrying, InTable,
              IsHole, HomeOf, Slots
<1>4. /\ \A i \in Slots : table[i].hash # 0 => Refers(table[i])
      /\ \A i, j \in Slots : i # j /\ table[i].hash # 0 /\ table[j].hash # 0 => table[i].di # table[j].di
  BY <1>1 DEF IndInv, EntriesOwnDentries, InTable, IsHole, Pending
<1>5. EntriesOwnDentries'
  BY <1>1, <1>4 DEF EntriesOwnDentries, Refers, Carrying, InTable, IsHole, Pending, Slots, Left
<1>6. Vacating'
  BY <1>1, <1>4 DEF Vacating, Refers, InTable, IsHole, Slots
<1>7. DentriesReached'
  <2>1. SUFFICES ASSUME NEW a \in Slots, data[a] # NULL
                 PROVE  \/ \E i \in Slots : table[i].hash # 0 /\ i # index /\ table[i].di = a
                        \/ table[index].di = a
    BY <1>1 DEF DentriesReached, InTable, IsHole, Pending, Slots
  <2>. QED  BY <1>1, <2>1 DEF IndInv, DentriesReached, Carrying, InTable
<1>8. Control' /\ PuttingKey' /\ ProbeEnds' /\ Growing' /\ NeverDead' /\ RoomToSpare'
  BY <1>1 DEF IndInv, Control, PuttingKey, ProbeEnds, Growing, NeverDead, RoomToSpare,
              Carrying, CarriesNew, Keyed
<1>. QED  BY <1>2, <1>3, <1>5, <1>6, <1>7, <1>8 DEF IndInv

\* Every slot has its home in the table, at some distance from each slot.
LEMMA HomesInTable ==
  ASSUME TypeOK
  PROVE  \A i, j \in Slots :
           HomeOf(i) \in Slots /\ Dist(cap, HomeOf(i), j) \in Nat /\ table[i].psl \in Nat
<1>1. cap \in Nat \ {0} /\ Slots = 0 .. cap - 1
  BY DEF TypeOK, Slots
<1>2. \A i \in Slots : table[i].hash \in Nat /\ table[i].psl \in Nat
  BY DEF TypeOK, Entry
<1>3. \A i \in Slots : HomeOf(i) \in Slots
  BY <1>1, <1>2, HomeInTable DEF HomeOf
<1>4. ASSUME NEW i \in Slots, NEW j \in Slots PROVE Dist(cap, HomeOf(i), j) \in Nat
  <2>1. Dist(cap, HomeOf(i), j) \in 0 .. cap - 1
    BY <1>1, <1>3, DistFacts
  <2>. QED  BY <1>1, <2>1
<1>. QED  BY <1>2, <1>3, <1>4

\* What an entry that lies beyond the hole knows of the slot after the hole:
\* it is taken, by an entry that can move into the hole.
LEMMA BeyondHole ==
  ASSUME IndInv, pc = "shift", NEW i \in Slots, i # hole, table[i].hash # 0,
         Dist(cap, HomeOf(i), hole) <= table[i].psl
  PROVE  /\ table[index].hash # 0
         /\ table[index].psl >= Dist(cap, HomeOf(i), hole) + 1
<1>1. /\ cap \in Nat /\ cap >= 4 /\ hole \in Slots /\ index = After(cap, hole) /\ index # hole
      /\ index \in Slots /\ table[i] \in Entry
  BY AfterFacts DEF IndInv, TypeOK, Vacating, Slots
<1>2. HomeOf(i) \in Slots
  BY HomesInTable DEF IndInv
<1>3. InTable(i) /\ table[i].psl = Dist(cap, HomeOf(i), i) /\ table[i].psl < cap
  BY DEF IndInv, PslAccurate, PslFits, InTable, IsHole
<1>4. Dist(cap, HomeOf(i), hole) # Dist(cap, HomeOf(i), i)
  BY <1>1, <1>2, DistFacts DEF Slots
<1>5. Dist(cap, HomeOf(i), hole) \in Nat /\ Dist(cap, HomeOf(i), i) \in 0 .. cap - 1
  BY <1>1, <1>2, DistFacts DEF Slots
<1>6. Dist(cap, HomeOf(i), hole) + 1 <= table[i].psl /\ Dist(cap, HomeOf(i), hole) # cap - 1
  BY <1>1, <1>3, <1>4, <1>5
<1>7. Dist(cap, HomeOf(i), index) = Dist(cap, HomeOf(i), hole) + 1
  BY <1>1, <1>2, <1>6, AfterFacts DEF Slots
<1>8. ~IsHole(index)
  BY <1>1 DEF IsHole
<1>. QED  BY <1>1, <1>3, <1>6, <1>7, <1>8 DEF IndInv, RobinHood

\* Moving an entry into the hole preserves the invariant.
LEMMA ShiftIndInv ==
  ASSUME IndInv, Shift
  PROVE  IndInv'
<1> DEFINE e == [table[index] EXCEPT !.psl = @ - 1]
           d == table[index].psl
<1>t. table' = [table EXCEPT ![index] = e, ![hole] = e]
  BY DEF Shift
<1>p. d > 0
  <2>1. d \in Nat
    BY DEF IndInv, TypeOK, Entry
  <2>2. d # 0
    BY DEF Shift, RunOver
  <2>. QED  BY <2>1, <2>2
<1>1. /\ pc = "shift" /\ pc' = pc /\ table[index].hash # 0
      /\ hole' = index /\ index' = After(cap, index)
      /\ UNCHANGED <<cap, size, data, dsize, grows, norepl, req, res, placed, np, entry, re,
                     ocap, old, oi, victim>>
  BY DEF Shift, RunOver, flags, carry, moving
<1>2. /\ cap \in Nat /\ cap >= 4 /\ hole \in Slots /\ index \in Slots /\ index = After(cap, hole)
      /\ index # hole /\ index' \in Slots /\ Left = {} /\ ocap = 0 /\ Keyed
      /\ table \in [Slots -> Entry] /\ table[hole].hash # 0
  <2>1. /\ cap \in Nat /\ cap >= 4 /\ hole \in Slots /\ index \in Slots /\ index = After(cap, hole)
        /\ table \in [Slots -> Entry] /\ table[hole].hash # 0 /\ ocap = 0
    BY <1>1 DEF IndInv, TypeOK, Control, Vacating
  <2>2. index # hole /\ index' \in Slots
    BY <1>1, <2>1, AfterFacts DEF Slots
  <2>. QED  BY <2>1, <2>2 DEF Left, Keyed
<1>3. e \in Entry /\ e.hash = table[index].hash /\ e.klen = table[index].klen /\ e.di = table[index].di
      /\ e.psl = d - 1
  <2>1. table[index] \in Entry /\ d \in Nat
    BY <1>2 DEF Entry
  <2>. QED  BY <1>1, <1>p, <2>1 DEF Entry
<1>4. /\ table' \in [Slots -> Entry] /\ table'[index] = e /\ table'[hole] = e
      /\ \A i \in Slots : i # index /\ i # hole => table'[i] = table[i]
  BY <1>t, <1>2, <1>3
<1>0. \A i, j \in Slots : HomeOf(i) \in Slots /\ Dist(cap, HomeOf(i), j) \in Nat /\ table[i].psl \in Nat
  BY HomesInTable DEF IndInv
<1> HIDE DEF e
<1>5. TypeOK'
  BY <1>1, <1>p, <1>2, <1>4 DEF IndInv, TypeOK, Slots
<1>6. \A i \in Slots : ~IsHole(i) <=> i # hole
  BY <1>1 DEF IsHole
<1>7. /\ HomeOf(index) \in Slots
      /\ Dist(cap, HomeOf(index), hole) = d - 1
      /\ table[index].psl < cap /\ d = Dist(cap, HomeOf(index), index)
  <2>1. HomeOf(index) \in Slots
    BY <1>0, <1>2
  <2>2. d = Dist(cap, HomeOf(index), index) /\ d < cap
    BY <1>1, <1>p, <1>2, <1>6 DEF IndInv, PslAccurate, PslFits, InTable
  <2>3. HomeOf(index) # index
    BY <1>1, <1>p, <1>2, <2>1, <2>2, DistFacts DEF Slots
  <2>4. d = Dist(cap, HomeOf(index), hole) + 1 /\ Dist(cap, HomeOf(index), hole) \in Nat
    BY <1>2, <2>1, <2>2, <2>3, AfterFacts, DistFacts DEF Slots
  <2>. QED  BY <2>1, <2>2, <2>4
<1>8. PslAccurate' /\ PslFits'
  <2>1. ASSUME NEW i \in Slots
        PROVE  /\ table'[i].psl < cap
               /\ table'[i].hash # 0 /\ i # index => table'[i].psl = Dist(cap, Home(cap, table'[i].hash), i)
    <3>1. CASE i = index
      BY <1>2, <1>3, <1>4, <1>7, <3>1 DEF Entry
    <3>2. CASE i = hole
      BY <1>2, <1>3, <1>4, <1>7, <3>2 DEF Entry, HomeOf
    <3>3. CASE i # index /\ i # hole
      BY <1>4, <1>6, <3>3 DEF IndInv, PslAccurate, PslFits, InTable, HomeOf
    <3>. QED  BY <3>1, <3>2, <3>3
  <2>. QED  BY <1>1, <1>p, <2>1 DEF PslAccurate, PslFits, Carrying, InTable, IsHole, HomeOf, Slots
<1>9. RobinHood'
  <2>1. ASSUME NEW i \in Slots, NEW j \in Slots, i # index, j # index, table'[i].hash # 0,
               Dist(cap, Home(cap, table'[i].hash), j) <= table'[i].psl
        PROVE  table'[j].hash # 0 /\ table'[j].psl >= Dist(cap, Home(cap, table'[i].hash), j)
    <3>1. CASE i # hole /\ j # hole
      BY <1>4, <1>6, <2>1, <3>1 DEF IndInv, RobinHood, InTable, HomeOf
    <3>2. CASE i # hole /\ j = hole
      <4>1. table'[i] = table[i] /\ Dist(cap, HomeOf(i), hole) <= table[i].psl
        BY <1>4, <2>1, <3>2 DEF HomeOf
      <4>2. d >= Dist(cap, HomeOf(i), hole) + 1
        BY <1>1, <1>p, <2>1, <3>2, <4>1, BeyondHole
      <4>3. d - 1 >= Dist(cap, HomeOf(i), hole)
        BY <1>0, <1>2, <4>2
      <4>. QED  BY <1>1, <1>p, <1>3, <1>4, <3>2, <4>1, <4>3 DEF HomeOf
    <3>3. CASE i = hole /\ j # hole
      <4>1. Dist(cap, HomeOf(index), j) <= d - 1
        BY <1>3, <1>4, <2>1, <3>3 DEF HomeOf
      <4>3. Dist(cap, HomeOf(index), j) <= d
        BY <1>0, <1>2, <4>1
      <4>. QED  BY <1>1, <1>p, <1>2, <1>3, <1>4, <1>6, <2>1, <3>3, <4>3 DEF IndInv, RobinHood, InTable, HomeOf
    <3>4. CASE i = hole /\ j = hole
      BY <1>1, <1>p, <1>2, <1>3, <1>4, <1>7, <3>4 DEF HomeOf, Entry
    <3>. QED  BY <3>1, <3>2, <3>3, <3>4
  <2>. QED  BY <1>1, <1>p, <2>1 DEF RobinHood, Carrying, InTable, IsHole, HomeOf, Slots
<1>10. SizeCounts' /\ KeysUnique'
  <2>1. Taken' = Taken
    BY <1>1, <1>p, <1>2, <1>3, <1>4 DEF Taken, Slots
  <2>. QED  BY <1>1, <1>p, <2>1 DEF IndInv, SizeCounts, KeysUnique, Slots
<1>11. /\ \A i \in Slots : table[i].hash # 0 => Refers(table[i])
       /\ \A i, j \in Slots : i # j /\ i # hole /\ j # hole /\ table[i].hash # 0 /\ table[j].hash # 0
                               => table[i].di # table[j].di
       /\ Refers(victim) /\ \A i \in Slots : i # hole /\ table[i].hash # 0 => table[i].di # victim.di
  BY <1>1, <1>p, <1>6 DEF IndInv, EntriesOwnDentries, Vacating, InTable, Pending
<1>12. EntriesOwnDentries'
  <2>1. Refers(e)
    BY <1>1, <1>p, <1>2, <1>3, <1>11 DEF Refers
  <2>2. \A i \in Slots : table'[i].hash # 0 => Refers(table'[i])
    BY <1>2, <1>4, <1>11, <2>1
  <2>3. \A i \in Slots : (table[i].hash # 0 => Refers(table[i]))'
    BY <1>1, <1>p, <2>2 DEF Refers, Slots
  <2>4. ASSUME NEW i \in Slots, NEW j \in Slots, i # j, i # index, j # index,
               table'[i].hash # 0, table'[j].hash # 0
        PROVE  table'[i].di # table'[j].di
    BY <1>1, <1>p, <1>2, <1>3, <1>4, <1>11, <2>4
  <2>5. Slots' = Slots /\ Left' = {}
    BY <1>1, <1>p, <1>2 DEF Slots, Left
  <2>. QED  BY <1>1, <1>p, <2>3, <2>4, <2>5 DEF EntriesOwnDentries, Carrying, InTable, IsHole
<1>13. DentriesReached'
  <2>1. SUFFICES ASSUME NEW a \in Slots, data[a] # NULL
                 PROVE  \/ \E i \in Slots : table'[i].hash # 0 /\ i # index /\ table'[i].di = a
                        \/ victim.di = a
    BY <1>1 DEF DentriesReached, InTable, IsHole, Pending, Slots
  <2>2. CASE \E i \in Slots : table[i].hash # 0 /\ i # hole /\ table[i].di = a
    BY <1>1, <1>p, <1>2, <1>3, <1>4, <2>2
  <2>. QED  BY <1>1, <1>p, <1>2, <1>6, <2>1, <2>2 DEF IndInv, DentriesReached, Carrying, InTable
<1>14. Vacating'
  <2>1. \A i \in Slots : i # index /\ table'[i].hash # 0 => table'[i].di # victim.di
    BY <1>1, <1>p, <1>2, <1>3, <1>4, <1>11
  <2>2. Refers(victim)'
    BY <1>1, <1>p, <1>11 DEF Refers, Slots
  <2>. QED  BY <1>1, <1>p, <1>3, <1>4, <2>1, <2>2 DEF Vacating, InTable, IsHole, Slots
<1>15. Control' /\ PuttingKey' /\ ProbeEnds' /\ Growing' /\ NeverDead' /\ RoomToSpare'
  BY <1>1 DEF IndInv, Control, PuttingKey, ProbeEnds, Growing, NeverDead, RoomToSpare,
              Carrying, CarriesNew, Keyed
<1>. QED  BY <1>5, <1>8, <1>9, <1>10, <1>12, <1>13, <1>14, <1>15 DEF IndInv

\* Clearing the hole at the end of the run preserves the invariant.
LEMMA ShiftEndIndInv ==
  ASSUME IndInv, ShiftEnd
  PROVE  IndInv'
<1> DEFINE v == victim.di
<1>1. /\ pc = "shift" /\ table' = [table EXCEPT ![hole] = Empty]
      /\ data' = [data EXCEPT ![v] = NULL] /\ dsize' = (dsize - 1) % DsizeMod
      /\ size' = size - 1 /\ Return(Stored(v)) /\ UNCHANGED <<cap, grows, norepl>>
      /\ table[index].hash = 0 \/ table[index].psl = 0
  BY DEF ShiftEnd, RunOver, flags
<1>2. /\ pc' = "idle" /\ req' = NoCall /\ placed' = FALSE /\ ocap' = 0 /\ Slots' = Slots
      /\ index' = 0 /\ np' = 0 /\ re' = -1 /\ hole' = 0 /\ res' = Stored(v)
      /\ entry' = Empty /\ victim' = Empty /\ old' = NoTable /\ oi' = 0
  BY <1>1 DEF Return, Slots
<1>3. /\ cap \in Nat /\ cap >= 4 /\ hole \in Slots /\ table[hole].hash # 0 /\ ocap = 0 /\ Left = {} /\ Keyed
      /\ Refers(victim) /\ v \in Slots /\ data[v] # NULL
      /\ \A i \in Slots : i # hole /\ table[i].hash # 0 => table[i].di # v
      /\ table \in [Slots -> Entry] /\ data \in [Slots -> Dentry \cup {NULL}]
  BY <1>1 DEF IndInv, TypeOK, Control, Vacating, Refers, InTable, IsHole, Left, Keyed
<1>4. /\ table' \in [Slots -> Entry] /\ table'[hole].hash = 0 /\ table'[hole].psl = 0
      /\ \A i \in Slots : i # hole => table'[i] = table[i]
      /\ data' \in [Slots -> Dentry \cup {NULL}] /\ data'[v] = NULL
      /\ \A a \in Slots : a # v => data'[a] = data[a]
  BY <1>1, <1>3, EmptyEntry DEF Empty
<1>5. IsFiniteSet(Taken) /\ Cardinality(Taken) = size /\ hole \in Taken
      /\ Taken' = Taken \ {hole}
  BY <1>2, <1>3, <1>4, TakenFinite DEF IndInv, SizeCounts, Taken
<1>6. size' = Cardinality(Taken') /\ size' \in 0 .. cap
  <2>1. Cardinality(Taken \ {hole}) = Cardinality(Taken) - 1
    BY <1>5, FS_RemoveElement
  <2>2. Cardinality(Taken') \in Nat
    BY <1>5, FS_RemoveElement, FS_CardinalityType
  <2>. QED  BY <1>1, <1>5, <2>1, <2>2 DEF IndInv, TypeOK
<1>7. TypeOK'
  <2>1. dsize' \in 0 .. DsizeMod - 1
    BY <1>1, DsizeStep, SizeAssumption DEF IndInv, TypeOK
  <2>2. res' \in Answer
    BY <1>2, <1>3, StoredAnswer DEF IndInv
  <2>3. (old \in [0 .. ocap - 1 -> Entry] /\ oi \in 0 .. ocap)'
    BY <1>2, EmptyEntry
  <2>4. index' \in Slots' /\ hole' \in Slots' /\ re' \in -1 .. cap' - 1 /\ entry' \in Entry /\ victim' \in Entry
    BY <1>1, <1>2, <1>3, EmptyEntry DEF Slots
  <2>5. table' \in [Slots' -> Entry] /\ data' \in [Slots' -> Dentry \cup {NULL}] /\ size' \in 0 .. cap'
    BY <1>1, <1>2, <1>4, <1>6
  <2>6. /\ cap' \in Nat /\ 4 <= cap' /\ cap' <= MaxCap /\ grows' \in BOOLEAN /\ norepl' \in BOOLEAN
        /\ ocap' \in Nat /\ np' \in Nat
    BY <1>1, <1>2 DEF IndInv, TypeOK
  <2>. QED  BY <1>2, <2>1, <2>2, <2>3, <2>4, <2>5, <2>6 DEF TypeOK
<1>8. \A i \in Slots : ~IsHole(i) <=> i # hole
  BY <1>1 DEF IsHole
<1>9. PslAccurate' /\ PslFits'
  <2>1. \A i \in Slots : i # hole /\ table[i].hash # 0 => table[i].psl = Dist(cap, HomeOf(i), i)
    BY <1>8 DEF IndInv, PslAccurate, InTable
  <2>2. PslAccurate'
    BY <1>1, <1>2, <1>4, <2>1 DEF PslAccurate, Carrying, InTable, HomeOf
  <2>3. PslFits'
    BY <1>1, <1>2, <1>3, <1>4 DEF IndInv, PslFits, Carrying
  <2>. QED  BY <2>2, <2>3
<1>10. RobinHood'
  <2>1. ASSUME NEW i \in Slots, NEW j \in Slots, i # hole, table[i].hash # 0,
               Dist(cap, HomeOf(i), j) <= table[i].psl
        PROVE  j # hole /\ table[j].hash # 0 /\ table[j].psl >= Dist(cap, HomeOf(i), j)
    <3>1. CASE j # hole
      BY <1>8, <2>1, <3>1 DEF IndInv, RobinHood, InTable
    <3>2. CASE j = hole
      <4>1. table[index].hash # 0 /\ table[index].psl >= Dist(cap, HomeOf(i), hole) + 1
        BY <1>1, <2>1, <3>2, BeyondHole
      <4>2. Dist(cap, HomeOf(i), hole) \in Nat
        BY <1>3, HomesInTable DEF IndInv
      <4>. QED  BY <1>1, <4>1, <4>2
    <3>. QED  BY <3>1, <3>2
  <2>. QED  BY <1>1, <1>2, <1>4, <2>1 DEF RobinHood, Carrying, InTable, HomeOf
<1>11. SizeCounts'
  BY <1>6 DEF SizeCounts
<1>12. KeysUnique'
  BY <1>2, <1>4 DEF IndInv, KeysUnique
<1>13. /\ \A i \in Slots : table[i].hash # 0 => Refers(table[i])
       /\ \A i, j \in Slots : i # j /\ i # hole /\ j # hole /\ table[i].hash # 0 /\ table[j].hash # 0
                               => table[i].di # table[j].di
  BY <1>1, <1>8 DEF IndInv, EntriesOwnDentries, InTable, Pending
<1>14. EntriesOwnDentries'
  <2>1. \A i \in Slots : i # hole /\ table[i].hash # 0 =>
          /\ table[i].di \in Slots /\ data'[table[i].di] = data[table[i].di]
          /\ Refers(table[i])
    BY <1>3, <1>4, <1>13 DEF Refers
  <2>2. \A i \in Slots : (table[i].hash # 0 => Refers(table[i]))'
    BY <1>2, <1>4, <2>1 DEF Refers
  <2>3. Left' = {}
    BY <1>2 DEF Left
  <2>. QED  BY <1>2, <1>4, <1>13, <2>2, <2>3 DEF EntriesOwnDentries, Carrying, InTable
<1>15. DentriesReached'
  <2>1. SUFFICES ASSUME NEW a \in Slots, data'[a] # NULL
                 PROVE  \E i \in Slots : table'[i].hash # 0 /\ table'[i].di = a
    BY <1>2 DEF DentriesReached, InTable, IsHole, Pending
  <2>2. a # v /\ data[a] # NULL
    BY <1>4, <2>1
  <2>3. \E i \in Slots : i # hole /\ table[i].hash # 0 /\ table[i].di = a
    BY <1>1, <1>3, <1>8, <2>2 DEF IndInv, DentriesReached, Carrying, InTable
  <2>. QED  BY <1>4, <2>3
<1>16. Control' /\ Vacating' /\ PuttingKey' /\ ProbeEnds' /\ Growing' /\ NeverDead'
  BY <1>2 DEF Control, Vacating, PuttingKey, ProbeEnds, Growing, NeverDead, Carrying, CarriesNew
<1>17. RoomToSpare'
  BY <1>1, <1>3 DEF IndInv, TypeOK, RoomToSpare
<1>. QED  BY <1>7, <1>9, <1>10, <1>11, <1>12, <1>14, <1>15, <1>16, <1>17 DEF IndInv

-----------------------------------------------------------------------------
(***************************************************************************)
(* n_oash_ctl, n_oash_clean, n_oash_store and n_oash_restore               *)
(***************************************************************************)
\* Between calls every dentry is referenced by the table.
LEMMA AllReferenced ==
  ASSUME IndInv, pc = "idle"
  PROVE  /\ ocap = 0 /\ Left = {}
         /\ \A a \in Slots : data[a] # NULL => Referenced(a)
BY DEF IndInv, Control, Left, DentriesReached, InTable, Carrying, Referenced

\* Setting the flags of an empty table preserves the invariant.
LEMMA CtlIndInv ==
  ASSUME IndInv, Ctl
  PROVE  IndInv'
<1> USE DEF Ctl, store, locals, find, carry, moving, removal
<1>1. TypeOK'
  BY DEF IndInv, TypeOK, Slots
<1>2. PslAccurate' /\ RobinHood' /\ PslFits' /\ SizeCounts' /\ KeysUnique'
  BY DEF IndInv, PslAccurate, RobinHood, PslFits, SizeCounts, KeysUnique, Taken, Carrying, InTable,
         IsHole, HomeOf, Slots
<1>3. EntriesOwnDentries' /\ DentriesReached'
  <2>1. EntriesOwnDentries'
    BY SMTT(30) DEF IndInv, EntriesOwnDentries, Refers, Carrying, CarriesNew, InTable, IsHole, Left,
        Pending, Keyed, Slots
  <2>2. DentriesReached'
    BY DEF IndInv, DentriesReached, Refers, Carrying, CarriesNew, InTable, IsHole, Left, Pending,
        Keyed, Slots
  <2>. QED  BY <2>1, <2>2
<1>4. Control' /\ Vacating' /\ PuttingKey' /\ ProbeEnds' /\ NeverDead' /\ Growing'
  BY DEF IndInv, Control, Vacating, PuttingKey, ProbeEnds, NeverDead, Growing, Carrying, CarriesNew, Keyed
<1>5. RoomToSpare'
  <2>1. cap - size > cap \div 3
    BY DEF IndInv, TypeOK
  <2>. QED  BY <2>1 DEF RoomToSpare
<1>. QED  BY <1>1, <1>2, <1>3, <1>4, <1>5 DEF IndInv

\* Removing every entry preserves the invariant.
LEMMA CleanIndInv ==
  ASSUME IndInv, Clean
  PROVE  IndInv'
<1>1. /\ pc = "idle" /\ pc' = pc /\ size' = 0 /\ dsize' = 0 /\ table' = [i \in Slots |-> Empty]
      /\ data' = [a \in Slots |-> IF Referenced(a) THEN NULL ELSE data[a]]
      /\ UNCHANGED <<cap, grows, norepl, req, res, placed, index, np, entry, re, ocap, old, oi, victim, hole>>
  BY DEF Clean, flags, locals, find, carry, moving, removal
<1>2. ocap = 0 /\ Left' = {} /\ Slots' = Slots /\ cap \in Nat /\ cap >= 4
  BY <1>1, AllReferenced DEF Left, Slots, IndInv, TypeOK
<1>3. \A a \in Slots : data'[a] = NULL
  BY <1>1, AllReferenced
<1>4. \A i \in Slots : table'[i].hash = 0 /\ table'[i].psl = 0
  BY <1>1 DEF Empty
<1>5. TypeOK'
  <2>1. table' \in [Slots' -> Entry] /\ data' \in [Slots' -> Dentry \cup {NULL}]
    BY <1>1, <1>2, EmptyEntry DEF IndInv, TypeOK
  <2>2. size' \in 0 .. cap' /\ dsize' \in 0 .. DsizeMod - 1
    BY <1>1, <1>2, SizeAssumption
  <2>. QED  BY <1>1, <1>2, <2>1, <2>2 DEF IndInv, TypeOK
<1>6. PslAccurate' /\ RobinHood' /\ PslFits'
  BY <1>1, <1>2, <1>4 DEF PslAccurate, RobinHood, PslFits, Carrying, InTable
<1>7. SizeCounts'
  <2>1. Taken' = {}
    BY <1>2, <1>4 DEF Taken
  <2>. QED  BY <1>1, <2>1, FS_EmptySet DEF SizeCounts
<1>8. EntriesOwnDentries' /\ DentriesReached' /\ KeysUnique'
  BY <1>1, <1>2, <1>3, <1>4 DEF EntriesOwnDentries, DentriesReached, KeysUnique, Carrying, InTable
<1>9. Control' /\ Vacating' /\ PuttingKey' /\ ProbeEnds' /\ NeverDead' /\ Growing'
  BY <1>1, <1>2 DEF Control, Vacating, PuttingKey, ProbeEnds, NeverDead, Growing, Carrying, CarriesNew,
                    IndInv
<1>10. RoomToSpare'
  BY <1>1, <1>2 DEF RoomToSpare
<1>. QED  BY <1>5, <1>6, <1>7, <1>8, <1>9, <1>10 DEF IndInv

\* Going on with a restored table preserves the invariant.
LEMMA RestoreIndInv ==
  ASSUME IndInv, Restore
  PROVE  IndInv'
<1>1. /\ pc = "idle" /\ dsize' = 0
      /\ UNCHANGED <<cap, table, size, grows, norepl, pc, req, res, placed, index, np, entry, re,
                     ocap, old, oi, victim, hole>>
  BY DEF Restore, flags, locals, find, carry, moving, removal
<1>2. data' = data
  <2>1. data' = [a \in Slots |-> IF Referenced(a) THEN data[a] ELSE NULL] /\ data \in [Slots -> Dentry \cup {NULL}]
    BY DEF Restore, IndInv, TypeOK
  <2>2. \A a \in Slots : data'[a] = data[a]
    BY <1>1, <2>1, AllReferenced
  <2>. QED  BY <2>1, <2>2
<1>3. TypeOK'
  BY <1>1, <1>2, SizeAssumption DEF IndInv, TypeOK, Slots
<1>4. PslAccurate' /\ RobinHood' /\ PslFits' /\ SizeCounts' /\ KeysUnique'
  BY <1>1, <1>2 DEF IndInv, PslAccurate, RobinHood, PslFits, SizeCounts, KeysUnique, Taken, Carrying, InTable,
         IsHole, HomeOf, Slots
<1>5. EntriesOwnDentries' /\ DentriesReached'
  <2>1. EntriesOwnDentries'
    BY <1>1, <1>2 DEF IndInv, EntriesOwnDentries, Refers, Carrying, CarriesNew, InTable, IsHole,
        Left, Pending, Keyed, Slots
  <2>2. DentriesReached'
    BY <1>1, <1>2 DEF IndInv, DentriesReached, Refers, Carrying, CarriesNew, InTable, IsHole,
        Left, Pending, Keyed, Slots
  <2>. QED  BY <2>1, <2>2
<1>6. Control' /\ Vacating' /\ PuttingKey' /\ ProbeEnds' /\ NeverDead' /\ Growing' /\ RoomToSpare'
  BY <1>1, <1>2 DEF IndInv, Control, Vacating, PuttingKey, ProbeEnds, NeverDead, Growing, RoomToSpare,
         Carrying, CarriesNew, Keyed
<1>. QED  BY <1>3, <1>4, <1>5, <1>6 DEF IndInv

\* Freeing the table and making another preserves the invariant.
LEMMA FreeIndInv ==
  ASSUME IndInv, Free
  PROVE  IndInv'
<1> USE DEF Free, Return, Slots
<1>1. TypeOK'
  <2>1. old' \in [0 .. ocap' - 1 -> Entry] /\ oi' \in 0 .. ocap'
    BY EmptyEntry
  <2>2. table' \in [Slots' -> Entry] /\ data' \in [Slots' -> Dentry \cup {NULL}]
    BY EmptyEntry
  <2>3. cap' \in Nat /\ 4 <= cap' /\ cap' <= MaxCap /\ dsize' \in 0 .. DsizeMod - 1 /\ size' \in 0 .. cap'
    BY SizeAssumption
  <2>4. res' \in Answer /\ grows' \in BOOLEAN /\ norepl' \in BOOLEAN
    BY DEF IndInv, TypeOK, flags
  <2>. QED  BY <2>1, <2>2, <2>3, <2>4, EmptyEntry DEF TypeOK
<1>2. Taken' = {}
  BY DEF Taken, Empty
<1>3. SizeCounts'
  BY <1>2, FS_EmptySet DEF SizeCounts
<1>4. PslAccurate' /\ RobinHood' /\ PslFits' /\ KeysUnique' /\ DentriesReached'
  BY <1>1 DEF PslAccurate, RobinHood, PslFits, KeysUnique, DentriesReached,
              Carrying, InTable, Empty, TypeOK
<1>5. EntriesOwnDentries'
  BY DEF EntriesOwnDentries, Carrying, InTable, Empty, Left
<1>6. Control' /\ Vacating' /\ PuttingKey' /\ ProbeEnds' /\ Growing' /\ NeverDead'
  BY DEF Control, Vacating, PuttingKey, ProbeEnds, Growing, NeverDead,
         Carrying, CarriesNew, Keyed
<1>7. RoomToSpare'
  BY <1>1 DEF RoomToSpare, TypeOK
<1>. QED  BY <1>1, <1>3, <1>4, <1>5, <1>6, <1>7 DEF IndInv

-----------------------------------------------------------------------------
(***************************************************************************)
(* The theorems                                                            *)
(***************************************************************************)
\* Every step preserves the invariant: one lemma for each action of Next.
LEMMA NextIndInv ==
  ASSUME Sane, IndInv, [Next]_vars
  PROVE  IndInv'
<1>1. CASE Ctl \/ Clean \/ Restore \/ Free
  BY <1>1, CtlIndInv, CleanIndInv, RestoreIndInv, FreeIndInv
<1>2. CASE \E r \in Calls : CallPut(r) \/ CallFind(r)
  BY <1>2, CallPutIndInv, CallFindIndInv
<1>3. CASE Lookup
  BY <1>3, LookupNextIndInv, AnswerIndInv, RemoveHitIndInv, FullHitIndInv, NeverFullGrow DEF Lookup
<1>4. CASE Probe
  BY <1>4, ProbeEmptyIndInv, ProbeSwapIndInv, ProbeNextIndInv, ProbeFoundIndInv DEF Probe, Sane
<1>5. CASE Place
  BY <1>5, PlaceIndInv
<1>6. CASE Rehash
  BY <1>6, GrowIndInv, RehashSkipIndInv, RehashTakeIndInv, RehashDoneIndInv DEF Rehash, GrowFails, Sane
<1>7. CASE Shift \/ ShiftEnd
  BY <1>7, ShiftIndInv, ShiftEndIndInv
<1>8. CASE UNCHANGED vars
  <2> USE <1>8 DEF vars, store, flags, locals, find, carry, moving, removal
  <2>1. TypeOK'
    BY DEF IndInv, TypeOK, Slots
  <2>2. PslAccurate' /\ RobinHood' /\ PslFits' /\ SizeCounts' /\ KeysUnique'
    BY DEF IndInv, PslAccurate, RobinHood, PslFits, SizeCounts, KeysUnique, Taken, Carrying,
           InTable, IsHole, HomeOf, Slots
  <2>3. EntriesOwnDentries' /\ DentriesReached' /\ Vacating'
    <3>1. EntriesOwnDentries'
      BY SMTT(30) DEF IndInv, EntriesOwnDentries, Refers, Carrying, CarriesNew, InTable, IsHole, Left,
          Pending, Keyed, Slots
    <3>2. DentriesReached'
      BY DEF IndInv, DentriesReached, Refers, Carrying, CarriesNew, InTable, IsHole, Left,
          Pending, Keyed, Slots
    <3>3. Vacating'
      BY DEF IndInv, Vacating, Refers, Carrying, CarriesNew, InTable, IsHole, Left, Pending,
          Keyed, Slots
    <3>. QED  BY <3>1, <3>2, <3>3
  <2>4. PuttingKey' /\ ProbeEnds'
    BY DEF IndInv, PuttingKey, ProbeEnds, Carrying, CarriesNew, Keyed, HoldsKey, Pending, Slots
  <2>5. Control' /\ NeverDead' /\ Growing' /\ RoomToSpare'
    BY DEF IndInv, Control, NeverDead, Growing, AtLimit, RoomToSpare, Carrying, Keyed
  <2>. QED  BY <2>1, <2>2, <2>3, <2>4, <2>5 DEF IndInv
<1>. QED  BY <1>1, <1>2, <1>3, <1>4, <1>5, <1>6, <1>7, <1>8 DEF Next, Step

\* The inductive invariant holds in every state of every table that does not
\* run out of memory and has no clashing keys.
THEOREM Invariance == ASSUME Sane PROVE Spec => []IndInv
<1>1. Init => IndInv
  BY InitIndInv
<1>2. IndInv /\ [Next]_vars => IndInv'
  BY NextIndInv
<1>. QED  BY <1>1, <1>2, PTL DEF Spec

\* n_oash_put, n_oash_remove, ohash_rehash and the lookups keep every variable
\* in its range: in particular no index leaves the table.
THEOREM TypeCorrect == ASSUME Sane PROVE Spec => []TypeOK
<1>1. IndInv => TypeOK
  BY DEF IndInv
<1>. QED  BY <1>1, Invariance, PTL

\* The psl kept in an entry is its distance from its home slot, at every point
\* of every loop, and never wraps.
THEOREM PslCorrect == ASSUME Sane PROVE Spec => [](PslAccurate /\ PslFits)
<1>1. IndInv => PslAccurate /\ PslFits
  BY DEF IndInv
<1>. QED  BY <1>1, Invariance, PTL

\* What the early exits of ohash_get_entry rely on holds of every table, also
\* of the half filled table of ohash_rehash and of the hole of n_oash_remove.
THEOREM RobinHoodOrder == ASSUME Sane PROVE Spec => []RobinHood
<1>1. IndInv => RobinHood
  BY DEF IndInv
<1>. QED  BY <1>1, Invariance, PTL

\* Entries and dentries stay paired: no entry is without its dentry or shares
\* it, no dentry is lost by a swap, a shift or a rehash, no key has two.
THEOREM NothingLostOrShared ==
  ASSUME Sane PROVE Spec => [](EntriesOwnDentries /\ DentriesReached /\ KeysUnique)
<1>1. IndInv => EntriesOwnDentries /\ DentriesReached /\ KeysUnique
  BY DEF IndInv
<1>. QED  BY <1>1, Invariance, PTL

\* size is the number of slots that are taken, and a table that may grow
\* always has room to spare.
THEOREM SizeCorrect == ASSUME Sane PROVE Spec => [](SizeCounts /\ RoomToSpare)
<1>1. IndInv => SizeCounts /\ RoomToSpare
  BY DEF IndInv
<1>. QED  BY <1>1, Invariance, PTL

\* At each iteration of each loop the table is a Robin Hood table whose entries
\* and dentries are paired, with no key twice, and its size is right.
THEOREM TableCorrect == ASSUME Sane PROVE Spec => []TableOK
<1>1. IndInv => TableOK
  BY DEF IndInv, TableOK
<1>. QED  BY <1>1, Invariance, PTL

\* A table that may not grow keeps the invariant.
THEOREM FixedCorrect == ASSUME Sane PROVE Spec => []FixedOK
<1>1. IndInv => FixedOK
  BY DEF FixedOK
<1>. QED  BY <1>1, Invariance, PTL

\* n_oash_put never dereferences a null entry, and its assertion that nothing
\* was swapped before the key was recognised never fails.
THEOREM NoDeadEnd == ASSUME Sane PROVE Spec => []NeverDead
<1>1. IndInv => NeverDead
  BY DEF IndInv
<1>. QED  BY <1>1, Invariance, PTL

-----------------------------------------------------------------------------
(***************************************************************************)
(* The lookups                                                             *)
(***************************************************************************)
\* What a lookup, the loop that vacates a slot and a table about to grow know
\* besides: the slots the lookup has passed do not hold the key, the victim
\* does, and only a table that may grow grows.
Passed(i) == Dist(cap, Home(cap, HashOf[req.key]), i) < np
Seeking ==
  /\ pc = "lookup" =>
       /\ np <= cap
       /\ np = cap \/ Dist(cap, Home(cap, HashOf[req.key]), index) = np
       /\ \A i \in Slots : Passed(i) => ~HoldsKey(i)
  /\ pc = "shift" => req.op = "remove" /\ data[victim.di].key = req.key
  /\ pc = "grow" => grows

LEMMA LookupHome ==
  ASSUME IndInv, pc = "lookup"
  PROVE  /\ req.key \in Keys /\ HashOf[req.key] \in Nat
         /\ Home(cap, HashOf[req.key]) \in Slots
         /\ cap \in Nat /\ cap >= 4 /\ Slots = 0 .. cap - 1 /\ index \in Slots /\ np \in Nat
<1>1. req.key \in Keys
  BY DEF IndInv, TypeOK, Request
<1>2. HashOf[req.key] \in Nat
  BY <1>1, KeysAssumption
<1>3. cap \in Nat /\ cap >= 4 /\ index \in Slots /\ np \in Nat
  BY DEF IndInv, TypeOK
<1>. QED  BY <1>1, <1>2, <1>3, StartFacts DEF IndInv, Slots

\* A lookup starts at the home of its key.
LEMMA SeekingStarts ==
  ASSUME IndInv, StartLookup(req'.key), req' \in Request, cap' = cap
  PROVE  Seeking'
<1>1. req'.key \in Keys
  BY DEF Request
<1>2. HashOf[req'.key] \in Nat /\ cap \in Nat /\ cap >= 4
  BY <1>1, KeysAssumption DEF IndInv, TypeOK
<1>. DEFINE h == Home(cap, HashOf[req'.key])
<1>3. Dist(cap, h, h) = 0 /\ \A j \in Slots : Dist(cap, h, j) \in Nat
  BY <1>2, StartFacts DEF IndInv
<1>4. pc' = "lookup" /\ index' = h /\ np' = 0
  BY DEF StartLookup
<1>. HIDE DEF h
<1>5. \A j \in Slots : ~(Dist(cap, h, j) < 0)
  BY <1>3
<1>. QED  BY <1>2, <1>3, <1>4, <1>5 DEF Seeking, Passed, h, Slots

\* The slot it leaves does not hold the key.
LEMMA SeekingGoesOn ==
  ASSUME IndInv, Seeking, LookupNext
  PROVE  Seeking'
<1>. DEFINE h == Home(cap, HashOf[req.key])
<1>1. /\ pc = "lookup" /\ pc' = "lookup" /\ np' = np + 1 /\ index' = After(cap, index)
      /\ ~RunEnds /\ ~SameKey
      /\ UNCHANGED <<cap, table, size, data, dsize, flags, req, res, re, ocap>>
  BY DEF LookupNext, store, carry, moving
<1>2. /\ req.key \in Keys /\ h \in Slots /\ cap \in Nat /\ cap >= 4 /\ Slots = 0 .. cap - 1
      /\ index \in Slots /\ np \in Nat
  BY <1>1, LookupHome
<1>3. table[index].hash # 0 /\ Refers(table[index])
  BY <1>1, <1>2 DEF RunEnds, IndInv, EntriesOwnDentries, Pending
<1>4. ~HoldsKey(index)
  <2>1. SUFFICES ASSUME data[table[index].di].key = req.key PROVE FALSE
    BY DEF HoldsKey
  <2>. QED  BY <1>1, <1>3, <2>1 DEF SameKey, Refers
<1>. HIDE DEF h
<1>5. np < cap
  <2>1. ~(np > Dist(cap, Home(cap, table[index].hash), index))
    BY <1>1 DEF RunEnds
  <2>2. table[index].hash \in Nat
    BY <1>2 DEF IndInv, TypeOK, Entry
  <2>3. Home(cap, table[index].hash) \in 0 .. cap - 1
    BY <1>2, <2>2, StartFacts DEF IndInv
  <2>4. Dist(cap, Home(cap, table[index].hash), index) \in 0 .. cap - 1
    BY <1>2, <2>3, DistFacts
  <2>. QED  BY <1>2, <2>1, <2>4
<1>6. Dist(cap, h, index) = np
  BY <1>1, <1>2, <1>5 DEF Seeking, h
<1>7. np + 1 = cap \/ Dist(cap, h, After(cap, index)) = np + 1
  BY <1>2, <1>6, AfterFacts
<1>8. ASSUME NEW i \in Slots, Dist(cap, h, i) < np + 1
      PROVE  ~HoldsKey(i)
  <2>1. Dist(cap, h, i) \in 0 .. cap - 1
    BY <1>2, DistFacts
  <2>2. CASE Dist(cap, h, i) < np
    <3>1. Passed(i)
      BY <2>2 DEF Passed, h
    <3>. QED  BY <1>1, <3>1 DEF Seeking
  <2>3. CASE Dist(cap, h, i) = np
    <3>1. i = index
      BY <1>2, <1>6, <2>3, DistFacts
    <3>. QED  BY <1>4, <3>1
  <2>. QED  BY <1>2, <1>8, <2>1, <2>2, <2>3
<1>9. \A i \in Slots : HoldsKey(i)' = HoldsKey(i)
  BY <1>1 DEF HoldsKey, Pending, Keyed
<1>. QED  BY <1>1, <1>2, <1>5, <1>7, <1>8, <1>9 DEF Seeking, Passed, h, Slots

\* A lookup that ends without the key: no dentry has it.
LEMMA MissMeans ==
  ASSUME IndInv, Seeking, Miss
  PROVE  \A a \in Slots : data[a] # NULL => data[a].key # req.key
<1>. SUFFICES ASSUME NEW a \in Slots, data[a] # NULL, data[a].key = req.key PROVE FALSE
  OBVIOUS
<1>. DEFINE h == Home(cap, HashOf[req.key])
<1>1. pc = "lookup" /\ RunEnds
  BY DEF Miss
<1>2. /\ req.key \in Keys /\ h \in Slots /\ cap \in Nat /\ cap >= 4 /\ Slots = 0 .. cap - 1
      /\ index \in Slots /\ np \in Nat
  BY <1>1, LookupHome
<1>3. PICK i \in Slots : InTable(i) /\ ~Pending(i) /\ table[i].di = a
  BY <1>1 DEF IndInv, Control, DentriesReached, Carrying, Left
<1>4. table[i].hash = HashOf[req.key] /\ HoldsKey(i)
  BY <1>3 DEF InTable, IndInv, EntriesOwnDentries, Refers, HoldsKey
<1>5. table[i].psl = Dist(cap, h, i) /\ HomeOf(i) = h
  BY <1>3, <1>4 DEF IndInv, PslAccurate, HomeOf
<1>. HIDE DEF h
<1>6. Dist(cap, h, i) \in 0 .. cap - 1 /\ ~(Dist(cap, h, i) < np)
  BY <1>1, <1>2, <1>4, DistFacts DEF Seeking, Passed, h
<1>7. Dist(cap, h, index) = np /\ np < cap
  BY <1>1, <1>2, <1>6 DEF Seeking, h
<1>8. ~IsHole(index)
  BY <1>1 DEF IsHole
<1>9. table[index].hash # 0 /\ table[index].psl >= np
  BY <1>2, <1>3, <1>5, <1>6, <1>7, <1>8 DEF IndInv, RobinHood
<1>10. table[index].psl = Dist(cap, Home(cap, table[index].hash), index)
  BY <1>2, <1>8, <1>9 DEF IndInv, PslAccurate, InTable, HomeOf
<1>11. index # h /\ table[index].psl = 0
  <2>1. table[index].psl \in Nat
    BY <1>2 DEF IndInv, TypeOK, Entry
  <2>. QED  BY <1>1, <1>2, <1>9, <1>10, <2>1 DEF RunEnds, h
<1>12. np = 0
  BY <1>2, <1>9, <1>11
<1>13. index = h
  BY <1>2, <1>7, <1>12, DistFacts
<1>. QED  BY <1>11, <1>13

LEMMA SeekingNext ==
  ASSUME IndInv, Seeking, [Next]_vars
  PROVE  Seeking'
<1>. USE DEF Seeking
<1>1. CASE Ctl \/ Clean \/ Restore \/ Free
  BY <1>1 DEF Ctl, Clean, Restore, Free, Return
<1>2. ASSUME NEW r \in Calls, CallPut(r) \/ CallFind(r) PROVE Seeking'
  <2>1. r \in Request /\ req' = r /\ cap' = cap
    BY <1>2 DEF Calls, CallPut, CallFind, store
  <2>2. CASE StartLookup(r.key)
    <3>. HIDE DEF Seeking
    <3>. QED  BY <2>1, <2>2, SeekingStarts
  <2>3. CASE pc' = "probe"
    BY <2>3
  <2>. QED  BY <1>2, <2>2, <2>3 DEF CallPut, CallFind, StartProbe
<1>3. CASE LookupNext
  BY <1>3, SeekingGoesOn
<1>4. CASE RemoveHit
  <2>1. /\ pc' = "shift" /\ victim' = table[index] /\ data' = data
        /\ req' = req /\ req.op = "remove"
    BY <1>4 DEF RemoveHit, store
  <2>2. data[table[index].di].key = req.key
    BY <1>4, HitFacts DEF RemoveHit
  <2>. QED  BY <2>1, <2>2
<1>5. CASE FullGrow
  BY <1>5 DEF FullGrow, flags
<1>6. CASE GetHit \/ FindMiss \/ FullHit \/ FullHitDie \/ FullRefused
  BY <1>6 DEF GetHit, FindMiss, FullHit, Update, FullHitDie, FullRefused, Return, StartProbe
<1>7. CASE Probe
  BY <1>7 DEF Probe, ProbeEmpty, ProbeSwap, ProbeNext, ProbeFound, Probing, Update, Return
<1>8. CASE Place
  <2>1. pc' = "idle" \/ (pc' = "grow" /\ AtLimit(size) /\ UNCHANGED flags)
    BY <1>8 DEF Place, Return
  <2>. QED  BY <2>1 DEF AtLimit, flags
<1>9. CASE Rehash
  BY <1>9 DEF Rehash, Grow, GrowFails, RehashSkip, RehashTake, RehashDone, AfterGrow, StartProbe, Return
<1>10. CASE Shift
  BY <1>10 DEF Shift
<1>11. CASE ShiftEnd
  BY <1>11 DEF ShiftEnd, Return
<1>12. CASE UNCHANGED vars
  BY <1>12 DEF vars, store, flags, locals, find, carry, moving, removal, Passed, HoldsKey, Pending,
               Keyed, Slots
<1>. QED  BY <1>1, <1>2, <1>3, <1>4, <1>5, <1>6, <1>7, <1>8, <1>9, <1>10, <1>11, <1>12
          DEF Next, Step, Lookup

-----------------------------------------------------------------------------
(***************************************************************************)
(* The map                                                                 *)
(***************************************************************************)
Contents == [k \in Keys |-> MapOf(k)]

\* The dentry data[a] has the key k.
KeptAt(a, k) == data[a] # NULL /\ data[a].key = k

LEMMA MapAbsent ==
  ASSUME NEW k \in Keys, \A a \in Slots : ~KeptAt(a, k)
  PROVE  Contents[k] = <<"absent">>
  BY DEF Contents, MapOf, KeptAt

LEMMA MapKept ==
  ASSUME IndInv, NEW a \in Slots, NEW k \in Keys, KeptAt(a, k)
  PROVE  Contents[k] = data[a].val /\ Contents[k] # <<"absent">>
<1>. DEFINE c == CHOOSE b \in Slots : KeptAt(b, k)
<1>1. c \in Slots /\ KeptAt(c, k)
  OBVIOUS
<1>2. c = a
  <2>. HIDE DEF c
  <2>. QED  BY <1>1 DEF IndInv, KeysUnique, KeptAt
<1>3. MapOf(k) = data[c].val
  BY DEF MapOf, KeptAt
<1>. HIDE DEF c
<1>4. data[a].val # <<"absent">>
  BY DataAssumption DEF IndInv, TypeOK, Dentry, KeptAt
<1>. QED  BY <1>2, <1>3, <1>4 DEF Contents

MapRight == \A a \in Slots : \A k \in Keys : KeptAt(a, k) => Contents[k] = data[a].val

LEMMA MapIsRight == IndInv => MapRight
  BY MapKept DEF MapRight

LEMMA MapPresent ==
  ASSUME IndInv, NEW k \in Keys
  PROVE  k \in Map!Present <=> \E a \in Slots : KeptAt(a, k)
<1>1. k \in Map!Present <=> Contents[k] # <<"absent">>
  BY DEF Map!Present, Map!Absent, Contents
<1>. QED  BY <1>1, MapAbsent, MapKept

\* The answers of a call that finds its key, and of one that does not.
LEMMA FoundKept ==
  ASSUME IndInv, NEW a \in Slots, NEW k \in Keys, KeptAt(a, k)
  PROVE  k \in Map!Present /\ Map!Found(k) = Stored(a)
<1>1. k \in Map!Present
  BY MapPresent
<1>2. [j \in Keys |-> MapOf(j)][k] = data[a].val
  BY MapKept DEF Contents
<1>. QED  BY <1>1, <1>2 DEF Map!Found, Stored

LEMMA FoundNothing ==
  ASSUME IndInv, NEW k \in Keys, \A a \in Slots : ~KeptAt(a, k)
  PROVE  k \notin Map!Present /\ Map!Found(k) = Nothing
<1>1. k \notin Map!Present
  BY MapPresent
<1>. QED  BY <1>1 DEF Map!Found, Map!Nothing, Nothing

\* A step that changes the dentry of one key alone changes the map there.
LEMMA MapElsewhere ==
  ASSUME IndInv, IndInv', UNCHANGED cap, NEW a \in Slots, NEW k \in Keys,
         \A b \in Slots : b # a => data'[b] = data[b],
         data[a] # NULL => data[a].key = k, data'[a] # NULL => data'[a].key = k,
         NEW j \in Keys, j # k
  PROVE  Contents'[j] = Contents[j]
<1>1. \A b \in Slots : KeptAt(b, j)' <=> KeptAt(b, j)
  BY DEF KeptAt
<1>2. Slots' = Slots
  BY DEF Slots
<1>3. CASE \E b \in Slots : KeptAt(b, j)
  <2>1. PICK b \in Slots : KeptAt(b, j)
    BY <1>3
  <2>2. b # a /\ KeptAt(b, j)'
    BY <1>1, <2>1 DEF KeptAt
  <2>3. Contents[j] = data[b].val
    BY <2>1, MapKept
  <2>4. (IndInv => MapRight)'
    BY MapIsRight, PTL
  <2>5. Contents'[j] = data'[b].val
    BY <1>2, <2>2, <2>4 DEF MapRight
  <2>. QED  BY <2>2, <2>3, <2>5
<1>4. CASE \A b \in Slots : ~KeptAt(b, j)
  <2>1. \A b \in Slots : ~(KeptAt(b, j)')
    BY <1>1, <1>4
  <2>2. Contents'[j] = <<"absent">>
    BY <1>2, <2>1 DEF Contents, MapOf, KeptAt
  <2>. QED  BY <1>4, <2>2, MapAbsent
<1>. QED  BY <1>3, <1>4

LEMMA MapStays ==
  ASSUME UNCHANGED <<cap, data>>
  PROVE  Contents' = Contents
  BY DEF Contents, MapOf, Slots

LEMMA MapStutters ==
  ASSUME UNCHANGED <<cap, data, grows, req, res, placed>>
  PROVE  UNCHANGED Map!vars
<1>1. Contents' = Contents
  BY MapStays
<1>. QED  BY <1>1 DEF Map!vars, Contents

LEMMA MapEmpty ==
  ASSUME \A a \in Slots : data[a] = NULL
  PROVE  Contents = [k \in Keys |-> Map!Absent]
  BY DEF Contents, MapOf, Map!Absent

\* A call that takes effect, and returns or goes on to grow the table.
LEMMA MapEffect ==
  ASSUME NEW op \in {"put", "get", "remove"}, req.op = op, placed = FALSE, UNCHANGED <<cap, grows>>,
         (req' = NoCall /\ placed' = FALSE) \/ (req' = req /\ placed' = TRUE)
  PROVE  Map!TakesEffect(op)
<1>1. req # Map!NoCall
  BY DEF Map!NoCall
<1>2. Map!NoCall = NoCall
  BY DEF Map!NoCall, NoCall
<1>. QED  BY <1>1, <1>2 DEF Map!TakesEffect

LEMMA NotPlaced ==
  ASSUME IndInv, pc # "grow", ocap = 0
  PROVE  placed = FALSE
<1>1. placed \in BOOLEAN
  BY DEF IndInv, TypeOK
<1>2. ~placed
  BY DEF IndInv, Control
<1>. QED  BY <1>1, <1>2

LEMMA IdleMap ==
  ASSUME IndInv, pc = "idle"
  PROVE  req = Map!NoCall /\ ocap = 0 /\ placed = FALSE
<1>1. req = NoCall /\ ocap = 0
  BY DEF IndInv, TypeOK, Control
<1>. QED  BY <1>1, NotPlaced DEF NoCall, Map!NoCall

\* The dentries are the same, in a table that may have become longer.
LEMMA MapSame ==
  ASSUME IndInv, IndInv', Slots \subseteq Slots',
         \A a \in Slots : data'[a] = data[a],
         \A a \in Slots' : a \notin Slots => data'[a] = NULL
  PROVE  Contents' = Contents
<1>1. (IndInv => MapRight)'
  BY MapIsRight, PTL
<1>2. ASSUME NEW k \in Keys PROVE Contents'[k] = Contents[k]
  <2>1. CASE \E a \in Slots : KeptAt(a, k)
    <3>1. PICK a \in Slots : KeptAt(a, k)
      BY <2>1
    <3>2. KeptAt(a, k)' /\ a \in Slots'
      BY <3>1 DEF KeptAt
    <3>3. Contents'[k] = data'[a].val
      BY <1>1, <3>2 DEF MapRight
    <3>. QED  BY <3>1, <3>3, MapKept
  <2>2. CASE \A a \in Slots : ~KeptAt(a, k)
    <3>1. \A a \in Slots' : ~(KeptAt(a, k)')
      BY <2>2 DEF KeptAt
    <3>2. Contents'[k] = <<"absent">>
      BY <3>1 DEF Contents, MapOf, KeptAt
    <3>. QED  BY <2>2, <3>2, MapAbsent
  <2>. QED  BY <2>1, <2>2
<1>3. Contents = [k \in Keys |-> Contents[k]] /\ Contents' = [k \in Keys |-> Contents'[k]]
  BY DEF Contents
<1>. QED  BY <1>2, <1>3

LEMMA MapSilent ==
  ASSUME \/ LookupNext \/ RemoveHit \/ FullHitDie \/ FullGrow
         \/ ProbeEmpty \/ ProbeSwap \/ ProbeNext \/ RehashSkip \/ RehashTake \/ Shift
         \/ UNCHANGED vars
  PROVE  UNCHANGED Map!vars
<1>1. CASE LookupNext \/ RemoveHit \/ FullHitDie \/ FullGrow
  BY <1>1, MapStutters DEF LookupNext, RemoveHit, FullHitDie, FullGrow, store, flags, locals
<1>2. CASE ProbeEmpty \/ ProbeSwap \/ ProbeNext
  BY <1>2, MapStutters DEF ProbeEmpty, ProbeSwap, ProbeNext, store, flags
<1>3. CASE RehashSkip \/ RehashTake \/ Shift
  BY <1>3, MapStutters DEF RehashSkip, RehashTake, Shift, store, flags
<1>4. CASE UNCHANGED vars
  BY <1>4, MapStutters DEF vars, store, flags, locals
<1>. QED  BY <1>1, <1>2, <1>3, <1>4

LEMMA MapRestore ==
  ASSUME IndInv, Restore
  PROVE  UNCHANGED Map!vars
<1>1. IndInv'
  BY RestoreIndInv
<1>2. pc = "idle" /\ UNCHANGED <<cap, grows, req, res, placed>> /\ Slots' = Slots
  BY DEF Restore, flags, locals, Slots
<1>3. \A a \in Slots : data'[a] = data[a]
  BY <1>2, AllReferenced DEF Restore
<1>4. Contents' = Contents
  BY <1>1, <1>2, <1>3, MapSame
<1>. QED  BY <1>2, <1>4 DEF Map!vars, Contents

LEMMA MapGrow ==
  ASSUME IndInv, Seeking, Grow
  PROVE  UNCHANGED Map!vars
<1>1. IndInv'
  BY GrowIndInv
<1>2. /\ pc = "grow" /\ grows /\ grows' = grows /\ UNCHANGED <<req, res, placed>>
      /\ cap' = 2 * cap /\ cap \in Nat
      /\ data' = [a \in 0 .. 2 * cap - 1 |-> IF a < cap THEN data[a] ELSE NULL]
  BY DEF Grow, flags, Seeking, IndInv, TypeOK
<1>3. /\ Slots \subseteq Slots'
      /\ \A a \in Slots : data'[a] = data[a]
      /\ \A a \in Slots' : a \notin Slots => data'[a] = NULL
  BY <1>2 DEF Slots
<1>4. Contents' = Contents
  BY <1>1, <1>3, MapSame
<1>. QED  BY <1>2, <1>4 DEF Map!vars, Contents

LEMMA MapCtl ==
  ASSUME IndInv, Ctl
  PROVE  [Map!Next]_(Map!vars)
<1>1. /\ pc = "idle" /\ size = 0 /\ UNCHANGED <<cap, data, req, res, placed>>
      /\ grows' \in BOOLEAN /\ grows \in BOOLEAN
  BY DEF Ctl, store, locals, IndInv, TypeOK
<1>2. grows => grows'
  BY DEF Ctl
<1>3. CASE grows' = grows
  BY <1>1, <1>3, MapStutters
<1>4. CASE grows' # grows
  <2>1. Contents' = Contents
    BY <1>1, MapStays
  <2>2. Taken = {}
    BY <1>1, TakenFinite, FS_EmptySet DEF IndInv, SizeCounts
  <2>3. \A a \in Slots : data[a] = NULL
    BY <1>1, <2>2, AllReferenced DEF Referenced, Taken
  <2>4. Map!Present = {}
    BY <2>3, MapEmpty DEF Map!Present, Contents
  <2>5. grows' = TRUE
    BY <1>1, <1>2, <1>4
  <2>6. Map!LetGrow
    BY <1>1, <2>1, <2>4, <2>5, IdleMap DEF Map!LetGrow, Contents
  <2>. QED  BY <2>6 DEF Map!Next
<1>. QED  BY <1>3, <1>4

LEMMA MapClean ==
  ASSUME IndInv, Clean \/ Free
  PROVE  Map!Next
<1>1. pc = "idle" /\ req' = req /\ res' = res /\ placed' = placed /\ grows' = grows
      /\ (~grows => cap' = cap)
  BY IdleMap DEF Clean, Free, Return, flags, locals, IndInv, TypeOK
<1>2. \A a \in Slots' : data'[a] = NULL
  <2>1. CASE Clean
    BY <1>1, <2>1, AllReferenced DEF Clean, Slots
  <2>2. CASE Free
    BY <2>2 DEF Free, Slots
  <2>. QED  BY <2>1, <2>2
<1>3. Contents' = [k \in Keys |-> Map!Absent]
  BY <1>2 DEF Contents, MapOf, Map!Absent
<1>4. Map!Clean
  BY <1>1, <1>3, IdleMap DEF Map!Clean, Contents
<1>. QED  BY <1>4 DEF Map!Next

LEMMA MapCall ==
  ASSUME IndInv, NEW r \in Calls, CallPut(r) \/ CallFind(r)
  PROVE  Map!Next
<1>1. /\ pc = "idle" /\ req' = r /\ res' = Nothing /\ UNCHANGED <<cap, data, grows, placed>>
  BY DEF CallPut, CallFind, store, flags
<1>2. r \in Map!Request
  BY DEF Calls, Request, Val, Modes, Map!Request, Map!Val, Map!Modes
<1>3. Contents' = Contents
  BY <1>1, MapStays
<1>4. Map!Call
  BY <1>1, <1>2, <1>3, IdleMap DEF Map!Call, Map!Nothing, Nothing, Contents
<1>. QED  BY <1>4 DEF Map!Next

LEMMA ReturnIs ==
  ASSUME NEW answer, Return(answer)
  PROVE  req' = NoCall /\ placed' = FALSE /\ res' = answer
  BY DEF Return

\* PUT_DIE, PUT_KEEP and PUT_REPLACE on a key that is there.
LEMMA MapPutOld ==
  ASSUME IndInv, IndInv', pc # "grow", ocap = 0, req.op = "put", req.key \in Keys,
         NEW a \in Slots, KeptAt(a, req.key),
         \/ Update(a)
         \/ req.mode = "die" /\ Return(Nothing) /\ UNCHANGED <<store, flags>>
  PROVE  Map!Next
<1>1. UNCHANGED <<cap, grows>> /\ req' = NoCall /\ placed' = FALSE
  BY ReturnIs DEF Update, store, flags
<1>2. Map!TakesEffect("put")
  BY <1>1, NotPlaced, MapEffect
<1>3. req.key \in Map!Present /\ Map!Found(req.key) = Stored(a)
  BY FoundKept
<1>4. CASE req.mode = "die" /\ Return(Nothing) /\ UNCHANGED <<store, flags>>
  <2>1. Contents' = Contents
    BY <1>4, MapStays DEF store
  <2>2. res' = Map!Nothing
    BY <1>4, ReturnIs DEF Nothing, Map!Nothing
  <2>3. Map!PutOld
    BY <1>2, <1>3, <1>4, <2>1, <2>2 DEF Map!PutOld, Contents
  <2>. QED  BY <2>3 DEF Map!Next, Map!Effect
<1>5. CASE req.mode = "keep" /\ Return(Stored(a)) /\ UNCHANGED <<store, flags>>
  <2>1. Contents' = Contents
    BY <1>5, MapStays DEF store
  <2>2. res' = Map!Found(req.key)
    BY <1>3, <1>5, ReturnIs
  <2>3. Map!PutOld
    BY <1>2, <1>3, <1>5, <2>1, <2>2 DEF Map!PutOld, Contents
  <2>. QED  BY <2>3 DEF Map!Next, Map!Effect
<1>6. CASE /\ req.mode = "replace" /\ data' = [data EXCEPT ![a].val = req.arg]
           /\ Return([ok |-> TRUE, val |-> req.arg])
  <2>1. /\ data \in [Slots -> Dentry \cup {NULL}] /\ data[a] \in Dentry
        /\ data[a].key = req.key /\ Slots' = Slots
    BY <1>1 DEF IndInv, TypeOK, KeptAt, Slots
  <2>2. /\ data'[a].key = req.key /\ data'[a].val = req.arg
        /\ \A b \in Slots : b # a => data'[b] = data[b]
    BY <1>6, <2>1 DEF Dentry
  <2>3. data'[a] # NULL
    <3>1. data'[a] \in Dentry
      <4>1. req.arg \in Val
        BY DEF IndInv, TypeOK, Request, NoCall
      <4>. QED  BY <1>6, <2>1, <4>1 DEF Dentry
    <3>. QED  BY <3>1, DataAssumption DEF Dentry
  <2>4. Contents'[req.key] = req.arg
    <3>1. (IndInv => MapRight)'
      BY MapIsRight, PTL
    <3>. QED  BY <2>1, <2>2, <2>3, <3>1 DEF MapRight, KeptAt
  <2>5. \A j \in Keys : j # req.key => Contents'[j] = Contents[j]
    BY <1>1, <2>1, <2>2, MapElsewhere
  <2>6. Contents' = [Contents EXCEPT ![req.key] = req.arg]
    <3>1. Contents = [k \in Keys |-> Contents[k]] /\ Contents' = [k \in Keys |-> Contents'[k]]
      BY DEF Contents
    <3>. QED  BY <2>4, <2>5, <3>1
  <2>7. res' = [ok |-> TRUE, val |-> req.arg]
    BY <1>6, ReturnIs
  <2>8. Map!PutOld
    BY <1>2, <1>3, <1>6, <2>6, <2>7 DEF Map!PutOld, Contents
  <2>. QED  BY <2>8 DEF Map!Next, Map!Effect
<1>. QED  BY <1>4, <1>5, <1>6 DEF Update

\* A put comes to its key, in the lookup of a full table or in the probe loop.
LEMMA MapFound ==
  ASSUME IndInv, NoClash, FullHit \/ ProbeFound
  PROVE  Map!Next
<1>. DEFINE a == table[index].di
<1>1. CASE FullHit
  <2>1. Hit /\ req.op = "put" /\ Update(a) /\ pc = "lookup"
    BY <1>1 DEF FullHit, Hit
  <2>2. ocap = 0 /\ a \in Slots /\ KeptAt(a, req.key) /\ req.key \in Keys
    BY <2>1, HitFacts, LookupHome DEF KeptAt
  <2>3. IndInv'
    BY <1>1, FullHitIndInv
  <2>. HIDE DEF a
  <2>. QED  BY <2>1, <2>2, <2>3, MapPutOld
<1>2. CASE ProbeFound
  <2>1. CarriesNew /\ re = -1 /\ ocap = 0 /\ pc = "probe" /\ index \in Slots /\ table[index].hash # 0
    BY <1>2, FoundBeforeSwap, CarryFacts DEF ProbeFound, CarriesNew, Probing, Keyed
  <2>2. ~Pending(index)
    BY <2>1 DEF Pending, Slots, IndInv, TypeOK
  <2>3. a \in Slots /\ data[a] # NULL /\ Refers(table[index])
    BY <2>1, <2>2 DEF IndInv, EntriesOwnDentries, Refers
  <2>4. req \in Request /\ req.op = "put" /\ req.key \in Keys
    BY <2>1 DEF IndInv, TypeOK, Control, Keyed, Request
  <2>5. data[a].key = req.key
    <3>1. /\ table[index].hash = entry.hash /\ table[index].klen = entry.klen
          /\ <<data[a].key, req.key>> \in Prefix
      BY <1>2 DEF ProbeFound, SlotIsKey
    <3>2. entry.klen = KLen[req.key]
      BY <2>1 DEF IndInv, PuttingKey
    <3>3. KLen[data[a].key] = KLen[req.key]
      BY <2>3, <3>1, <3>2 DEF Refers
    <3>4. data[a].key \in Keys
      BY <2>3 DEF IndInv, TypeOK, Dentry
    <3>. QED  BY <2>4, <3>1, <3>3, <3>4, KeysAssumption
  <2>6. IndInv'
    BY <1>2, ProbeFoundIndInv
  <2>7. \/ Update(a)
        \/ req.mode = "die" /\ Return(Nothing) /\ UNCHANGED <<store, flags>>
    BY <1>2, <2>1 DEF ProbeFound
  <2>8. KeptAt(a, req.key)
    BY <2>3, <2>5 DEF KeptAt
  <2>. HIDE DEF a
  <2>. QED  BY <2>1, <2>3, <2>4, <2>6, <2>7, <2>8, MapPutOld
<1>. QED  BY <1>1, <1>2

LEMMA MapGetHit ==
  ASSUME IndInv, GetHit
  PROVE  Map!Next
<1>. DEFINE a == table[index].di
<1>1. Hit /\ req.op = "get" /\ Return(Stored(a)) /\ UNCHANGED <<cap, data, grows>> /\ pc = "lookup"
  BY DEF GetHit, Hit, store, flags
<1>2. ocap = 0 /\ a \in Slots /\ KeptAt(a, req.key) /\ req.key \in Keys
  BY <1>1, HitFacts, LookupHome DEF KeptAt
<1>. HIDE DEF a
<1>3. Map!TakesEffect("get")
  BY <1>1, <1>2, NotPlaced, MapEffect, ReturnIs
<1>4. res' = Map!Found(req.key)
  BY <1>1, <1>2, FoundKept, ReturnIs
<1>5. Contents' = Contents
  BY <1>1, MapStays
<1>6. Map!Get
  BY <1>3, <1>4, <1>5 DEF Map!Get, Contents
<1>. QED  BY <1>6 DEF Map!Next, Map!Effect

\* A lookup that misses, of a key the map does not have.
LEMMA MapFindMiss ==
  ASSUME IndInv, Seeking, FindMiss
  PROVE  Map!Next
<1>1. Miss /\ pc = "lookup" /\ req.op # "put" /\ Return(Nothing) /\ UNCHANGED <<cap, data, grows>>
  BY DEF FindMiss, Miss, store, flags
<1>2. ocap = 0 /\ req.key \in Keys /\ req \in Request
  BY <1>1, LookupHome DEF IndInv, TypeOK, Control
<1>3. \A a \in Slots : ~KeptAt(a, req.key)
  BY <1>1, MissMeans DEF KeptAt
<1>4. res' = Map!Found(req.key) /\ req.key \notin Map!Present
  BY <1>1, <1>2, <1>3, FoundNothing, ReturnIs
<1>5. Contents' = Contents /\ Contents[req.key] = <<"absent">>
  BY <1>1, <1>2, <1>3, MapStays, MapAbsent
<1>6. CASE req.op = "get"
  <2>1. Map!TakesEffect("get")
    BY <1>1, <1>2, <1>6, NotPlaced, MapEffect, ReturnIs
  <2>2. Map!Get
    BY <1>4, <1>5, <2>1 DEF Map!Get, Contents
  <2>. QED  BY <2>2 DEF Map!Next, Map!Effect
<1>7. CASE req.op = "remove"
  <2>1. Map!TakesEffect("remove")
    BY <1>1, <1>2, <1>7, NotPlaced, MapEffect, ReturnIs
  <2>2. Contents' = [Contents EXCEPT ![req.key] = Map!Absent]
    <3>1. Contents = [k \in Keys |-> Contents[k]]
      BY DEF Contents
    <3>. QED  BY <1>5, <3>1 DEF Map!Absent
  <2>3. Map!Remove
    BY <1>4, <2>1, <2>2 DEF Map!Remove, Contents
  <2>. QED  BY <2>3 DEF Map!Next, Map!Effect
<1>. QED  BY <1>1, <1>2, <1>6, <1>7 DEF Request

\* A table whose slots are all taken has as many keys as slots.
LEMMA FullTable ==
  ASSUME IndInv, pc = "lookup", size = cap
  PROVE  Cardinality(Map!Present) = cap
<1>. DEFINE f == [i \in Slots |-> data[table[i].di].key]
<1>1. ocap = 0 /\ Left = {} /\ cap \in Nat /\ \A i \in Slots : ~Pending(i) /\ ~IsHole(i)
  BY DEF IndInv, TypeOK, Control, Left, Pending, IsHole
<1>2. \A i \in Slots : table[i].hash # 0 /\ InTable(i)
  <2>1. IsFiniteSet(Slots) /\ Cardinality(Slots) = cap
    BY <1>1, FS_Interval DEF Slots
  <2>2. Taken \subseteq Slots /\ Cardinality(Taken) = cap
    BY DEF Taken, IndInv, SizeCounts
  <2>3. Taken = Slots
    BY <1>1, <2>1, <2>2, FS_Subset
  <2>. QED  BY <1>1, <2>3 DEF Taken, InTable
<1>3. \A i \in Slots : /\ table[i].di \in Slots /\ data[table[i].di] # NULL
                       /\ data[table[i].di].key \in Keys
  BY <1>1, <1>2 DEF IndInv, TypeOK, EntriesOwnDentries, Refers, Dentry
<1>4. \A i, j \in Slots : f[i] = f[j] => i = j
  <2>. SUFFICES ASSUME NEW i \in Slots, NEW j \in Slots, f[i] = f[j] PROVE i = j
    OBVIOUS
  <2>1. table[i].di = table[j].di
    BY <1>3 DEF IndInv, KeysUnique
  <2>. QED  BY <1>1, <1>2, <2>1 DEF IndInv, EntriesOwnDentries
<1>5. \A k : k \in Map!Present <=> \E i \in Slots : f[i] = k
  <2>1. ASSUME NEW k \in Map!Present PROVE \E i \in Slots : f[i] = k
    <3>1. k \in Keys
      BY DEF Map!Present
    <3>2. PICK a \in Slots : KeptAt(a, k)
      BY <3>1, MapPresent
    <3>3. PICK i \in Slots : table[i].di = a
      BY <1>1, <3>2 DEF IndInv, DentriesReached, KeptAt, Carrying
    <3>. QED  BY <3>2, <3>3 DEF KeptAt
  <2>2. ASSUME NEW i \in Slots PROVE f[i] \in Map!Present
    <3>1. f[i] \in Keys /\ KeptAt(table[i].di, f[i])
      BY <1>3 DEF KeptAt
    <3>. HIDE DEF f
    <3>. QED  BY <1>3, <3>1, MapPresent
  <2>. QED  BY <2>1, <2>2
<1>6. f \in Bijection(Slots, Map!Present)
  <2>1. f \in [Slots -> Map!Present]
    <3>1. \A i \in Slots : f[i] \in Map!Present
      BY <1>5
    <3>2. f = [i \in Slots |-> f[i]]
      OBVIOUS
    <3>. HIDE DEF f
    <3>. QED  BY <3>1, <3>2
  <2>. HIDE DEF f
  <2>. QED  BY <1>4, <1>5, <2>1 DEF Bijection, Injection, Surjection, IsInjective
<1>7. IsFiniteSet(Slots) /\ Cardinality(Slots) = cap
  BY <1>1, FS_Interval DEF Slots
<1>8. ExistsBijection(Slots, Map!Present)
  BY <1>6 DEF ExistsBijection
<1>. QED  BY <1>7, <1>8, FS_Bijection

LEMMA MapFullRefused ==
  ASSUME IndInv, Seeking, FullRefused
  PROVE  Map!Next
<1>1. /\ Miss /\ pc = "lookup" /\ req.op = "put" /\ grows = FALSE /\ Return(Nothing)
      /\ UNCHANGED <<cap, data, grows>>
  BY DEF FullRefused, Miss, store, flags, IndInv, TypeOK
<1>2. ocap = 0 /\ req.key \in Keys /\ size = cap /\ cap \in Nat /\ cap >= 4
  BY <1>1, LookupHome DEF IndInv, Control
<1>3. \A a \in Slots : ~KeptAt(a, req.key)
  BY <1>1, MissMeans DEF KeptAt
<1>4. req.key \notin Map!Present
  BY <1>2, <1>3, FoundNothing
<1>5. Contents' = Contents
  BY <1>1, MapStays
<1>6. Map!TakesEffect("put")
  BY <1>1, <1>2, NotPlaced, MapEffect, ReturnIs
<1>7. Cardinality(Map!Present) = cap
  BY <1>1, <1>2, FullTable
<1>8. res' = Map!Nothing
  BY <1>1, ReturnIs DEF Nothing, Map!Nothing
<1>. DEFINE limit == IF grows THEN 0 ELSE cap
<1>9. limit # 0 /\ Cardinality(Map!Present) = limit
  BY <1>1, <1>2, <1>7
<1>10. Map!Cardinality(Map!Present) = Cardinality(Map!Present)
  BY Zenon DEF Map!Cardinality, Cardinality
<1>11. Map!PutRefused
  BY <1>4, <1>5, <1>6, <1>8, <1>9, <1>10 DEF Map!PutRefused, Contents
<1>. QED  BY <1>11 DEF Map!Next, Map!Effect

\* The new dentry.
LEMMA MapPlace ==
  ASSUME IndInv, Place
  PROVE  Map!Next
<1>1. PICK a \in Slots :
        /\ FirstFree(a)
        /\ data' = [data EXCEPT ![a] = [key |-> req.key, val |-> req.arg]]
  BY DEF Place
<1>2. /\ pc = "place" /\ ocap = 0 /\ req \in Request /\ req.op = "put"
      /\ req.key \in Keys /\ req.arg \in Val /\ data[a] = NULL
  BY <1>1 DEF Place, IndInv, TypeOK, Control, Keyed, Request, FirstFree
<1>3. /\ UNCHANGED <<cap, grows>> /\ res' = [ok |-> TRUE, val |-> req.arg]
      /\ (req' = NoCall /\ placed' = FALSE) \/ (req' = req /\ placed' = TRUE)
  BY DEF Place, Return, flags
<1>4. IndInv'
  BY PlaceIndInv
<1>5. \A b \in Slots : ~KeptAt(b, req.key)
  BY <1>2 DEF IndInv, PuttingKey, KeptAt
<1>6. req.key \notin Map!Present
  BY <1>2, <1>5, FoundNothing
<1>7. /\ data'[a] = [key |-> req.key, val |-> req.arg] /\ data'[a] # NULL
      /\ \A b \in Slots : b # a => data'[b] = data[b]
  BY <1>1, <1>2, DataAssumption DEF IndInv, TypeOK
<1>8. Contents'[req.key] = req.arg
  <2>1. (IndInv => MapRight)'
    BY MapIsRight, PTL
  <2>2. a \in Slots'
    BY <1>3 DEF Slots
  <2>. QED  BY <1>2, <1>4, <1>7, <2>1, <2>2 DEF MapRight, KeptAt
<1>9. \A j \in Keys : j # req.key => Contents'[j] = Contents[j]
  BY <1>2, <1>3, <1>4, <1>7, MapElsewhere
<1>10. Contents' = [Contents EXCEPT ![req.key] = req.arg]
  <2>1. Contents = [k \in Keys |-> Contents[k]] /\ Contents' = [k \in Keys |-> Contents'[k]]
    BY DEF Contents
  <2>. QED  BY <1>8, <1>9, <2>1
<1>11. Map!TakesEffect("put")
  BY <1>2, <1>3, NotPlaced, MapEffect
<1>12. Map!PutNew
  BY <1>3, <1>6, <1>10, <1>11 DEF Map!PutNew, Contents
<1>. QED  BY <1>12 DEF Map!Next, Map!Effect

\* The dentry of the victim is freed, and its datum returned.
LEMMA MapShiftEnd ==
  ASSUME IndInv, Seeking, ShiftEnd
  PROVE  Map!Next
<1>. DEFINE v == victim.di
<1>1. /\ pc = "shift" /\ Return(Stored(v)) /\ UNCHANGED <<cap, grows>>
      /\ data' = [data EXCEPT ![v] = NULL]
  BY DEF ShiftEnd, flags
<1>2. ocap = 0 /\ v \in Slots /\ data[v] # NULL /\ data[v].key = req.key
  BY <1>1 DEF IndInv, Control, Vacating, Refers, Seeking
<1>3. req.key \in Keys /\ data \in [Slots -> Dentry \cup {NULL}]
  BY <1>2 DEF IndInv, TypeOK, Dentry
<1>. HIDE DEF v
<1>4. data'[v] = NULL /\ (\A b \in Slots : b # v => data'[b] = data[b]) /\ Slots' = Slots
  BY <1>1, <1>2, <1>3 DEF Slots
<1>5. IndInv'
  BY ShiftEndIndInv
<1>6. req.op = "remove"
  BY <1>1 DEF Seeking
<1>7. Map!TakesEffect("remove")
  BY <1>1, <1>2, <1>6, NotPlaced, MapEffect, ReturnIs
<1>8. res' = Map!Found(req.key)
  BY <1>1, <1>2, <1>3, FoundKept, ReturnIs DEF KeptAt
<1>9. Contents'[req.key] = <<"absent">>
  <2>1. \A b \in Slots' : ~(data'[b] # NULL /\ data'[b].key = req.key)
    BY <1>2, <1>4 DEF IndInv, KeysUnique
  <2>. QED  BY <1>3, <2>1 DEF Contents, MapOf
<1>10. \A j \in Keys : j # req.key => Contents'[j] = Contents[j]
  BY <1>1, <1>2, <1>3, <1>4, <1>5, MapElsewhere
<1>11. Contents' = [Contents EXCEPT ![req.key] = Map!Absent]
  <2>1. Contents = [k \in Keys |-> Contents[k]] /\ Contents' = [k \in Keys |-> Contents'[k]]
    BY DEF Contents
  <2>. QED  BY <1>9, <1>10, <2>1 DEF Map!Absent
<1>12. Map!Remove
  BY <1>7, <1>8, <1>11 DEF Map!Remove, Contents
<1>. QED  BY <1>12 DEF Map!Next, Map!Effect

\* A put whose table has grown returns.
LEMMA MapRehashDone ==
  ASSUME IndInv, RehashDone
  PROVE  Map!Next
<1>1. pc = "rehash" /\ ocap # 0 /\ placed /\ Return(res) /\ UNCHANGED <<cap, data, grows>>
  BY DEF RehashDone, AfterGrow, IndInv, Control, store, flags
<1>2. Contents' = Contents
  BY <1>1, MapStays
<1>3. req' = Map!NoCall
  BY <1>1, ReturnIs DEF NoCall, Map!NoCall
<1>4. Map!Return
  BY <1>1, <1>2, <1>3, ReturnIs DEF Map!Return, Contents
<1>. QED  BY <1>4 DEF Map!Next

LEMMA MapStep ==
  ASSUME Sane, IndInv, Seeking, [Next]_vars
  PROVE  [Map!Next]_(Map!vars)
<1>1. CASE Ctl
  BY <1>1, MapCtl
<1>2. CASE Clean \/ Free
  BY <1>2, MapClean
<1>3. CASE Restore
  BY <1>3, MapRestore
<1>4. ASSUME NEW r \in Calls, CallPut(r) \/ CallFind(r) PROVE [Map!Next]_(Map!vars)
  BY <1>4, MapCall
<1>5. CASE Lookup
  <2>1. CASE GetHit
    BY <2>1, MapGetHit
  <2>2. CASE FindMiss
    BY <2>2, MapFindMiss
  <2>3. CASE FullHit
    BY <2>3, MapFound DEF Sane
  <2>4. CASE FullRefused
    BY <2>4, MapFullRefused
  <2>5. CASE LookupNext \/ RemoveHit \/ FullHitDie \/ FullGrow
    BY <2>5, MapSilent
  <2>. QED  BY <1>5, <2>1, <2>2, <2>3, <2>4, <2>5 DEF Lookup
<1>6. CASE Probe
  <2>1. CASE ProbeFound
    BY <2>1, MapFound DEF Sane
  <2>2. CASE ProbeEmpty \/ ProbeSwap \/ ProbeNext
    BY <2>2, MapSilent
  <2>. QED  BY <1>6, <2>1, <2>2 DEF Probe
<1>7. CASE Place
  BY <1>7, MapPlace
<1>8. CASE Rehash
  <2>1. CASE Grow
    BY <2>1, MapGrow
  <2>2. CASE RehashSkip \/ RehashTake
    BY <2>2, MapSilent
  <2>3. CASE RehashDone
    BY <2>3, MapRehashDone
  <2>4. CASE GrowFails
    BY <2>4 DEF GrowFails, Sane
  <2>. QED  BY <1>8, <2>1, <2>2, <2>3, <2>4 DEF Rehash
<1>9. CASE Shift
  BY <1>9, MapSilent
<1>10. CASE ShiftEnd
  BY <1>10, MapShiftEnd
<1>11. CASE UNCHANGED vars
  BY <1>11, MapSilent
<1>. QED  BY <1>1, <1>2, <1>3, <1>4, <1>5, <1>6, <1>7, <1>8, <1>9, <1>10, <1>11 DEF Next, Step

LEMMA MapInit == Init => Map!Init
<1>. SUFFICES ASSUME Init PROVE Map!Init
  OBVIOUS
<1>1. \A a \in Slots : data[a] = NULL
  BY DEF Init
<1>2. Contents = [k \in Keys |-> Map!Absent]
  BY <1>1, MapEmpty
<1>3. cap \in Nat \ {0} /\ grows = FALSE /\ placed = FALSE
  BY SizeAssumption DEF Init
<1>4. req = Map!NoCall /\ res = Map!Nothing
  BY DEF Init, NoCall, Map!NoCall, Nothing, Map!Nothing
<1>. QED  BY <1>2, <1>3, <1>4 DEF Map!Init, Contents

\* Every answer of n_oash_put, get and remove is that of a map that changes in
\* one step: the early exits of ohash_get_entry miss no key, no swap, shift or
\* rehash shows, a key that is there is recognised wherever the probe loop
\* meets it, and a new one is refused only by a full table that may not grow.
THEOREM AnswersAreRight == ASSUME Sane PROVE Spec => NeverWrong
<1>1. Init => Seeking /\ Map!Init
  BY MapInit DEF Seeking, Init
<1>2. IndInv /\ Seeking /\ [Next]_vars => Seeking'
  BY SeekingNext
<1>3. IndInv /\ Seeking /\ [Next]_vars => [Map!Next]_(Map!vars)
  BY MapStep
<1>. QED  BY <1>1, <1>2, <1>3, Invariance, PTL DEF Spec, NeverWrong
=============================================================================
