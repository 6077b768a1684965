-------------------------------- MODULE Oash --------------------------------
(***************************************************************************)
(* noash.c: the open addressing hash table of trurlib, a Robin Hood table  *)
(* of small entries that index into an array of data entries (dentries).   *)
(*                                                                         *)
(* One action per iteration of each loop that walks or moves table         *)
(* entries, so that what holds is stated of every intermediate table: the  *)
(* carried entry of n_oash_put_entry, the half filled table of             *)
(* ohash_rehash and the hole n_oash_remove shifts towards the end of a run *)
(* are all states here.  pc says which loop is running.                    *)
(*                                                                         *)
(* An operator called Bug... is the operator defined after it with a       *)
(* mistake the code might have had; no action uses it.  It serves to see   *)
(* that the properties at the end of the module would notice.              *)
(***************************************************************************)
EXTENDS Integers, Sequences, FiniteSets

CONSTANTS
  Keys,          \* the keys of the callers
  Data,          \* the data pointers of the callers
  NULL,          \* the null pointer
  HashOf,        \* n_oash_compute_hash: never 0, which marks an empty slot
  KLen,          \* the length of each key
  Prefix,        \* <<k, l>> when strncmp(k, l, length of k) = 0
  InitCaps,      \* the capacities a table is created with
  MaxCap,        \* bound: no call that may grow the table beyond it is made
  CtlFlags,      \* the flags the callers set with n_oash_ctl
  PslMod,        \* 2^16, the modulus of the uint16_t psl
  DsizeMod,      \* 2^32, the modulus of the uint32_t dsize
  CallocMayFail  \* a failure hook may return, so that n_calloc gives NULL

Modes == {"die", "keep", "replace"}
Val   == Data \cup {NULL}

\* A key is the prefix of itself and of no other key of its own length.
ASSUME KeysAssumption ==
  /\ HashOf \in [Keys -> Nat \ {0}]
  /\ KLen \in [Keys -> Nat \ {0}]
  /\ Prefix \subseteq Keys \X Keys
  /\ \A k \in Keys : <<k, k>> \in Prefix
  /\ \A k, l \in Keys : <<k, l>> \in Prefix /\ KLen[k] = KLen[l] => k = l

\* NULL is no datum and no dentry, and no datum is the mark of an absent key.
ASSUME DataAssumption ==
  NULL \notin Data /\ NULL \notin [key : Keys, val : Val] /\ <<"absent">> \notin Val

\* ohash_new2 rounds the requested size up to a power of two, at least 4, so
\* that masking with cap - 1 is the remainder modulo cap.  A table of more
\* than PslMod slots is beyond the bound.
ASSUME SizeAssumption ==
  /\ InitCaps \subseteq {n \in Nat : 4 <= n /\ n <= MaxCap}
  /\ MaxCap \in Nat /\ PslMod \in Nat /\ MaxCap <= PslMod
  /\ DsizeMod \in Nat \ {0}
  /\ CtlFlags \subseteq {"REHASH", "NOREPLACE"}
  /\ CallocMayFail \in BOOLEAN

VARIABLES
  cap,       \* ht->cap, and ht->dcap, which is always equal to it
  table,     \* ht->table
  size,      \* ht->size
  data,      \* ht->data, with the dentries it points to
  dsize,     \* ht->dsize
  grows,     \* TN_HASH_REHASH is set
  norepl,    \* TN_HASH_NOREPLACE is set
  pc,        \* the loop that is running
  req,       \* the call in progress: operation, key, data and mode
  res,       \* the answer, Nothing while the call has none
  placed,    \* n_oash_put: the new dentry is stored, de is not NULL
  index,     \* the table index under inspection (index, i)
  np,        \* ohash_get_entry: probes made
  entry,     \* n_oash_put_entry: the entry being carried
  re,        \* n_oash_put_entry: where the new entry went, -1 is NULL
  ocap,      \* ohash_rehash: oldsize, 0 when not rehashing
  old,       \* ohash_rehash: oldtable
  oi,        \* ohash_rehash: the next index in oldtable
  victim,    \* n_oash_remove: ee, the entry being removed
  hole       \* n_oash_remove: iprev

store    == <<cap, table, size, data, dsize>>
flags    == <<grows, norepl>>
find     == <<index, np>>
carry    == <<entry, re>>
moving   == <<ocap, old, oi>>
removal  == <<victim, hole>>
locals   == <<find, carry, moving, removal, placed>>
vars     == <<store, flags, pc, req, res, locals>>

(***************************************************************************)
(* Entries, slots and calls                                                *)
(***************************************************************************)
Slots   == 0 .. cap - 1
Entry   == [hash : Nat, klen : Nat, psl : Nat, di : Nat]
Dentry  == [key : Keys, val : Val]
Request == [op : {"put", "get", "remove"}, key : Keys, arg : Val, mode : Modes]
NoCall  == [op |-> "none", key |-> NULL, arg |-> NULL, mode |-> "none"]
Answer  == [ok : BOOLEAN, val : Val]
Nothing == [ok |-> FALSE, val |-> NULL]

\* The calls of the interface: n_oash_get_insert (keep) always passes NULL
\* data; get and remove pass neither data nor a mode.
Calls == {r \in Request : /\ r.mode = "keep" => r.arg = NULL
                          /\ r.op # "put" => r.mode = "keep"}

\* An empty slot has hash 0; its other fields are never read.
Empty    == [hash |-> 0, klen |-> 0, psl |-> 0, di |-> 0]
NoTable  == [i \in 0 .. -1 |-> Empty]
Fresh(k) == [hash |-> HashOf[k], klen |-> KLen[k], psl |-> 0, di |-> 0]

Home(c, h) == h % c                               \* tindex(c, h)

After(c, i)     == IF i + 1 = c THEN 0 ELSE i + 1 \* tindex(c, i + 1)

\* psldiff: how far slot "to" is from slot "from", walking up and around a
\* table of c slots.
Dist(c, from, to) == IF from <= to THEN to - from ELSE to + (c - from)

\* n_oash_put_entry gets a key from n_oash_put and NULL from ohash_rehash.
Keyed == ocap = 0

TypeOK ==
  /\ cap \in Nat /\ 4 <= cap /\ cap <= MaxCap
  /\ table \in [Slots -> Entry]
  /\ size \in 0 .. cap
  /\ data \in [Slots -> Dentry \cup {NULL}]
  /\ dsize \in 0 .. DsizeMod - 1
  /\ grows \in BOOLEAN /\ norepl \in BOOLEAN
  /\ pc \in {"idle", "lookup", "probe", "place", "grow", "rehash", "shift", "dead"}
  /\ IF pc = "idle" THEN req = NoCall ELSE req \in Request
  /\ res \in Answer
  /\ placed \in BOOLEAN
  /\ index \in Slots /\ np \in Nat
  /\ entry \in Entry /\ re \in -1 .. cap - 1
  /\ ocap \in Nat /\ (ocap = 0 \/ cap = 2 * ocap)
  /\ old \in [0 .. ocap - 1 -> Entry] /\ oi \in 0 .. ocap
  /\ victim \in Entry /\ hole \in Slots

Init ==
  /\ cap \in InitCaps
  /\ table = [i \in Slots |-> Empty] /\ size = 0
  /\ data = [a \in Slots |-> NULL] /\ dsize = 0
  /\ grows = FALSE /\ norepl = FALSE
  /\ pc = "idle" /\ req = NoCall /\ res = Nothing /\ placed = FALSE
  /\ index = 0 /\ np = 0 /\ entry = Empty /\ re = -1
  /\ ocap = 0 /\ old = NoTable /\ oi = 0
  /\ victim = Empty /\ hole = 0

\* The call returns: its local variables are gone.
Return(answer) ==
  /\ pc' = "idle" /\ req' = NoCall /\ res' = answer /\ placed' = FALSE
  /\ index' = 0 /\ np' = 0 /\ entry' = Empty /\ re' = -1
  /\ ocap' = 0 /\ old' = NoTable /\ oi' = 0
  /\ victim' = Empty /\ hole' = 0

(***************************************************************************)
(* n_oash_ctl, refused unless the table is empty; the call of each         *)
(* operation, up to its first loop                                         *)
(***************************************************************************)
Ctl ==
  /\ pc = "idle" /\ size = 0
  /\ \E f \in SUBSET CtlFlags :
       /\ grows' = (grows \/ "REHASH" \in f)
       /\ norepl' = (norepl \/ "NOREPLACE" \in f)
  /\ UNCHANGED <<store, pc, req, res, locals>>

StartLookup(k) ==
  /\ pc' = "lookup"
  /\ index' = Home(cap, HashOf[k]) /\ np' = 0

\* An entry of the old table keeps the psl it had there.
StartProbe(e) ==
  /\ pc' = "probe"
  /\ entry' = [e EXCEPT !.psl = 0] /\ index' = Home(cap, e.hash) /\ re' = -1

\* A table of n entries grows.
AtLimit(n) == grows /\ cap - n <= cap \div 3

CallPut(r) ==
  /\ pc = "idle" /\ r.op = "put"
  /\ ~ (r.mode = "replace" /\ norepl)
  /\ AtLimit(size + 1) => 2 * cap <= MaxCap
  /\ req' = r /\ res' = Nothing
  /\ IF size = cap
     THEN StartLookup(r.key) /\ UNCHANGED carry
     ELSE StartProbe(Fresh(r.key)) /\ UNCHANGED np
  /\ UNCHANGED <<store, flags, placed, moving, removal>>

CallFind(r) ==
  /\ pc = "idle" /\ r.op # "put"
  /\ req' = r /\ res' = Nothing
  /\ StartLookup(r.key)
  /\ UNCHANGED <<store, flags, placed, carry, moving, removal>>

(***************************************************************************)
(* ohash_get_entry                                                         *)
(***************************************************************************)
\* An entry at home ends the run even at the slot the lookup starts from.
BugHomeEnds ==
  LET e == table[index] IN
  e.hash = 0 \/ np > Dist(cap, Home(cap, e.hash), index) \/ e.psl = 0

\* An entry as far from home as the lookup has come ends the run.
BugTieEnds ==
  LET e == table[index] IN
  e.hash = 0 \/ np >= Dist(cap, Home(cap, e.hash), index)

RunEnds ==
  LET e == table[index] IN
  \/ e.hash = 0
  \/ np > Dist(cap, Home(cap, e.hash), index)
  \/ index # Home(cap, HashOf[req.key]) /\ e.psl = 0

SameKey ==
  LET e == table[index] IN
  e.hash = HashOf[req.key] /\ e.klen = KLen[req.key] /\ data[e.di].key = req.key

LookupNext ==
  /\ pc = "lookup" /\ ~RunEnds /\ ~SameKey
  /\ np' = np + 1 /\ index' = After(cap, index)
  /\ UNCHANGED <<store, flags, pc, req, res, placed, carry, moving, removal>>

Hit  == pc = "lookup" /\ ~RunEnds /\ SameKey
Miss == pc = "lookup" /\ RunEnds

Stored(a) == [ok |-> TRUE, val |-> data[a].val]

GetHit ==
  /\ Hit /\ req.op = "get"
  /\ Return(Stored(table[index].di))
  /\ UNCHANGED <<store, flags>>

FindMiss ==
  /\ Miss /\ req.op # "put"
  /\ Return(Nothing)
  /\ UNCHANGED <<store, flags>>

\* PUT_KEEP overwrites as well.
BugKeepOverwrites(a) ==
  /\ req.mode # "die"
  /\ data' = [data EXCEPT ![a].val = req.arg]
  /\ Return([ok |-> TRUE, val |-> req.arg])
  /\ UNCHANGED <<cap, table, size, dsize, flags>>

\* PUT_REPLACE and PUT_KEEP on a key whose dentry is data[a].
Update(a) ==
  \/ /\ req.mode = "keep"
     /\ Return(Stored(a))
     /\ UNCHANGED <<store, flags>>
  \/ /\ req.mode = "replace"
     /\ data' = [data EXCEPT ![a].val = req.arg]
     /\ Return([ok |-> TRUE, val |-> req.arg])
     /\ UNCHANGED <<cap, table, size, dsize, flags>>

(***************************************************************************)
(* n_oash_put on a table whose slots are all taken (cap == size)           *)
(***************************************************************************)
FullHit == Hit /\ req.op = "put" /\ Update(table[index].di)

\* PUT_DIE goes on to the probe loop, which finds the key again.
FullHitDie ==
  /\ Hit /\ req.op = "put" /\ req.mode = "die"
  /\ StartProbe(Fresh(req.key))
  /\ UNCHANGED <<store, flags, req, res, placed, np, moving, removal>>

FullRefused ==
  /\ Miss /\ req.op = "put" /\ ~grows
  /\ Return(Nothing)
  /\ UNCHANGED <<store, flags>>

FullGrow ==
  /\ Miss /\ req.op = "put" /\ grows
  /\ pc' = "grow"
  /\ UNCHANGED <<store, flags, req, res, locals>>

(***************************************************************************)
(* n_oash_put_entry, one iteration of its loop                             *)
(***************************************************************************)
\* Only the pointers are compared (ekey == key), and the keys are copies.
BugSamePointer == FALSE

\* The loop compares the slot with the entry it carries, which after a swap
\* is no longer the entry of the key it was given.
SlotIsKey ==
  LET e == table[index] IN
  /\ Keyed
  /\ e.hash = entry.hash /\ e.klen = entry.klen
  /\ <<data[e.di].key, req.key>> \in Prefix

Probing == pc = "probe" /\ table[index].hash # 0

\* An entry as far from home as the carried one gives way as well.
BugTieSwaps == entry.psl >= table[index].psl
GivesWay    == entry.psl > table[index].psl

ProbeEmpty ==
  /\ pc = "probe" /\ table[index].hash = 0
  /\ size' = size + 1
  /\ table' = [table EXCEPT ![index] = entry]
  /\ re' = IF re = -1 THEN index ELSE re
  /\ pc' = IF Keyed THEN "place" ELSE "rehash"
  /\ UNCHANGED <<cap, data, dsize, flags, req, res, placed, find, entry, moving, removal>>

ProbeSwap ==
  /\ Probing /\ ~SlotIsKey
  /\ GivesWay
  /\ table' = [table EXCEPT ![index] = entry]
  /\ re' = IF re = -1 THEN index ELSE re
  /\ entry' = [table[index] EXCEPT !.psl = (@ + 1) % PslMod]
  /\ index' = After(cap, index)
  /\ UNCHANGED <<cap, size, data, dsize, flags, pc, req, res, placed, np, moving, removal>>

ProbeNext ==
  /\ Probing /\ ~SlotIsKey
  /\ ~GivesWay
  /\ entry' = [entry EXCEPT !.psl = (@ + 1) % PslMod]
  /\ index' = After(cap, index)
  /\ UNCHANGED <<store, flags, pc, req, res, placed, np, re, moving, removal>>

\* The key is there: PUT_DIE reports it, unless the program stops because
\* n_assert(re == NULL) fails.
ProbeFound ==
  /\ Probing /\ SlotIsKey
  /\ IF re # -1
     THEN pc' = "dead" /\ UNCHANGED <<store, flags, req, res, locals>>
     ELSE \/ Update(table[index].di)
          \/ /\ req.mode = "die"
             /\ Return(Nothing)
             /\ UNCHANGED <<store, flags>>

(***************************************************************************)
(* new_dentry and put_dentry, then the rest of n_oash_put                  *)
(***************************************************************************)
\* put_dentry takes the first free slot from dsize on, going around.
FirstFree(a) ==
  LET start == dsize % cap IN
  /\ data[a] = NULL
  /\ \A b \in Slots : data[b] = NULL => Dist(cap, start, a) <= Dist(cap, start, b)

Place ==
  /\ pc = "place"
  /\ \E a \in Slots :
       /\ FirstFree(a)
       /\ data' = [data EXCEPT ![a] = [key |-> req.key, val |-> req.arg]]
       /\ table' = [table EXCEPT ![re].di = a]
  /\ dsize' = (dsize + 1) % DsizeMod
  /\ LET answer == [ok |-> TRUE, val |-> req.arg] IN
     IF AtLimit(size)
     THEN /\ pc' = "grow" /\ placed' = TRUE /\ res' = answer
          /\ UNCHANGED <<req, find, carry, moving, removal>>
     ELSE Return(answer)
  /\ UNCHANGED <<cap, size, flags>>

(***************************************************************************)
(* ohash_rehash and realloc_data                                           *)
(***************************************************************************)
Grow ==
  /\ pc = "grow"
  /\ cap' = 2 * cap
  /\ table' = [i \in 0 .. 2 * cap - 1 |-> Empty]
  /\ data' = [a \in 0 .. 2 * cap - 1 |-> IF a < cap THEN data[a] ELSE NULL]
  /\ size' = 0
  /\ ocap' = cap /\ old' = table /\ oi' = 0
  /\ pc' = "rehash"
  /\ UNCHANGED <<dsize, flags, req, res, placed, find, carry, removal>>

\* What n_oash_put does after ohash_rehash.  In the branch of the full table
\* ee is still NULL, and get_dentry(ht, ee) dereferences it.
AfterGrow ==
  IF placed
  THEN Return(res)
  ELSE IF req.mode = "die"
       THEN /\ StartProbe(Fresh(req.key))
            /\ ocap' = 0 /\ old' = NoTable /\ oi' = 0
            /\ UNCHANGED <<req, res, placed, np, removal>>
       ELSE pc' = "dead" /\ UNCHANGED <<req, res, locals>>

\* ohash_rehash gives up when it gets no new table.
GrowFails ==
  /\ CallocMayFail
  /\ pc = "grow"
  /\ AfterGrow
  /\ UNCHANGED <<store, flags>>

RehashSkip ==
  /\ pc = "rehash" /\ oi < ocap /\ old[oi].hash = 0
  /\ oi' = oi + 1
  /\ UNCHANGED <<store, flags, pc, req, res, placed, find, carry, ocap, old, removal>>

RehashTake ==
  /\ pc = "rehash" /\ oi < ocap /\ old[oi].hash # 0
  /\ StartProbe(old[oi])
  /\ oi' = oi + 1
  /\ UNCHANGED <<store, flags, req, res, placed, np, ocap, old, removal>>

\* The last slot of the old table is forgotten.
BugLastSlot ==
  /\ pc = "rehash" /\ oi = ocap - 1
  /\ AfterGrow
  /\ UNCHANGED <<store, flags>>

RehashDone ==
  /\ pc = "rehash" /\ oi = ocap
  /\ AfterGrow
  /\ UNCHANGED <<store, flags>>

(***************************************************************************)
(* n_oash_remove: entries of the run move one slot down                    *)
(***************************************************************************)
\* The slot is cleared and the run left as it is.
RunOver    == table[index].hash = 0 \/ table[index].psl = 0

RemoveHit ==
  /\ Hit /\ req.op = "remove"
  /\ victim' = table[index] /\ hole' = index
  /\ index' = After(cap, index)
  /\ pc' = "shift"
  /\ UNCHANGED <<store, flags, req, res, placed, np, carry, moving>>

Shift ==
  /\ pc = "shift" /\ ~RunOver
  /\ LET e == [table[index] EXCEPT !.psl = @ - 1] IN
     table' = [table EXCEPT ![index] = e, ![hole] = e]
  /\ hole' = index /\ index' = After(cap, index)
  /\ UNCHANGED <<cap, size, data, dsize, flags, pc, req, res, placed, np, carry, moving, victim>>

ShiftEnd ==
  /\ pc = "shift" /\ RunOver
  /\ table' = [table EXCEPT ![hole] = Empty]
  /\ data' = [data EXCEPT ![victim.di] = NULL]
  /\ dsize' = (dsize - 1) % DsizeMod
  /\ size' = size - 1
  /\ Return(Stored(victim.di))
  /\ UNCHANGED <<cap, flags>>

(***************************************************************************)
(* n_oash_clean; n_oash_store and n_oash_restore, after which the program  *)
(* goes on with the restored table                                         *)
(***************************************************************************)
Referenced(a) == \E i \in Slots : table[i].hash # 0 /\ table[i].di = a

Clean ==
  /\ pc = "idle"
  /\ table' = [i \in Slots |-> Empty]
  /\ data' = [a \in Slots |-> IF Referenced(a) THEN NULL ELSE data[a]]
  /\ size' = 0 /\ dsize' = 0
  /\ UNCHANGED <<cap, flags, pc, req, res, locals>>

\* The restored table has the stored slots and dentries, and a dsize of 0.
Restore ==
  /\ pc = "idle"
  /\ data' = [a \in Slots |-> IF Referenced(a) THEN data[a] ELSE NULL]
  /\ dsize' = 0
  /\ UNCHANGED <<cap, table, size, flags, pc, req, res, locals>>

\* n_oash_free frees every dentry and both arrays; the program makes another
\* table with n_oash_new, with the same flags and, if it may not grow, as large.
Free ==
  /\ pc = "idle"
  /\ cap' \in InitCaps /\ (~grows => cap' = cap)
  /\ table' = [i \in 0 .. cap' - 1 |-> Empty] /\ size' = 0
  /\ data' = [a \in 0 .. cap' - 1 |-> NULL] /\ dsize' = 0
  /\ Return(res)
  /\ UNCHANGED flags

(***************************************************************************)
(* The walks over the whole table, which change nothing: n_oash_keys,      *)
(* n_oash_values, n_oash_map and n_oash_dump go through the taken slots in *)
(* their order; n_oash_stats counts                                        *)
(***************************************************************************)
TakenEntry(e) == e.hash # 0

\* The walk stops after size slots.
BugWalked == SelectSeq([i \in 1 .. size |-> table[i - 1]], TakenEntry)
Walked    == SelectSeq([i \in 1 .. cap |-> table[i - 1]], TakenEntry)

KeysWalked == [j \in 1 .. Len(Walked) |-> data[Walked[j].di].key]
Mapped     == Len(Walked)                 \* n of n_oash_map and n_oash_dump

\* n_oash_it_get goes on from pos to the next taken slot, cap when there is
\* none.  (At the end it reads the slot behind the last, and stops whatever is
\* there.)
ItPlace(pos) ==
  CHOOSE i \in pos .. cap : /\ i = cap \/ TakenEntry(table[i])
                            /\ \A j \in pos .. i - 1 : ~TakenEntry(table[j])
Iterated[pos \in 0 .. cap] ==
  IF ItPlace(pos) = cap THEN <<>> ELSE <<table[ItPlace(pos)]>> \o Iterated[ItPlace(pos) + 1]

\* empty_len_sum, empty_blocks, pslsum and maxpsl of the first n slots.
Stats[n \in 0 .. cap] ==
  IF n = 0 THEN [emptyLen |-> 0, blocks |-> 0, psls |-> 0, maxpsl |-> 0]
  ELSE LET s == Stats[n - 1]
           e == table[n - 1]
       IN IF e.hash = 0
          THEN [s EXCEPT !.emptyLen = @ + 1,
                         !.blocks = IF n = 1 \/ table[n - 2].hash # 0 THEN @ + 1 ELSE @]
          ELSE [s EXCEPT !.psls = @ + e.psl,
                         !.maxpsl = IF e.psl > @ THEN e.psl ELSE @]

Lookup == \/ LookupNext \/ GetHit \/ FindMiss \/ RemoveHit
          \/ FullHit \/ FullHitDie \/ FullRefused \/ FullGrow
Probe  == ProbeEmpty \/ ProbeSwap \/ ProbeNext \/ ProbeFound
Rehash == Grow \/ GrowFails \/ RehashSkip \/ RehashTake \/ RehashDone
Step   == Lookup \/ Probe \/ Place \/ Rehash \/ Shift \/ ShiftEnd

Next ==
  \/ Ctl \/ Clean \/ Restore \/ Free
  \/ \E r \in Calls : CallPut(r) \/ CallFind(r)
  \/ Step

\* A loop that can take its next step takes it: the code never waits.
Spec     == Init /\ [][Next]_vars
FairSpec == Spec /\ WF_vars(Step)

-----------------------------------------------------------------------------
(***************************************************************************)
(* What must hold of the table and of the dentries                         *)
(***************************************************************************)
\* The slot n_oash_remove is about to overwrite or to clear holds no entry.
IsHole(i)  == pc = "shift" /\ i = hole
InTable(i) == table[i].hash # 0 /\ ~IsHole(i)
HomeOf(i)  == Home(cap, table[i].hash)

\* The slot of the new entry has no dentry yet.
Pending(i) == pc \in {"probe", "place"} /\ Keyed /\ i = re

\* An entry that is carried along the probe sequence is in no slot.
Carrying == pc = "probe"

\* Between any two operations and within each loop, an entry's psl is its
\* distance from its home slot (the assertion left in a comment at
\* noash.c:724): ohash_get_entry stops on what psl and psldiff say.
PslAccurate ==
  /\ \A i \in Slots : InTable(i) => table[i].psl = Dist(cap, HomeOf(i), i)
  /\ Carrying => entry.hash # 0 /\ entry.psl = Dist(cap, Home(cap, entry.hash), index)

\* The Robin Hood order, in the form the early exits of ohash_get_entry rely
\* on: every slot between an entry's home and the entry is taken, by an entry
\* at least as far from its own home as the walk has come.  The same holds
\* of the slots a carried entry has passed.
RobinHood ==
  /\ \A i, j \in Slots :
       InTable(i) /\ ~IsHole(j) /\ Dist(cap, HomeOf(i), j) <= table[i].psl
         => table[j].hash # 0 /\ table[j].psl >= Dist(cap, HomeOf(i), j)
  /\ Carrying =>
       \A j \in Slots : Dist(cap, Home(cap, entry.hash), j) < entry.psl
         => table[j].hash # 0 /\ table[j].psl >= Dist(cap, Home(cap, entry.hash), j)

\* An entry refers to a dentry whose key has the entry's hash and length.
Refers(e) ==
  /\ e.di \in Slots /\ data[e.di] # NULL
  /\ e.hash = HashOf[data[e.di].key] /\ e.klen = KLen[data[e.di].key]

\* What n_oash_put carries before its first swap is the entry of the new key;
\* after it, and in ohash_rehash, an entry that has a dentry.
CarriesNew == Carrying /\ Keyed /\ re = -1

Left == {i \in 0 .. ocap - 1 : oi <= i /\ old[i].hash # 0}

\* Every entry, in the table, carried or left in the old table, refers to a
\* dentry of its own.  (An entry in no dentry would make entry_key of
\* n_oash_put_entry read through a null pointer.)
EntriesOwnDentries ==
  /\ \A i \in Slots : table[i].hash # 0 /\ ~Pending(i) => Refers(table[i])
  /\ \A i, j \in Slots :
       /\ i # j /\ InTable(i) /\ InTable(j) /\ ~Pending(i) /\ ~Pending(j)
       => table[i].di # table[j].di
  /\ Carrying /\ ~CarriesNew =>
       /\ Refers(entry)
       /\ \A i \in Slots : InTable(i) /\ ~Pending(i) => table[i].di # entry.di
       /\ \A i \in Left : old[i].di # entry.di
  /\ \A i \in Left :
       /\ Refers(old[i])
       /\ \A j \in Slots : InTable(j) /\ ~Pending(j) => table[j].di # old[i].di
       /\ \A j \in Left : i # j => old[i].di # old[j].di

\* Every dentry is reached by an entry: none is leaked, and none is left
\* behind in a table it can no longer be found in.
DentriesReached ==
  \A a \in Slots : data[a] # NULL =>
    \/ \E i \in Slots : InTable(i) /\ ~Pending(i) /\ table[i].di = a
    \/ Carrying /\ ~CarriesNew /\ entry.di = a
    \/ \E i \in Left : old[i].di = a
    \/ pc = "shift" /\ victim.di = a

\* n_oash_put never stores a second dentry for a key.
KeysUnique ==
  \A a, b \in Slots :
    data[a] # NULL /\ data[b] # NULL /\ data[a].key = data[b].key => a = b

\* size counts the slots that are taken: while it is below cap, a probe ends
\* at an empty slot.
Taken == {i \in Slots : table[i].hash # 0}
SizeCounts == size = Cardinality(Taken)

\* No call dereferences the null ee of noash.c:378 and 382, and the assertion
\* at noash.c:277 holds: the key is never recognised after a swap.
NeverDead == pc # "dead"

\* A table that may grow is never full (noash.c:405), so that the branch for
\* a full table is never taken by it.
RoomToSpare ==
  grows /\ pc \in {"idle", "lookup", "probe", "shift"} /\ Keyed => cap - size > cap \div 3

\* The table is a Robin Hood table, and it and the dentries are one.
TableOK ==
  /\ PslAccurate /\ RobinHood /\ EntriesOwnDentries /\ DentriesReached
  /\ KeysUnique /\ SizeCounts

\* The uint16_t psl of an entry never wraps, and the probe loop never comes
\* around to where it started.
PslFits ==
  /\ Carrying => entry.psl < cap
  /\ \A i \in Slots : table[i].psl < cap

-----------------------------------------------------------------------------
(***************************************************************************)
(* The strengthening that makes the invariants above inductive             *)
(***************************************************************************)
\* Which variables go with which loop.
Control ==
  /\ ocap # 0 => pc \in {"rehash", "probe"}
  /\ pc = "rehash" => ocap # 0
  /\ placed <=> pc = "grow" \/ ocap # 0
  /\ pc = "place" => re # -1
  /\ pc \in {"probe", "place"} /\ Keyed => req.op = "put"
  /\ pc = "lookup" /\ req.op = "put" => size = cap

\* The slot being vacated still looks taken, and only it has the victim.
Vacating ==
  pc = "shift" =>
    /\ index = After(cap, hole) /\ table[hole].hash # 0
    /\ Refers(victim)
    /\ \A i \in Slots : InTable(i) => table[i].di # victim.di

\* Some slot other than the new entry's own holds the key being put.
HoldsKey(i) ==
  table[i].hash # 0 /\ ~Pending(i) /\ data[table[i].di].key = req.key

\* While a key is being put: what is carried first, and what was put in slot
\* re, is its entry; if the key is there already the loop has not come past
\* it, and nothing was swapped; else no dentry has the key.
PuttingKey ==
  /\ CarriesNew => entry.hash = HashOf[req.key] /\ entry.klen = KLen[req.key]
  /\ pc \in {"probe", "place"} /\ Keyed /\ re # -1 =>
       table[re].hash = HashOf[req.key] /\ table[re].klen = KLen[req.key]
  /\ Carrying /\ Keyed =>
       /\ \A i \in Slots : HoldsKey(i) => re = -1 /\ entry.psl <= table[i].psl
       /\ re # -1 => data[entry.di].key # req.key
  /\ pc = "place" => \A a \in Slots : data[a] # NULL => data[a].key # req.key

\* A probe loop runs into an empty slot before it is back at slot re; only
\* PUT_DIE on a key that is there probes a full table.
ProbeEnds ==
  /\ Carrying /\ size = cap => CarriesNew /\ \E i \in Slots : HoldsKey(i)
  /\ Carrying /\ re # -1 =>
       /\ index # re
       /\ \A j \in Slots : Dist(cap, re, j) < Dist(cap, re, index) => table[j].hash # 0

\* The new table of ohash_rehash holds no more than was taken from the old one.
Growing ==
  /\ ocap # 0 => size <= oi /\ (Carrying => size < oi)
  /\ pc = "grow" => 2 * cap <= MaxCap
  /\ pc = "place" /\ AtLimit(size) => 2 * cap <= MaxCap
  /\ Carrying /\ Keyed /\ AtLimit(size + 1) => 2 * cap <= MaxCap

IndInv ==
  /\ TypeOK /\ Control
  /\ PslAccurate /\ RobinHood /\ PslFits
  /\ EntriesOwnDentries /\ DentriesReached /\ KeysUnique /\ Vacating
  /\ SizeCounts /\ PuttingKey /\ ProbeEnds /\ Growing /\ RoomToSpare
  /\ NeverDead

\* A table that may not grow keeps the invariant whatever memory it gets.
FixedOK == ~grows => IndInv

\* Between calls, what the walks return is the table: size entries, in which
\* each key that is stored is met once, as by an iterator; the empty slots are
\* counted, in no more blocks than entries and one can part, and no probe is
\* longer than a walk around the table.
WalksAgree ==
  pc = "idle" =>
    /\ Mapped = size /\ Iterated[0] = Walked
    /\ \A a \in Slots : data[a] # NULL =>
         Cardinality({j \in 1 .. Mapped : KeysWalked[j] = data[a].key}) = 1
    /\ LET s == Stats[cap] IN
         /\ s.emptyLen + size = cap
         /\ s.blocks <= s.emptyLen /\ s.blocks <= size + 1
         /\ s.psls <= size * s.maxpsl /\ s.maxpsl < cap

-----------------------------------------------------------------------------
\* The map the dentries hold.
MapOf(k) ==
  IF \E a \in Slots : data[a] # NULL /\ data[a].key = k
  THEN data[CHOOSE a \in Slots : data[a] # NULL /\ data[a].key = k].val
  ELSE <<"absent">>

Map == INSTANCE KeyMap WITH
         map   <- [k \in Keys |-> MapOf(k)],
         limit <- IF grows THEN 0 ELSE cap,
         done  <- placed

\* The table is a map: lookups are right, no operation loses or invents an
\* entry, moving entries changes nothing a caller can see, a new key is
\* refused only by a full table that may not grow, and calls return.
IsAMap == Map!Spec

\* Whatever memory the table gets, the answers are those of a map, as long as
\* calls return.
NeverWrong == Map!Init /\ [][Map!Next]_(Map!vars)
=============================================================================
