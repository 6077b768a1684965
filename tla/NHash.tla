-------------------------------- MODULE NHash --------------------------------
(***************************************************************************)
(* n_hash_*.c: the hash table of trurlib whose slots are chains.  A key    *)
(* has a home slot and, above and below it, two more where it may be       *)
(* stored when the home slot was taken.  A table told to grow is rehashed  *)
(* into four times as many slots before a put, whatever that put will do.  *)
(*                                                                         *)
(* One action per call, except that n_hash_rehash and n_hash_dup take one  *)
(* bucket at a time.  A datum the table was given is its own until it is   *)
(* freed or n_hash_remove returns it.                                      *)
(*                                                                         *)
(* An operator called Bug... is the operator defined after it with a       *)
(* mistake the code might have had; no action uses it.                     *)
(***************************************************************************)
EXTENDS Integers, Sequences, FiniteSets

CONSTANTS
  Keys,          \* the keys of the callers
  Data,          \* the data pointers of the callers
  NULL,          \* the null pointer
  HashOf,        \* n_hash_compute_raw_hash of each key
  ShiftOf,       \* n_hash_nextslotv of each key; negative below 2^32
  InitSizes,     \* the numbers of slots a table is created with
  MaxSize,       \* bound: no put that would grow the table beyond it is made
  CtlFlags,      \* the flags the callers set with n_hash_ctl
  MaxRefs,       \* bound on _refcnt
  CallocMayFail, \* a failure hook may return, so that n_calloc gives NULL
  Misuse         \* what the callers do not avoid, see below

Val == Data \cup {NULL}

ASSUME KeysAssumption ==
  /\ IsFiniteSet(Keys)
  /\ HashOf \in [Keys -> Nat]
  /\ ShiftOf \in [Keys -> Int]

\* No datum is taken for the mark of an absent key.
ASSUME DataAssumption == NULL \notin Data /\ <<"absent">> \notin Val

\* n_hash_new2 rounds the requested size up to a power of two, at least 4, so
\* that masking with size - 1 is the remainder modulo size.
ASSUME SizeAssumption ==
  /\ InitSizes \subseteq {n \in Nat : 4 <= n /\ n <= MaxSize}
  /\ MaxSize \in Nat /\ MaxRefs \in Nat
  /\ CtlFlags \subseteq {"REHASH", "NOREPLACE"}
  /\ CallocMayFail \in BOOLEAN

\* "clean":  n_hash_clean is called with two entries in a chain;
\* "na":     the table has an allocator, and entries are removed from it;
\* "twice":  n_hash_insert of a key that is there, in a NOREPLACE table.
ASSUME MisuseAssumption == Misuse \subseteq {"clean", "na", "twice"}

VARIABLES
  size,      \* ht->size
  table,     \* ht->table, each chain as a sequence of buckets
  items,     \* ht->items
  grows,     \* TN_HASH_REHASH is set
  norepl,    \* TN_HASH_NOREPLACE is set
  na,        \* ht->na is not NULL: the buckets are in its memory
  refcnt,    \* ht->_refcnt
  owner,     \* who is to free each datum: the caller or the table
  pc,        \* what the call in progress is doing; "dead" after a failure
  req,       \* the call in progress: operation, key, data and mode
  res,       \* the answer of the last call
  khash,     \* n_hash_put: the hash it was given or computed, 0 if neither
  old,       \* n_hash_rehash, n_hash_dup: the chains still to be moved or copied
  it,        \* the position of an iterator, NoIt if there is none
  seen       \* the keys it has returned

store == <<size, table, items>>
flags == <<grows, norepl, na>>
iter  == <<it, seen>>
vars  == <<store, flags, refcnt, owner, pc, req, res, khash, old, iter>>

(***************************************************************************)
(* Buckets, slots and calls                                                *)
(***************************************************************************)
Slots   == 0 .. size - 1
Bucket  == [key : Keys, val : Val]
Request == [op : {"put", "get", "remove"}, key : Keys, arg : Val, mode : {"die", "replace", "keep"}]
NoCall  == [op |-> "none", key |-> NULL, arg |-> NULL, mode |-> "none"]
Answer  == [ok : BOOLEAN, val : Val]
Nothing == [ok |-> FALSE, val |-> NULL]
NoIt    == [pos |-> -1, bpos |-> 0]

\* The calls of the interface: get and remove pass neither data nor a mode.
Calls == {r \in Request : IF r.op = "put" THEN r.mode # "keep"
                          ELSE r.mode = "keep" /\ r.arg = NULL}

KeysOf(chain) == {chain[j].key : j \in 1 .. Len(chain)}
NoChains      == [i \in 0 .. -1 |-> <<>>]

\* The buckets of a table, each by its slot and its place in the chain.
In(t)   == UNION {{i} \X (1 .. Len(t[i])) : i \in DOMAIN t}
Present == UNION {KeysOf(table[i]) : i \in Slots}

Home(n, k) == HashOf[k] % n

\* The slots above and below slot h where a key may be as well, if uint32_t
\* arithmetic finds them in the table: a negative shift is above any h.
Above(k, h) == {i \in {h + ShiftOf[k]} : 0 <= i /\ i < size}
Below(k, h) == {i \in {h - ShiftOf[k]} : 0 <= ShiftOf[k] /\ ShiftOf[k] < h}

\* The slots n_hash_get_bucket and n_hash_remove look into.
LookedInto(k, h)      == {h} \cup Above(k, h) \cup Below(k, h)

\* The bucket they find, first in the home slot, then above, then below.
Holding(k, h) == {i \in LookedInto(k, h) : k \in KeysOf(table[i])}
Place(k, h) ==
  LET i == CHOOSE i \in Holding(k, h) :
             \/ i = h
             \/ h \notin Holding(k, h) /\ i \in Above(k, h)
             \/ Holding(k, h) \subseteq Below(k, h) /\ i \in Below(k, h)
  IN <<i, CHOOSE j \in 1 .. Len(table[i]) :
            table[i][j].key = k /\ \A l \in 1 .. j - 1 : table[i][l].key # k>>

TypeOK ==
  /\ size \in Nat /\ 4 <= size /\ size <= MaxSize
  /\ table \in [Slots -> Seq(Bucket)]
  /\ items \in Nat
  /\ grows \in BOOLEAN /\ norepl \in BOOLEAN /\ na \in BOOLEAN
  /\ refcnt \in 0 .. MaxRefs
  /\ owner \in [Data -> {"caller", "table"}]
  /\ pc \in {"idle", "call", "rehash", "put", "dup", "dead"}
  /\ IF pc = "idle" THEN req = NoCall ELSE req \in Request \cup {NoCall}
  /\ res \in Answer
  /\ khash \in Slots
  /\ old \in [DOMAIN old -> Seq(Bucket)] /\ DOMAIN old \subseteq Slots
  /\ it \in [pos : -1 .. size, bpos : Nat] /\ seen \subseteq Keys

Init ==
  /\ size \in InitSizes
  /\ table = [i \in Slots |-> <<>>] /\ items = 0
  /\ grows = FALSE /\ norepl = FALSE
  /\ na \in IF "na" \in Misuse THEN BOOLEAN ELSE {FALSE}
  /\ refcnt = 0
  /\ owner = [d \in Data |-> "caller"]
  /\ pc = "idle" /\ req = NoCall /\ res = Nothing
  /\ khash = 0 /\ old = NoChains
  /\ it = NoIt /\ seen = {}

Hand(v, who) == IF v = NULL THEN owner ELSE [owner EXCEPT ![v] = who]

Return(answer) ==
  /\ pc' = "idle" /\ req' = NoCall /\ res' = answer
  /\ khash' = 0 /\ old' = NoChains

\* The iterators of a table that changes are not used again.
Changed == it' = NoIt /\ seen' = {}

(***************************************************************************)
(* The calls                                                               *)
(***************************************************************************)
\* n_hash_ctl is refused unless the table is empty.
Ctl ==
  /\ pc = "idle" /\ items = 0
  /\ \E f \in SUBSET CtlFlags :
       /\ grows' = (grows \/ "REHASH" \in f)
       /\ norepl' = (norepl \/ "NOREPLACE" \in f)
  /\ UNCHANGED <<store, na, refcnt, owner, pc, req, res, khash, old, iter>>

AtLimit == grows /\ size - items <= size \div 3

\* A caller stores data it has.  The hash it passes is 0, or the one that
\* n_hash_exists_ex has just computed for the key.
Call(r) ==
  /\ pc = "idle"
  /\ r.arg # NULL => owner[r.arg] = "caller"
  /\ r.op = "put" =>
       /\ AtLimit => 4 * size <= MaxSize
       /\ norepl => r.mode = "die" /\ (r.key \in Present => "twice" \in Misuse)
  /\ r.op = "remove" => ~na \/ "na" \in Misuse
  /\ pc' = "call" /\ req' = r /\ res' = Nothing
  /\ khash' \in IF r.op = "put" THEN {0, Home(size, r.key)} ELSE {0}
  /\ UNCHANGED <<store, flags, refcnt, owner, old, iter>>

(***************************************************************************)
(* n_hash_rehash: the buckets of the old table, in order, to the front of  *)
(* their new chains                                                        *)
(***************************************************************************)
Grow ==
  /\ pc = "call" /\ req.op = "put" /\ AtLimit
  /\ size' = 4 * size /\ items' = 0
  /\ table' = [i \in 0 .. 4 * size - 1 |-> <<>>]
  /\ old' = table
  /\ pc' = "rehash"
  /\ Changed
  /\ UNCHANGED <<flags, refcnt, owner, req, res, khash>>

\* The hash the caller gave, if any, is for the old table.
BugHashKept == khash' = khash
HashDropped == khash' = 0

\* Without memory for it the table stays as it is.
GrowFails ==
  /\ CallocMayFail
  /\ pc = "call" /\ req.op = "put" /\ AtLimit
  /\ pc' = "put" /\ HashDropped
  /\ UNCHANGED <<store, flags, refcnt, owner, req, res, old, iter>>

\* The buckets of a chain behind the first are forgotten.
BugRestLost(i) == [old EXCEPT ![i] = <<>>]
Remaining(i)   == [old EXCEPT ![i] = Tail(@)]

FirstLeft(i) == i \in DOMAIN old /\ old[i] # <<>> /\ \A j \in DOMAIN old : j < i => old[j] = <<>>
NoneLeft     == \A i \in DOMAIN old : old[i] = <<>>

\* n_hash_put_node does not expect to find the key.
PutNode ==
  /\ pc = "rehash"
  /\ \E i \in DOMAIN old :
       /\ FirstLeft(i)
       /\ LET node == Head(old[i])
              h    == Home(size, node.key)
          IN /\ table' = [table EXCEPT ![h] = <<node>> \o @]
             /\ pc' = IF node.key \in KeysOf(table[h]) THEN "dead" ELSE pc
       /\ old' = Remaining(i)
  /\ items' = items + 1
  /\ UNCHANGED <<size, flags, refcnt, owner, req, res, khash, iter>>

RehashDone ==
  /\ pc = "rehash" /\ NoneLeft
  /\ pc' = "put" /\ HashDropped /\ old' = NoChains
  /\ UNCHANGED <<store, flags, refcnt, owner, req, res, iter>>

(***************************************************************************)
(* n_hash_put, once the table is large enough                              *)
(***************************************************************************)
Putting == pc = "put" \/ (pc = "call" /\ req.op = "put" /\ ~AtLimit)

Hash == IF khash = 0 THEN Home(size, req.key) ELSE khash

Known == ~norepl /\ Holding(req.key, Hash) # {}

\* n_hash_insert of a key that is there returns NULL, or ends the program.
PutRefused ==
  /\ Putting /\ Known /\ req.mode = "die"
  /\ Return(Nothing)
  /\ UNCHANGED <<store, flags, refcnt, owner, iter>>

\* The datum that is replaced is not freed.
BugNotFreed(d) == Hand(req.arg, "table")
GivenFor(d)    == [Hand(req.arg, "table") EXCEPT ![d] = "caller"]

PutReplaces ==
  /\ Putting /\ Known /\ req.mode = "replace"
  /\ LET p == Place(req.key, Hash)
         d == table[p[1]][p[2]].val
     IN /\ table' = [table EXCEPT ![p[1]][p[2]].val = req.arg]
        /\ owner' = IF d = NULL THEN Hand(req.arg, "table") ELSE GivenFor(d)
  /\ Return([ok |-> TRUE, val |-> req.arg])
  /\ UNCHANGED <<size, items, flags, refcnt, iter>>

\* find_free_slot: an empty slot near a taken one, else the taken one.
Slot(k, h) ==
  LET up   == {i \in Above(k, h) : table[i] = <<>>}
      down == {i \in Below(k, h) : table[i] = <<>>}
  IN IF table[h] = <<>> THEN h
     ELSE IF up # {} THEN CHOOSE i \in up : TRUE
     ELSE IF down # {} THEN CHOOSE i \in down : TRUE ELSE h

\* new_bucket copies the key, or keeps the caller's; the bucket comes from the
\* table's allocator if it has one.
NewBucket(r) == [key |-> r.key, val |-> r.arg]

\* A chain that holds the key, which the lookup was to find, ends the program.
PutNew ==
  /\ Putting /\ ~Known
  /\ LET h == Slot(req.key, Hash) IN
     /\ table' = [table EXCEPT ![h] = <<NewBucket(req)>> \o @]
     /\ IF req.key \in KeysOf(table[h])
        THEN pc' = "dead" /\ UNCHANGED <<req, res, khash, old>>
        ELSE Return([ok |-> TRUE, val |-> req.arg])
  /\ items' = items + 1
  /\ owner' = Hand(req.arg, "table")
  /\ Changed
  /\ UNCHANGED <<size, flags, refcnt>>

(***************************************************************************)
(* n_hash_get and n_hash_exists; n_hash_remove                             *)
(***************************************************************************)
Finding(op) == pc = "call" /\ req.op = op
At          == Place(req.key, Home(size, req.key))
Datum       == table[At[1]][At[2]].val
Missing     == Holding(req.key, Home(size, req.key)) = {}

Get ==
  /\ Finding("get")
  /\ Return(IF Missing THEN Nothing ELSE [ok |-> TRUE, val |-> Datum])
  /\ UNCHANGED <<store, flags, refcnt, owner, iter>>

RemoveMiss ==
  /\ Finding("remove") /\ Missing
  /\ Return(Nothing)
  /\ UNCHANGED <<store, flags, refcnt, owner, iter>>

\* The chain behind the bucket goes with it.
Without(i, j)      == [table EXCEPT ![i] = SubSeq(@, 1, j - 1) \o SubSeq(@, j + 1, Len(@))]

\* The bucket is given to free, which a bucket of an allocator did not come
\* from.
Remove ==
  /\ Finding("remove") /\ ~Missing
  /\ table' = Without(At[1], At[2])
  /\ items' = items - 1
  /\ owner' = Hand(Datum, "caller")
  /\ Changed
  /\ IF na THEN pc' = "dead" /\ UNCHANGED <<req, res, khash, old>>
     ELSE Return([ok |-> TRUE, val |-> Datum])
  /\ UNCHANGED <<size, flags, refcnt>>

(***************************************************************************)
(* The whole table: n_hash_clean, n_hash_dup, n_hash_free                  *)
(***************************************************************************)
Freed(ds) == [d \in Data |-> IF d \in ds THEN "caller" ELSE owner[d]]

\* n_hash_clean removes the first bucket of each chain, frees its datum, and
\* empties the slot.
Clean ==
  /\ pc = "idle"
  /\ (\A i \in Slots : Len(table[i]) <= 1) \/ "clean" \in Misuse
  /\ items = 0 \/ ~na \/ "na" \in Misuse
  /\ owner' = Freed({Head(table[i]).val : i \in {i \in Slots : table[i] # <<>>}})
  /\ table' = [i \in Slots |-> <<>>]
  /\ items' = 0
  /\ pc' = IF na /\ \E i \in Slots : table[i] # <<>> THEN "dead" ELSE pc
  /\ Changed
  /\ UNCHANGED <<size, flags, refcnt, req, res, khash, old>>

\* n_ref, and n_hash_free of a table that has other users.
Ref ==
  /\ pc = "idle" /\ refcnt < MaxRefs
  /\ refcnt' = refcnt + 1
  /\ UNCHANGED <<store, flags, owner, pc, req, res, khash, old, iter>>

Unref ==
  /\ pc = "idle" /\ refcnt > 0
  /\ refcnt' = refcnt - 1
  /\ UNCHANGED <<store, flags, owner, pc, req, res, khash, old, iter>>

\* n_hash_dup, which inserts every entry into a table of as many slots; the
\* program goes on with that and frees the first.  A table that memory kept
\* from growing is not duplicated: its copy would grow meanwhile.
Dup ==
  /\ pc = "idle"
  /\ grows => size - (items - 1) > size \div 3
  /\ old' = table
  /\ table' = [i \in Slots |-> <<>>] /\ items' = 0
  /\ na' = FALSE /\ refcnt' = 0
  /\ pc' = "dup"
  /\ Changed
  /\ UNCHANGED <<size, grows, norepl, owner, req, res, khash>>

\* n_hash_insert refuses a key that is there, and the entry is lost.
DupNode ==
  /\ pc = "dup"
  /\ \E i \in DOMAIN old :
       /\ FirstLeft(i)
       /\ LET node == Head(old[i])
              h    == Home(size, node.key)
              s    == Slot(node.key, h)
          IN /\ table' = [table EXCEPT ![s] = <<node>> \o @]
             /\ pc' = IF AtLimit \/ (~norepl /\ Holding(node.key, h) # {})
                         \/ node.key \in KeysOf(table[s])
                      THEN "dead" ELSE pc
       /\ old' = Remaining(i)
  /\ items' = items + 1
  /\ UNCHANGED <<size, flags, refcnt, owner, req, res, khash, iter>>

DupDone ==
  /\ pc = "dup" /\ NoneLeft
  /\ pc' = "idle" /\ old' = NoChains
  /\ UNCHANGED <<store, flags, refcnt, owner, req, res, khash, iter>>

\* n_hash_free; the program makes another table, with the same flags.
AllFreed == {table[p[1]][p[2]].val : p \in In(table)}

Free ==
  /\ pc = "idle" /\ refcnt = 0
  /\ owner' = Freed(AllFreed)
  /\ size' \in InitSizes
  /\ table' = [i \in 0 .. size' - 1 |-> <<>>] /\ items' = 0
  /\ Changed
  /\ UNCHANGED <<flags, refcnt, pc, req, res, khash, old>>

(***************************************************************************)
(* The iterator, and with it the loops of n_hash_keys_ext, n_hash_values   *)
(* and n_hash_map                                                          *)
(***************************************************************************)
ItInit ==
  /\ pc = "idle"
  /\ it' = [pos |-> 0, bpos |-> 0] /\ seen' = {}
  /\ UNCHANGED <<store, flags, refcnt, owner, pc, req, res, khash, old>>

\* The first slot from pos on that is not empty; size when there is none.
ItSlot ==
  IF \A i \in Slots : it.pos <= i => table[i] = <<>> THEN size
  ELSE CHOOSE i \in Slots : /\ it.pos <= i /\ table[i] # <<>>
                            /\ \A j \in Slots : it.pos <= j /\ j < i => table[j] = <<>>

\* The place in the chain is kept for the next slot.
BugPlaceKept(i) ==
  IF it.bpos + 1 = Len(table[i]) THEN [pos |-> i + 1, bpos |-> it.bpos]
  ELSE [it EXCEPT !.bpos = @ + 1]
ItNext(i) ==
  IF it.bpos + 1 = Len(table[i]) THEN [pos |-> i + 1, bpos |-> 0]
  ELSE [it EXCEPT !.bpos = @ + 1]

ItGet ==
  /\ pc = "idle" /\ it # NoIt /\ ItSlot < size
  /\ IF it.bpos < Len(table[ItSlot])
     THEN /\ seen' = seen \cup {table[ItSlot][it.bpos + 1].key}
          /\ it' = ItNext(ItSlot)
          /\ UNCHANGED pc
     ELSE pc' = "dead" /\ UNCHANGED iter
  /\ UNCHANGED <<store, flags, refcnt, owner, req, res, khash, old>>

(***************************************************************************)
(* The walks over the whole table, which change nothing: n_hash_keys,      *)
(* n_hash_values, n_hash_map and n_hash_dump visit the buckets of the      *)
(* first n slots in this order; n_hash_stats counts chains                 *)
(***************************************************************************)
Walked[n \in 0 .. size] == IF n = 0 THEN <<>> ELSE Walked[n - 1] \o table[n - 1]

KeysWalked == [j \in 1 .. Len(Walked[size]) |-> Walked[size][j].key]
Mapped     == Len(Walked[size])                  \* n of n_hash_map_arg

\* After the loop over the first n slots: empty is the run of empty slots that
\* has not ended yet; len and runs are empty_len_sum and empty_len_n.
Counted[n \in 0 .. size] ==
  IF n = 0 THEN [empty |-> 0, len |-> 0, runs |-> 0, ncolls |-> 0, deepsum |-> 0, maxdeep |-> 0]
  ELSE LET c    == Counted[n - 1]
           deep == Len(table[n - 1])
           over == IF c.empty > 0 THEN 1 ELSE 0
       IN IF deep = 0 THEN [c EXCEPT !.empty = @ + 1]
          ELSE [empty   |-> 0,
                len     |-> c.len + c.empty,
                runs    |-> c.runs + over,
                ncolls  |-> IF deep > 1 THEN c.ncolls + 1 ELSE c.ncolls,
                deepsum |-> IF deep > 1 THEN c.deepsum + deep ELSE c.deepsum,
                maxdeep |-> IF deep > c.maxdeep THEN deep ELSE c.maxdeep]

\* The run at the end of the table is forgotten.
BugStats(c) == c
Stats(c) ==
  IF c.empty > 0 THEN [c EXCEPT !.len = @ + c.empty, !.runs = @ + 1] ELSE c

Working == Grow \/ GrowFails \/ PutNode \/ RehashDone \/ PutRefused
           \/ DupNode \/ DupDone \/ PutReplaces \/ PutNew \/ Get \/ RemoveMiss \/ Remove

Next == \/ Ctl \/ Clean \/ Ref \/ Unref \/ Dup \/ Free \/ ItInit \/ ItGet
        \/ \E r \in Calls : Call(r)
        \/ Working

\* A call that was made goes on: the code never waits.
Spec     == Init /\ [][Next]_vars
FairSpec == Spec /\ WF_vars(Working)

-----------------------------------------------------------------------------
(***************************************************************************)
(* What must hold                                                          *)
(***************************************************************************)
\* No call ends the program: none meets a key it does not expect
\* (n_hash_put.c:66, 232) or an iterator behind its chain (n_hash_get.c:35),
\* and nothing is freed that malloc did not give.
NotDead == pc # "dead"

\* Every bucket is in a slot where a lookup of its key, with the present size
\* and from the key's home, finds it; find_free_slot and n_hash_rehash move
\* keys between those slots.
InItsSlots ==
  \A i \in Slots : \A k \in KeysOf(table[i]) : i \in LookedInto(k, Home(size, k))

\* No key is in two buckets, whether moved already or still to be moved.
KeysOnce ==
  /\ \A p, q \in In(table) : table[p[1]][p[2]].key = table[q[1]][q[2]].key => p = q
  /\ \A p, q \in In(old) : old[p[1]][p[2]].key = old[q[1]][q[2]].key => p = q
  /\ \A p \in In(old) : old[p[1]][p[2]].key \notin Present

\* items counts the buckets: n_hash_put decides by it when to grow, and
\* n_hash_ctl whether the table is empty.
ItemsCounted == items = Cardinality(In(table))

\* A datum is the table's as long as one bucket holds it, and freed or
\* returned with that bucket: none is leaked and none freed twice.
Holders(d) == {p \in In(table) : table[p[1]][p[2]].val = d}
              \cup {<<-1 - p[1], p[2]>> : p \in {p \in In(old) : old[p[1]][p[2]].val = d}}
OwnedOnce  == \A d \in Data : Cardinality(Holders(d)) = IF owner[d] = "table" THEN 1 ELSE 0

\* The table, and the memory it has and its entries have.
TableOK  == TypeOK /\ InItsSlots /\ KeysOnce /\ ItemsCounted
MemoryOK == NotDead /\ OwnedOnce

\* An iterator of a table that does not change returns every key once: it
\* never gets behind a chain, and the end comes when all keys were seen.
VisitsEach ==
  it # NoIt /\ pc = "idle" =>
    IF ItSlot = size THEN seen = Present
    ELSE /\ it.bpos < Len(table[ItSlot])
         /\ table[ItSlot][it.bpos + 1].key \notin seen

\* Between calls the walks return the table: items buckets, each key that is
\* stored once; and n_hash_stats counts every empty slot, every run of empty
\* slots and every chain of more than one bucket, whatever slot they are at.
Chains == {i \in Slots : Len(table[i]) > 1}
WalksAgree ==
  pc = "idle" =>
    /\ Mapped = items
    /\ {KeysWalked[j] : j \in 1 .. Mapped} = Present /\ Cardinality(Present) = items
    /\ LET s == Stats(Counted[size]) IN
         /\ s.len = Cardinality({i \in Slots : table[i] = <<>>})
         /\ s.runs = Cardinality({i \in Slots : table[i] = <<>> /\ (i = 0 \/ table[i - 1] # <<>>)})
         /\ s.ncolls = Cardinality(Chains)
         /\ s.deepsum = items - Cardinality({i \in Slots : Len(table[i]) = 1})
         /\ \A i \in Slots : Len(table[i]) <= s.maxdeep

\* The map the buckets hold.
Value(t, k) ==
  LET p == CHOOSE p \in In(t) : t[p[1]][p[2]].key = k IN t[p[1]][p[2]].val
MapOf(k) ==
  IF k \in Present THEN Value(table, k)
  ELSE IF \E i \in DOMAIN old : k \in KeysOf(old[i]) THEN Value(old, k)
  ELSE <<"absent">>

Map == INSTANCE KeyMap WITH
         map   <- [k \in Keys |-> MapOf(k)],
         limit <- IF grows THEN 0 ELSE Cardinality(Keys) + 1,
         done  <- FALSE

\* The table is a map: no rehash, no neighbouring slot and no hash computed
\* before the table grew changes an answer, no put is refused for want of
\* room, and calls return.
IsAMap == Map!Spec
=============================================================================
