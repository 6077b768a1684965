------------------------------ MODULE NObstack ------------------------------
(***************************************************************************)
(* lib/obstack.c and the macros of lib/obstack.h, and the functions of     *)
(* nmalloc.c that make an allocator of them: objects are carved out of     *)
(* chunks, the last one may grow and then has to move to a new chunk.      *)
(* Memory is one range of addresses that malloc gives chunks out of, and   *)
(* 0 is NULL.                                                              *)
(*                                                                         *)
(* An operator called Bug... is the operator defined after it with a       *)
(* mistake the code might have had; no action uses it.                     *)
(***************************************************************************)
EXTENDS Integers, Sequences

CONSTANTS
  Bytes, Nul,           \* the bytes, and the one memset puts
  Junk,                 \* what nobody wrote
  Lens,                 \* the sizes of what is added to an object at a time
  Header,               \* where the contents of a chunk begin
  Alignment,            \* alignment_mask + 1
  Extra,                \* what _obstack_newchunk asks for in addition: 100
  FirstSize, ChunkSize, \* of chunks: by default, and as n_alloc_new sets it
  MallocMayFail,        \* n_malloc may return NULL: a failure hook is set
  Top, MaxObjs          \* bounds: the memory, and the objects

ASSUME ObstackAssumption ==
  /\ Nul \in Bytes /\ Junk \notin Bytes /\ Lens \subseteq Nat
  /\ Header \in Nat \ {0} /\ Alignment \in Nat \ {0} /\ Header % Alignment = 0
  /\ Extra \in Nat /\ Extra >= Header
  /\ FirstSize \in Nat /\ FirstSize >= Header /\ ChunkSize \in Nat
  /\ MallocMayFail \in BOOLEAN /\ Top \in Nat /\ MaxObjs \in Nat

VARIABLES
  state,    \* "none", "live", or "dead": abort, a segmentation fault
  chunks,  \* the chain of chunks, the newest (h->chunk) first
  base,    \* object_base
  next,    \* next_free
  limit,   \* chunk_limit
  empty,   \* maybe_empty_object
  failed,  \* alloc_failed
  mem,     \* what is at each address
  objs     \* the objects that were returned and not freed, the oldest first

h    == <<chunks, base, next, limit, empty, failed, mem>>
obstackVars == <<state, h, objs>>

Addresses == 0 .. Top - 1
Chunk     == [at : Addresses, limit : 0 .. Top]
Texts     == {[i \in 1 .. n |-> b] : n \in Lens, b \in Bytes}

ObstackTypeOK ==
  /\ state \in {"none", "live", "dead"} /\ chunks \in Seq(Chunk)
  /\ base \in 0 .. Top /\ next \in 0 .. Top /\ limit \in 0 .. Top
  /\ empty \in BOOLEAN /\ failed \in BOOLEAN
  /\ mem \in [Addresses -> Bytes \cup {Junk}]
  /\ objs \in Seq([at : 0 .. Top, len : 0 .. Top])

ObstackInit ==
  /\ state = "none" /\ chunks = <<>> /\ base = 0 /\ next = 0 /\ limit = 0
  /\ empty = FALSE /\ failed = FALSE /\ objs = <<>>
  /\ mem = [a \in Addresses |-> Junk]

Text(at, len) == [i \in 1 .. len |-> mem[at + i - 1]]

(***************************************************************************)
(* Chunks                                                                  *)
(***************************************************************************)
\* malloc returns memory that is nobody's.
CanHave(c) ==
  /\ c.at > 0 /\ c.at % Alignment = 0 /\ c.limit <= Top
  /\ \A i \in DOMAIN chunks : c.limit <= chunks[i].at \/ chunks[i].limit <= c.at

Malloc(size) == {c \in {[at |-> a, limit |-> a + size] : a \in Addresses} : CanHave(c)}

\* _obstack_begin on a struct of zeros, as n_alloc_new calls it.
Begin ==
  /\ state # "live" /\ state' = "live" /\ objs' = <<>>
  /\ mem' = [a \in Addresses |-> Junk] /\ empty' = FALSE
  /\ \/ \E a \in Addresses :
          /\ a > 0 /\ a % Alignment = 0 /\ a + FirstSize <= Top
          /\ chunks' = <<[at |-> a, limit |-> a + FirstSize]>> /\ limit' = a + FirstSize
          /\ base' = a + Header /\ next' = a + Header /\ failed' = FALSE
     \/ /\ MallocMayFail
        /\ chunks' = <<>> /\ limit' = 0 /\ base' = 0 /\ next' = 0 /\ failed' = TRUE

\* The size of a new chunk for the object that is growing and n bytes more.
NewSize(n) ==
  LET new_size == (next - base + n) + (next - base) \div 8 + Extra
  IN  IF new_size < ChunkSize THEN ChunkSize ELSE new_size

\* The old chunk is freed if the object that moves was all there was in it.
BugOnlyThat == chunks # <<>> /\ base = chunks[1].at + Header
OnlyThat    == chunks # <<>> /\ base = chunks[1].at + Header /\ ~empty

Within(a, c) == a \in c.at .. c.limit - 1

\* Memory when the growing object was copied to the address to.  What it left
\* and what was freed is nobody's, and as good as never written.
Copied(to) ==
  [a \in Addresses |->
     IF a \in to .. to + (next - base) - 1 THEN mem[base + (a - to)]
     ELSE IF a \in base .. next - 1 \/ (OnlyThat /\ Within(a, chunks[1])) THEN Junk
     ELSE mem[a]]

\* _obstack_newchunk, with malloc's answer
NewChunk(c) ==
  [chunks |-> <<c>> \o (IF OnlyThat THEN Tail(chunks) ELSE chunks),
   base   |-> c.at + Header, next |-> c.at + Header + (next - base),
   limit  |-> c.limit, empty |-> FALSE, mem |-> Copied(c.at + Header)]

Fits(n) == limit - next >= n

\* What the obstack may be like when there is room for n bytes.  One that was
\* refused a chunk is no good until it needs, and gets, another.
WithRoom(n) ==
  IF Fits(n) THEN {r \in {[chunks |-> chunks, base |-> base, next |-> next,
                           limit |-> limit, empty |-> empty, mem |-> mem]} : ~failed}
             ELSE {NewChunk(c) : c \in Malloc(NewSize(n))}

Refused(n) == IF Fits(n) THEN failed ELSE MallocMayFail

(***************************************************************************)
(* The macros: obstack_blank, whose caller writes what it made room for,   *)
(* obstack_grow and what is made of it; obstack_finish; obstack_alloc and  *)
(* obstack_copy, which are the one after the other.                        *)
(***************************************************************************)
Put(m, at, t) == [a \in Addresses |-> IF a \in at .. at + Len(t) - 1 THEN t[a - at + 1] ELSE m[a]]

Refuse(n) ==
  /\ state = "live" /\ Refused(n) /\ failed' = TRUE
  /\ UNCHANGED <<state, chunks, base, next, limit, empty, mem, objs>>

Grow(t) ==
  /\ state = "live"
  /\ \E r \in WithRoom(Len(t)) :
       /\ next' = r.next + Len(t) /\ mem' = Put(r.mem, r.next, t)
       /\ chunks' = r.chunks /\ base' = r.base /\ limit' = r.limit /\ empty' = r.empty
  /\ failed' = FALSE /\ UNCHANGED <<state, objs>>

\* Where the next object begins: aligned, or at the end of the chunk.
Aligned(a) == a + ((-a) % Alignment)

FinishAt(end, lim)    == IF Aligned(end) > lim THEN lim ELSE Aligned(end)

Finish ==
  /\ state = "live" /\ Len(objs) < MaxObjs /\ ~failed
  /\ objs' = Append(objs, [at |-> base, len |-> next - base])
  /\ empty' = (empty \/ next = base)
  /\ next' = FinishAt(next, limit) /\ base' = next'
  /\ UNCHANGED <<state, chunks, limit, failed, mem>>

FinishRefused ==
  /\ state = "live" /\ failed /\ UNCHANGED obstackVars

\* The object is filled with the text by who asked for it, or t is copied to
\* it; r is the obstack with room for it.
Carve(r, t) ==
  /\ chunks' = r.chunks /\ limit' = r.limit /\ mem' = Put(r.mem, r.next, t)
  /\ objs' = Append(objs, [at |-> r.base, len |-> r.next - r.base + Len(t)])
  /\ empty' = (r.empty \/ r.next + Len(t) = r.base)
  /\ next' = FinishAt(r.next + Len(t), r.limit) /\ base' = next'
  /\ failed' = FALSE /\ UNCHANGED state

Alloc(t) ==
  /\ state = "live" /\ Len(objs) < MaxObjs
  /\ \E r \in WithRoom(Len(t)) : Carve(r, t)

(***************************************************************************)
(* Freeing                                                                 *)
(***************************************************************************)
\* "we can't tell whether the new current chunk contains an empty object":
\* an object of no length may lie at the end of a chunk, which may be where
\* another begins.
BugHolds(c, obj) == c.at <= obj /\ obj <= c.limit
Holds(c, obj)    == c.at < obj /\ obj <= c.limit

\* _obstack_allocated_p
AllocatedP(obj) == \E k \in DOMAIN chunks : Holds(chunks[k], obj)

\* What is left of memory when obj is freed, and the first k - 1 chunks.
Kept(k, obj) ==
  [a \in Addresses |-> IF \/ Within(a, chunks[k]) /\ a >= obj
                         \/ \E j \in 1 .. k - 1 : Within(a, chunks[j])
                      THEN Junk ELSE mem[a]]

\* The obstack_free of obstack.h, for an object in the current chunk.
InChunk(obj) == chunks # <<>> /\ chunks[1].at < obj /\ obj < limit

\* The function: chunks are freed up to the one that holds the object.
BackTo(k, obj) ==
  /\ \A j \in 1 .. k - 1 : ~Holds(chunks[j], obj)
  /\ Holds(chunks[k], obj)
  /\ chunks' = SubSeq(chunks, k, Len(chunks)) /\ limit' = chunks[k].limit
  /\ empty' = (empty \/ k > 1)
  /\ mem' = Kept(k, obj)
  /\ UNCHANGED state

Abort ==
  /\ state' = "dead" /\ chunks' = <<>> /\ empty' = (empty \/ chunks # <<>>)
  /\ UNCHANGED <<base, next, limit, failed, mem>>

FreeFrom(i) ==
  LET obj == objs[i].at IN
  /\ state = "live" /\ objs' = SubSeq(objs, 1, i - 1)
  /\ \/ /\ InChunk(obj) /\ base' = obj /\ next' = obj
        /\ UNCHANGED <<state, chunks, limit, empty, failed, mem>>
     \/ /\ ~InChunk(obj) /\ AllocatedP(obj) /\ base' = obj /\ next' = obj
        /\ \E k \in DOMAIN chunks : BackTo(k, obj)
        /\ UNCHANGED failed
     \/ ~InChunk(obj) /\ ~AllocatedP(obj) /\ Abort

\* n_alloc_free: obstack_free of NULL, and of what points to the obstack.
FreeAll ==
  /\ state = "live" /\ state' = "none" /\ objs' = <<>>
  /\ chunks' = <<>> /\ base' = 0 /\ next' = 0 /\ limit' = 0
  /\ empty' = FALSE /\ failed' = FALSE /\ mem' = [a \in Addresses |-> Junk]

(***************************************************************************)
(* The allocator of nmalloc.c.  Its users do not grow objects in place,    *)
(* and cannot free them.                                                   *)
(***************************************************************************)
Die ==
  /\ state' = "dead" /\ failed' = TRUE
  /\ UNCHANGED <<chunks, base, next, limit, empty, mem, objs>>

\* memset and memcpy are given what obstack_alloc returns, if that is NULL.
WritesToNull(n) == state = "live" /\ base = next /\ Refused(n) /\ n > 0 /\ Die

Calloc(n) == base = next /\ Alloc([i \in 1 .. n |-> Nul])

\* aobstack_realloc to a larger size: size bytes are copied whatever the new
\* size is.  The old object stays.
Realloc(i, t) ==
  /\ state = "live" /\ base = next /\ Len(objs) < MaxObjs
  /\ \E r \in WithRoom(objs[i].len + Len(t)) :
       Carve(r, [j \in 1 .. objs[i].len |-> r.mem[objs[i].at + j - 1]] \o t)

(***************************************************************************)
ObstackNext ==
  \/ Begin \/ Finish \/ FinishRefused \/ FreeAll
  \/ \E t \in Texts : Grow(t) \/ Alloc(t)
  \/ \E n \in Lens : Calloc(n) \/ Refuse(n) \/ WritesToNull(n)
  \/ \E i \in DOMAIN objs : FreeFrom(i) \/ \E t \in Texts : Realloc(i, t)

ObstackSpec == ObstackInit /\ [][ObstackNext]_obstackVars

(***************************************************************************)
(* What is checked                                                         *)
(***************************************************************************)
InOneChunk(o) ==
  \E k \in DOMAIN chunks : chunks[k].at + Header <= o.at /\ o.at + o.len <= chunks[k].limit

\* Every object lies in one chunk, behind its header, aligned, and apart from
\* the others and from the one that grows, wherever malloc puts the chunks.
WellPlaced ==
  /\ ObstackTypeOK
  /\ state = "live" => \A i \in DOMAIN objs :
       /\ InOneChunk(objs[i]) /\ AllocatedP(objs[i].at)
       /\ objs[i].len > 0 => objs[i].at % Alignment = 0
       /\ \A j \in 1 .. i - 1 :
            objs[i].at >= objs[j].at + objs[j].len \/ objs[i].at + objs[i].len <= objs[j].at
  /\ chunks # <<>> => limit = chunks[1].limit /\ chunks[1].at + Header <= base
  /\ base <= next /\ next <= limit

\* The obstack is the stack of objects of ObjStack: objects keep what is in
\* them while others come, move and go, and every one of them can be freed.
Stack == INSTANCE ObjStack WITH
  open <- state = "live", objs <- [i \in DOMAIN objs |-> Text(objs[i].at, objs[i].len)],
  growing <- Text(base, next - base), short <- failed

IsAStack == Stack!Spec
=============================================================================
