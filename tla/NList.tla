------------------------------- MODULE NList -------------------------------
(***************************************************************************)
(* n_list_*.c: the singly linked list of trurlib, with a pointer to its    *)
(* last node.  Nodes are memory cells: one that was freed may be given out *)
(* again, and following a pointer to a cell that is not allocated is the   *)
(* fault the properties are about.  n_list_remove_ex takes one iteration   *)
(* of its two loops per step.                                              *)
(*                                                                         *)
(* An operator called Bug... is the operator defined after it with a       *)
(* mistake the code might have had; no action uses it.                     *)
(***************************************************************************)
EXTENDS Integers, FiniteSets, SequencesExt, Subsequence

CONSTANTS
  Nodes,           \* the cells n_malloc(sizeof(struct list_node)) gives out
  Data,            \* the data pointers of the callers, none of them NULL
  NULL,            \* the null pointer
  KeyOf,           \* what cmp_fn compares
  Places,          \* the positions the callers ask for
  MaxRefs,         \* bound: references taken to the list
  MallocMayFail,   \* a failure hook may return, so that n_malloc gives NULL
  UnshiftOnEmpty   \* n_list_unshift is called on an empty list

ASSUME NodesAssumption ==
  /\ IsFiniteSet(Nodes) /\ NULL \notin Nodes \cup Data
  /\ KeyOf \in [Data -> Nat] /\ Places \subseteq Nat /\ MaxRefs \in Nat
  /\ MallocMayFail \in BOOLEAN /\ UnshiftOnEmpty \in BOOLEAN

VARIABLES
  head, tail, size,  \* l->head, l->tail, l->items
  next, data,        \* the fields of each node
  live,              \* the nodes that are allocated
  uniq,              \* TN_LIST_UNIQ is set
  frees,             \* free_fn is set
  refs,              \* l->_refcnt
  owner,             \* who each data pointer belongs to
  it,                \* li->node of an iterator
  due, seen,         \* what the iterator has to return, and has returned
  pc, call, res,     \* the loop that is running, the call, the answer
  key, prev, node, removed   \* n_list_remove_ex

fields == <<head, tail, size>>
heap   == <<next, data, live>>
flags  == <<uniq, frees>>
iter   == <<it, due, seen>>
locals == <<key, prev, node, removed>>
list   == <<fields, heap, flags, refs, owner>>
vars   == <<list, iter, pc, call, res, locals>>

Keys      == {KeyOf[d] : d \in Data}
Val(d)    == <<"val", d>>
Count(n)  == <<"count", n>>
Ok        == <<"ok">>
Refused   == Val(NULL)
Ptr       == Nodes \cup {NULL}
Chain(n)  == LET walk[i \in 0 .. Cardinality(Nodes)] ==
                   IF i = 0 THEN n ELSE IF walk[i - 1] \in live THEN next[walk[i - 1]] ELSE NULL
             IN  walk
\* The nodes from n on, in the order of their links.
From(n) ==
  LET walk == Chain(n)
      len  == Cardinality({i \in DOMAIN walk : walk[i] # NULL})
  IN  [i \in 1 .. len |-> walk[i - 1]]
List     == From(head)
Items    == [i \in DOMAIN List |-> data[List[i]]]

TypeOK ==
  /\ head \in Ptr /\ tail \in Ptr /\ size \in Int
  /\ next \in [Nodes -> Ptr] /\ data \in [Nodes -> Data \cup {NULL}]
  /\ live \subseteq Nodes
  /\ uniq \in BOOLEAN /\ frees \in BOOLEAN /\ refs \in 0 .. MaxRefs
  /\ owner \in [Data -> {"caller", "list", "freed"}]
  /\ it \in Ptr /\ due \subseteq Data /\ seen \subseteq Data
  /\ pc \in {"none", "idle", "first", "rest", "fault"}
  /\ key \in Keys \cup {NULL} /\ prev \in Ptr /\ node \in Ptr /\ removed \in Nat


Idle == key = NULL /\ prev = NULL /\ node = NULL /\ removed = 0

\* There is no list yet.
Init ==
  /\ head = NULL /\ tail = NULL /\ size = 0
  /\ next = [n \in Nodes |-> NULL] /\ data = [n \in Nodes |-> NULL] /\ live = {}
  /\ uniq = FALSE /\ frees = FALSE /\ refs = 0
  /\ owner = [d \in Data |-> "caller"]
  /\ it = NULL /\ due = {} /\ seen = {}
  /\ pc = "none" /\ call = <<"new">> /\ res = Ok /\ Idle

\* The call returns: its local variables are gone.
Return(answer) ==
  /\ pc' = "idle" /\ res' = answer
  /\ key' = NULL /\ prev' = NULL /\ node' = NULL /\ removed' = 0

\* A call of the list, when no other is running.
Called(name, arg) == pc = "idle" /\ call' = <<name, arg>>

Fault == pc' = "fault" /\ UNCHANGED <<list, iter, res, locals>>

Refuse == Return(Refused) /\ UNCHANGED <<list, iter>>

(***************************************************************************)
(* Nodes and the data they hold                                            *)
(***************************************************************************)
\* A node d is put in; its next is n.
Alloc(c, d, n) ==
  /\ c \notin live
  /\ live' = live \cup {c}
  /\ data' = [data EXCEPT ![c] = d]
  /\ owner' = [owner EXCEPT ![d] = "list"]
  /\ due' = IF it # NULL /\ n = NULL THEN due \cup {d} ELSE due

\* The node c is freed, and its datum goes to whom.  A freed cell is not read
\* again, whatever it holds.
Dealloc(c, whom, links) ==
  /\ live' = live \ {c}
  /\ next' = [links EXCEPT ![c] = NULL]
  /\ data' = [data EXCEPT ![c] = NULL]
  /\ owner' = [owner EXCEPT ![data[c]] = whom]
  /\ due' = due \ {data[c]} /\ seen' = seen \ {data[c]}
  /\ UNCHANGED <<it, flags, refs>>

\* The links when the node c after p is taken out.
LinksWithout(p, c)   == [next EXCEPT ![p] = next[c]]

Freed == IF frees THEN "freed" ELSE "caller"

\* The caller does not remove the node its iterator stands on.
Spares(c) == c # it

(***************************************************************************)
(* n_list_new, n_list_free and references; the callers' own steps          *)
(***************************************************************************)
New ==
  /\ pc = "none"
  /\ uniq' \in BOOLEAN /\ frees' \in BOOLEAN
  /\ head' = NULL /\ tail' = NULL /\ size' = 0 /\ refs' = 0
  /\ call' = <<"new">> /\ Return(Ok)
  /\ UNCHANGED <<heap, owner, iter>>

Ref ==
  /\ pc = "idle" /\ refs < MaxRefs
  /\ refs' = refs + 1
  /\ UNCHANGED <<fields, heap, flags, owner, iter, pc, call, res, locals>>

LastRef == refs = 0

Free ==
  /\ pc = "idle"
  /\ IF ~LastRef
     THEN refs' = refs - 1 /\ UNCHANGED <<fields, heap, flags, owner, iter, pc>>
     ELSE /\ pc' = "none" /\ live' = live \ Range(List)
          /\ head' = NULL /\ tail' = NULL /\ size' = 0
          /\ next' = [n \in Nodes |-> NULL] /\ data' = [n \in Nodes |-> NULL]
          /\ owner' = [d \in Data |-> IF d \in Range(Items) THEN Freed ELSE owner[d]]
          /\ it' = NULL /\ due' = {} /\ seen' = {}
          /\ UNCHANGED <<flags, refs>>
  /\ UNCHANGED <<call, res, locals>>

\* A caller allocates a new object where a freed one was.
Renew(d) ==
  /\ owner[d] = "freed"
  /\ owner' = [owner EXCEPT ![d] = "caller"]
  /\ UNCHANGED <<fields, heap, flags, refs, iter, pc, call, res, locals>>

(***************************************************************************)
(* n_list_push, n_list_unshift, n_list_pop, n_list_shift                   *)
(***************************************************************************)
OnList(k) == \E i \in DOMAIN Items : KeyOf[Items[i]] = k

Rejects(d) == uniq /\ OnList(KeyOf[d])

Push(d) ==
  /\ Called("push", d) /\ owner[d] = "caller"
  /\ \/ Rejects(d) /\ Refuse
     \/ ~Rejects(d) /\ MallocMayFail /\ Refuse
     \/ /\ ~Rejects(d)
        /\ \E c \in Nodes :
             /\ Alloc(c, d, NULL)
             /\ IF head = NULL
                THEN head' = c /\ next' = [next EXCEPT ![c] = NULL]
                ELSE tail \in live' /\ head' = head /\ next' = [next EXCEPT ![c] = NULL, ![tail] = c]
             /\ tail' = c
        /\ size' = size + 1
        /\ Return(Ok) /\ UNCHANGED <<flags, refs, it, seen>>
     \/ ~Rejects(d) /\ head # NULL /\ tail \notin live /\ Fault

\* The tail is not told of a first node.
Unshift(d) ==
  /\ Called("unshift", d) /\ owner[d] = "caller"
  /\ head # NULL \/ UnshiftOnEmpty
  /\ \/ Rejects(d) /\ Refuse
     \/ ~Rejects(d) /\ MallocMayFail /\ Refuse
     \/ /\ ~Rejects(d)
        /\ \E c \in Nodes :
             /\ Alloc(c, d, head)
             /\ head' = c /\ next' = [next EXCEPT ![c] = head]
        /\ size' = size + 1
        /\ Return(Ok) /\ UNCHANGED <<tail, flags, refs, it, seen>>

\* What n_list_pop does to a list of more than one node: its walk ends at
\* the node whose next is the tail.
BugStaleTail(c) == tail' = tail /\ Dealloc(tail, "caller", [next EXCEPT ![c] = NULL])
CutTail(c)      == tail' = c /\ Dealloc(tail, "caller", [next EXCEPT ![c] = NULL])

CutLast ==
  IF head = tail
  THEN head' = NULL /\ tail' = NULL /\ Dealloc(tail, "caller", next)
  ELSE \E c \in Range(List) : next[c] = tail /\ CutTail(c) /\ UNCHANGED head

PopLast ==
  IF tail \in Range(List)
  THEN /\ Spares(tail) /\ CutLast
       /\ size' = size - 1 /\ Return(Val(data[tail]))
  ELSE Fault

Pop ==
  /\ Called("pop", NULL)
  /\ \/ head = NULL /\ Refuse
     \/ head # NULL /\ PopLast

CutHead(whom) ==
  /\ head' = next[head]
  /\ tail' = IF next[head] = NULL THEN NULL ELSE tail
  /\ Dealloc(head, whom, next)

ShiftFirst == CutHead("caller") /\ size' = size - 1 /\ Return(Val(data[head]))

Shift ==
  /\ Called("shift", NULL)
  /\ \/ head = NULL /\ Refuse
     \/ head # NULL /\ Spares(head) /\ ShiftFirst

(***************************************************************************)
(* n_list_remove_nth, n_list_nth, n_list_lookup                            *)
(***************************************************************************)
InBounds(i) == head # NULL /\ i < size

RemoveNth(i) ==
  /\ Called("remove_nth", i)
  /\ \/ ~InBounds(i) /\ Refuse
     \/ InBounds(i) /\ i = 0 /\ Spares(head) /\ ShiftFirst
     \/ InBounds(i) /\ i # 0 /\ i = size - 1 /\ PopLast
     \/ /\ InBounds(i) /\ i # 0 /\ i < size - 1 /\ Spares(List[i + 1])
        /\ Dealloc(List[i + 1], "caller", LinksWithout(List[i], List[i + 1]))
        /\ size' = size - 1
        /\ Return(Val(Items[i + 1])) /\ UNCHANGED <<head, tail>>

Nth(i) ==
  /\ Called("nth", i)
  /\ Return(IF i < Len(Items) THEN Val(Items[i + 1]) ELSE Refused)
  /\ UNCHANGED <<list, iter>>

\* n_list_map, n_list_map_arg
Map ==
  /\ Called("map", NULL) /\ Return(<<"row", Items>>)
  /\ UNCHANGED <<list, iter>>

Lookup(k) ==
  /\ Called("lookup", k)
  /\ \/ ~OnList(k) /\ Refuse
     \/ /\ \E i \in DOMAIN Items :
             /\ KeyOf[Items[i]] = k /\ \A j \in 1 .. i - 1 : KeyOf[Items[j]] # k
             /\ Return(Val(Items[i]))
        /\ UNCHANGED <<list, iter>>

(***************************************************************************)
(* n_list_remove_ex: its loop at the head, then the one over the rest      *)
(***************************************************************************)
RemoveEx(k) ==
  /\ Called("remove_ex", k)
  /\ it # NULL => KeyOf[data[it]] # k
  /\ IF head = NULL
     THEN Return(Count(0))
     ELSE key' = k /\ removed' = 0 /\ pc' = "first" /\ UNCHANGED <<prev, node, res>>
  /\ UNCHANGED <<list, iter>>

Matches(c) == c # NULL /\ KeyOf[data[c]] = key

RemoveHead ==
  /\ pc = "first" /\ Matches(head)
  /\ head' = next[head]
  /\ Dealloc(head, Freed, next)
  /\ size' = size - 1 /\ removed' = removed + 1
  /\ UNCHANGED <<tail, pc, call, res, key, prev, node>>

\* The rest is left alone when one node was removed from a list of different
\* items.
BugAnyList == removed > 0
OneAtMost  == removed > 0 /\ uniq

HeadDone ==
  /\ pc = "first" /\ ~Matches(head)
  /\ IF head = NULL \/ OneAtMost
     THEN Return(Count(removed))
     ELSE prev' = head /\ node' = next[head] /\ pc' = "rest" /\ UNCHANGED <<res, key, removed>>
  /\ UNCHANGED <<list, iter, call>>

BugStays(c) == c
Step(c)     == next[c]

RestNext ==
  /\ pc = "rest" /\ node # NULL /\ ~Matches(node)
  /\ prev' = node /\ node' = Step(node)
  /\ UNCHANGED <<list, iter, pc, call, res, key, removed>>

TailAfterCut == IF node = tail THEN prev ELSE tail
BugMovesPrev == node
PrevAfterCut == prev

RemoveRest ==
  /\ pc = "rest" /\ Matches(node)
  /\ Dealloc(node, Freed, LinksWithout(prev, node))
  /\ tail' = TailAfterCut
  /\ size' = size - 1
  /\ IF uniq
     THEN Return(Count(removed + 1))
     ELSE /\ prev' = PrevAfterCut /\ node' = next[node] /\ removed' = removed + 1
          /\ UNCHANGED <<pc, res, key>>
  /\ UNCHANGED <<head, call>>

RestDone ==
  /\ pc = "rest" /\ node = NULL
  /\ Return(Count(removed))
  /\ UNCHANGED <<list, iter, call>>

(***************************************************************************)
(* n_list_iterator                                                         *)
(***************************************************************************)
IteratorStart ==
  /\ pc = "idle" /\ head # NULL
  /\ it' = head /\ due' = Range(Items) /\ seen' = {}
  /\ UNCHANGED <<list, pc, call, res, locals>>

\* The iterator goes on before its caller gets the datum.
BugNextDatum == data[next[it]]
Datum        == data[it]

IteratorGet ==
  /\ pc = "idle" /\ it # NULL
  /\ it' = next[it]
  /\ IF next[it] = NULL
     THEN due' = {} /\ seen' = {}
     ELSE due' = due /\ seen' = seen \cup {Datum}
  /\ UNCHANGED <<list, pc, call, res, locals>>

Loop == RemoveHead \/ HeadDone \/ RestNext \/ RemoveRest \/ RestDone

Next ==
  \/ New \/ Ref \/ Free \/ Pop \/ Shift \/ Map \/ Loop
  \/ \E d \in Data : Push(d) \/ Unshift(d) \/ Renew(d)
  \/ \E i \in Places : RemoveNth(i) \/ Nth(i)
  \/ \E k \in Keys : RemoveEx(k) \/ Lookup(k)
  \/ IteratorStart \/ IteratorGet

Spec     == Init /\ [][Next]_vars
FairSpec == Spec /\ WF_vars(Loop)

-----------------------------------------------------------------------------
(***************************************************************************)
(* What must hold of the list                                              *)
(***************************************************************************)
\* No call follows a pointer to a node that was freed, or to none.
NoFault == pc # "fault"

\* l->tail is the last node of a list that has one: n_list_push writes to it
\* and n_list_pop looks for it, without asking.
TailIsLast == head # NULL => tail = Last(List)

\* Every allocated node is on the list: none is leaked by a removal, and none
\* is on the list after it was freed.
NodesOnList == live = Range(List)

\* A data pointer is on the list once as long as it belongs to it, and never
\* after it was freed or given back to the caller.
OwnedOnce ==
  \A d \in Data :
    Cardinality({i \in DOMAIN Items : Items[i] = d}) = (IF owner[d] = "list" THEN 1 ELSE 0)

\* The cursors of n_list_remove_ex stay on the list whatever it frees, and
\* what they have passed does not match.
CursorsOnList ==
  pc = "rest" =>
    /\ prev \in Range(List) /\ node = next[prev]
    /\ \A c \in Range(List) \ Range(From(node)) : KeyOf[data[c]] # key

\* The nodes and what they point to; the chain and the pointers into it.
MemoryOK == NoFault /\ OwnedOnce
ChainOK  == TypeOK /\ TailIsLast /\ NodesOnList /\ CursorsOnList

\* While the caller adds items, and removes any but the one it would get
\* next, its iterator has exactly the items ahead that it has not returned.
IteratorAhead ==
  it # NULL =>
    /\ it \in Range(List)
    /\ {data[From(it)[i]] : i \in DOMAIN From(it)} = due \ seen

\* What the list holds once the n_list_remove_ex that is running returns.
Going(d) == pc \in {"first", "rest"} /\ KeyOf[d] = key
ToBe     == Only(Items, {i \in DOMAIN Items : ~Going(Items[i])})

Order == INSTANCE ItemSeq WITH
         items   <- ToBe,
         limit   <- 0,
         frozen  <- FALSE,
         MayFail <- MallocMayFail,
         Rows    <- {},
         res     <- IF pc \in {"first", "rest"}
                    THEN Count(removed + Len(Items) - Len(ToBe)) ELSE res

\* The list is a sequence: each call does to the chain of nodes what it
\* promises to do to the items, and answers accordingly.
IsASequence == Order!Spec

\* n_list_remove_ex returns.
CallsReturn == pc \in {"first", "rest"} ~> pc = "idle"
=============================================================================
