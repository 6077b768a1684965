------------------------------- MODULE KeyMap -------------------------------
(***************************************************************************)
(* What a trurlib hash table promises its caller, whatever the table it is *)
(* kept in: a partial map from keys to data.  A caller makes one call at a *)
(* time; the call takes effect once, its answer is fixed at that moment,   *)
(* and it may go on working (growing the table) before it returns.         *)
(*                                                                         *)
(* noash.c implements this specification; see Oash and its refinement.     *)
(***************************************************************************)
EXTENDS Naturals, FiniteSets

CONSTANTS
  Keys,    \* the keys a caller may use
  Data,    \* the data pointers a caller may store
  NULL     \* the null pointer, which a caller may store as well

Val    == Data \cup {NULL}
Absent == <<"absent">>

\* PUT_DIE refuses a key that is there, PUT_KEEP returns what is there,
\* PUT_REPLACE overwrites it.
Modes == {"die", "keep", "replace"}

VARIABLES
  map,     \* the datum of each key, or Absent
  limit,   \* how many entries a table that does not grow holds; 0: it grows
  req,     \* the call in progress, or NoCall
  done,    \* the call in progress has taken effect
  res      \* the answer of the last call, Nothing before it takes effect

vars == <<map, limit, req, done, res>>

Request == [op : {"put", "get", "remove"}, key : Keys, arg : Val, mode : Modes]
NoCall  == [op |-> "none", key |-> NULL, arg |-> NULL, mode |-> "none"]
Answer  == [ok : BOOLEAN, val : Val]
Nothing == [ok |-> FALSE, val |-> NULL]

Present  == {k \in Keys : map[k] # Absent}
Found(k) == IF k \in Present THEN [ok |-> TRUE, val |-> map[k]] ELSE Nothing

Init ==
  /\ map = [k \in Keys |-> Absent]
  /\ limit \in Nat \ {0}
  /\ req = NoCall
  /\ done = FALSE
  /\ res = Nothing

\* A table may be told to grow before anything is stored in it.
LetGrow ==
  /\ req = NoCall
  /\ Present = {}
  /\ limit' = 0
  /\ UNCHANGED <<map, req, done, res>>

Call ==
  /\ req = NoCall
  /\ req' \in Request /\ res' = Nothing
  /\ UNCHANGED <<map, limit, done>>

\* The call takes effect, and is over or still has work to do.
TakesEffect(op) ==
  /\ req # NoCall /\ ~done
  /\ req.op = op
  /\ \/ req' = NoCall /\ done' = FALSE
     \/ req' = req /\ done' = TRUE
  /\ UNCHANGED limit

PutNew ==
  /\ TakesEffect("put")
  /\ req.key \notin Present
  /\ map' = [map EXCEPT ![req.key] = req.arg]
  /\ res' = [ok |-> TRUE, val |-> req.arg]

\* Only a table that may not grow, and is full, refuses a new key.
PutRefused ==
  /\ TakesEffect("put")
  /\ req.key \notin Present
  /\ limit # 0 /\ Cardinality(Present) = limit
  /\ res' = Nothing
  /\ UNCHANGED map

PutOld ==
  /\ TakesEffect("put")
  /\ req.key \in Present
  /\ \/ req.mode = "die" /\ res' = Nothing /\ UNCHANGED map
     \/ req.mode = "keep" /\ res' = Found(req.key) /\ UNCHANGED map
     \/ /\ req.mode = "replace"
        /\ map' = [map EXCEPT ![req.key] = req.arg]
        /\ res' = [ok |-> TRUE, val |-> req.arg]

Get ==
  /\ TakesEffect("get")
  /\ res' = Found(req.key)
  /\ UNCHANGED map

Remove ==
  /\ TakesEffect("remove")
  /\ res' = Found(req.key)
  /\ map' = [map EXCEPT ![req.key] = Absent]

Return ==
  /\ done
  /\ req' = NoCall
  /\ done' = FALSE
  /\ UNCHANGED <<map, limit, res>>

Clean ==
  /\ req = NoCall
  /\ map' = [k \in Keys |-> Absent]
  /\ UNCHANGED <<limit, req, done, res>>

Effect == PutNew \/ PutRefused \/ PutOld \/ Get \/ Remove
Next   == LetGrow \/ Call \/ Effect \/ Return \/ Clean

\* A call that was made returns.
Spec == Init /\ [][Next]_vars /\ WF_vars(Effect \/ Return)
=============================================================================
