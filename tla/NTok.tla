-------------------------------- MODULE NTok --------------------------------
(***************************************************************************)
(* nstr_tok.c and nstr_tokl.c: n_str_tok cuts a token off a string,        *)
(* n_str_tokl_n copies the tokens of a string one after another into one   *)
(* block, and n_str_etokl_ext parses a line with quotes and escapes.       *)
(*                                                                         *)
(* A character stands for its class and is named by its place in the line, *)
(* so that a token is a sequence of places: what becomes of each character *)
(* can be told.  One step is one turn of a loop.                           *)
(*                                                                         *)
(* An operator called Bug... is the operator defined after it with a       *)
(* mistake the code might have had; no action uses it.                     *)
(***************************************************************************)
EXTENDS Integers, Sequences, FiniteSets

CONSTANTS
  Plain, White, Break, Quotes, Escape,   \* characters, and a set of them
  Fns,          \* the functions called: "tok", "tokl", "etokl"
  MaxLine,      \* bound: the length of a line
  TokLens,      \* the sizes of the buffers given to n_str_tok
  TokensSize    \* tokens_size in n_str_tokl_n, and ALLOC_STEP

Chars == {Plain, White, Break, Escape} \cup Quotes

\* A character is of one class only.
ASSUME TokAssumption ==
  /\ MaxLine \in Nat /\ TokLens \subseteq Nat \ {0} /\ TokensSize \in Nat \ {0, 1}
  /\ Fns \subseteq {"tok", "tokl", "etokl"}
  /\ Plain \notin {White, Break, Escape} \cup Quotes /\ Escape \notin {White, Break} \cup Quotes
  /\ White # Break /\ {White, Break} \cap Quotes = {}

VARIABLES
  fn, line,        \* the function, and its string: a function from 0
  pc,
  s,               \* s in n_str_tok, lindex in lp_parse
  \* n_str_tok, n_str_tokl_n
  room, buf,       \* the memory that scpy and tok point into
  scpy, tok, p,    \* places in buf, and a place in delim
  slots, n,        \* the array tokens and the number of its places used
  \* lp_parse, n_str_etokl_ext
  state, quote, isBreak,
  token,           \* the characters stored
  list             \* the tokens found

inTok   == <<room, buf, scpy, tok, p, slots, n>>
inParse == <<state, quote, isBreak, token, list>>
vars    == <<fn, line, pc, s, inTok, inParse>>

Nul  == -1      \* the byte that ends a token in buf
Null == -2      \* the pointer
Junk == -3      \* memory not written

slen  == Cardinality(DOMAIN line)
delim == [i \in 0 .. 1 |-> IF i = 0 THEN White ELSE Break]
IsDelim(c) == \E i \in DOMAIN delim : delim[i] = c

Lines(C) == UNION {[0 .. k - 1 -> C] : k \in 0 .. MaxLine}

TypeOK ==
  /\ fn \in Fns /\ line \in Lines(Chars)
  /\ pc \in {"head", "copy", "skip", "push", "parse", "end", "done", "failed", "died"}
  /\ s \in 0 .. slen /\ room \in Nat /\ buf \in [0 .. room - 1 -> DOMAIN line \cup {Nul, Junk}]
  /\ scpy \in Nat /\ tok \in Nat /\ p \in 0 .. 2
  /\ n \in DOMAIN slots /\ \A i \in DOMAIN slots : slots[i] \in 0 .. room \cup {Null, Junk}
  /\ state \in {"white", "token", "quote"} /\ quote \in Quotes \cup {Nul}
  /\ isBreak \in BOOLEAN /\ token \in Seq(DOMAIN line) /\ list \in Seq(Seq(DOMAIN line))

Init ==
  /\ fn \in Fns
  /\ line \in Lines(IF fn = "etokl" THEN Chars ELSE {Plain, White, Break})
  /\ pc = "head" /\ s = 0
  /\ room \in CASE fn = "tok" -> TokLens [] fn = "tokl" -> {slen + 1} [] OTHER -> {0}
  /\ buf = [i \in 0 .. room - 1 |-> Junk]
  /\ scpy = 0 /\ tok = 0 /\ p = 0
  /\ slots = [i \in 0 .. TokensSize - 1 |-> IF i = 0 THEN 0 ELSE Null] /\ n = 1
  /\ state = "white" /\ quote = Nul /\ isBreak = FALSE /\ token = <<>> /\ list = <<>>

Goto(l) == pc' = l

(***************************************************************************)
(* n_str_tok                                                               *)
(***************************************************************************)
\* lim - tok; n_str_tokl_n passes slen, whatever is left of its block.
lim == scpy + (IF fn = "tok" THEN room ELSE slen) - 1

\* strspn goes to k.
Spans(k) ==
  /\ k < slen => ~IsDelim(line[k])
  /\ \A i \in s .. k - 1 : IsDelim(line[i])

TokStart ==
  /\ pc = "head" /\ fn \in {"tok", "tokl"} /\ s < slen
  /\ \E k \in s .. slen : Spans(k) /\ s' = k
  /\ tok' = scpy /\ Goto("copy")
  /\ UNCHANGED <<fn, line, room, buf, scpy, p, slots, n, inParse>>

Stored(c) == [buf EXCEPT ![tok] = c]

Copy ==
  /\ pc = "copy" /\ s < slen /\ tok <= lim /\ ~IsDelim(line[s])
  /\ buf' = Stored(s) /\ tok' = tok + 1 /\ s' = s + 1
  /\ UNCHANGED <<fn, line, pc, room, scpy, p, slots, n, inParse>>

\* A delimiter ends the token, and those after it are skipped.
Stop ==
  /\ pc = "copy" /\ s < slen /\ tok <= lim /\ IsDelim(line[s])
  /\ buf' = Stored(Nul) /\ s' = s + 1 /\ p' = 0 /\ Goto("skip")
  /\ UNCHANGED <<fn, line, room, scpy, tok, slots, n, inParse>>

CopyEnds ==
  /\ pc = "copy" /\ (s = slen \/ tok > lim)
  /\ buf' = Stored(Nul) /\ Goto("push")
  /\ UNCHANGED <<fn, line, s, room, scpy, tok, p, slots, n, inParse>>

\* The search for the next one starts over from the second delimiter.
Skip ==
  /\ pc = "skip" /\ s < slen /\ p \in DOMAIN delim
  /\ IF line[s] = delim[p] THEN s' = s + 1 /\ p' = 1 ELSE p' = p + 1 /\ UNCHANGED s
  /\ UNCHANGED <<fn, line, pc, room, buf, scpy, tok, slots, n, inParse>>

SkipEnds ==
  /\ pc = "skip" /\ (s = slen \/ p \notin DOMAIN delim)
  /\ Goto("push")
  /\ UNCHANGED <<fn, line, s, inTok, inParse>>

(***************************************************************************)
(* n_str_tokl_n                                                            *)
(***************************************************************************)
Full == n + 1 \notin DOMAIN slots

BugCleared == n + 2
Cleared    == n + 1

BugAfterToken == tok + 2
AfterToken    == tok + 1

\* realloc of tokens: what is behind the tokens is set to NULL.
Larger(t) ==
  [i \in 0 .. Cardinality(DOMAIN t) + TokensSize - 1 |->
     IF i \in DOMAIN t THEN t[i] ELSE IF i >= Cleared THEN Null ELSE Junk]

\* The token is n_str_tok's answer, or one more in the array.
Push ==
  /\ pc = "push"
  /\ IF fn = "tok" THEN Goto("done") /\ UNCHANGED <<scpy, slots, n>>
     ELSE LET t == [slots EXCEPT ![n] = scpy]
          IN  /\ n' = n + 1 /\ scpy' = AfterToken
              /\ \/ ~Full /\ slots' = t /\ Goto("head")
                 \/ Full /\ slots' = Larger(t) /\ Goto("head")
                 \/ Full /\ slots' = Larger(t) /\ Goto("failed")
  /\ UNCHANGED <<fn, line, s, room, buf, tok, p, inParse>>

Return ==
  /\ pc = "head" /\ s = slen
  /\ Goto("done")
  /\ UNCHANGED <<fn, line, s, inTok, inParse>>

(***************************************************************************)
(* lp_parse: what becomes of the character at lindex.                      *)
(***************************************************************************)
toksize == slen + 1

\* storechr
Store(t, c) == IF Len(t) < toksize THEN Append(t, c) ELSE t

ParseStart ==
  /\ pc = "head" /\ fn = "etokl" /\ s < slen
  /\ state' = "white" /\ quote' = Nul /\ isBreak' = FALSE /\ token' = <<>>
  /\ Goto("parse")
  /\ UNCHANGED <<fn, line, s, inTok, list>>

Keep == token' = Store(token, s)
Drop == token' = token

OnBreak ==
  /\ line[s] = Break
  /\ IF state = "quote" THEN Keep /\ UNCHANGED <<pc, isBreak>>
                        ELSE Drop /\ isBreak' = TRUE /\ Goto("end")
  /\ s' = s + 1 /\ UNCHANGED <<state, quote>>

OnQuote ==
  /\ line[s] \in Quotes
  /\ CASE state # "quote" -> Drop /\ state' = "quote" /\ quote' = line[s]
       [] quote = line[s] -> Drop /\ state' = "token" /\ quote' = Nul
       [] OTHER -> Keep /\ UNCHANGED <<state, quote>>
  /\ s' = s + 1 /\ UNCHANGED <<pc, isBreak>>

OnWhite ==
  /\ line[s] = White
  /\ CASE state = "white" -> Drop /\ s' = s + 1 /\ UNCHANGED <<pc, state>>
       [] state = "token" -> Drop /\ s' = s /\ state' = "white" /\ Goto("end")
       [] state = "quote" -> Keep /\ s' = s + 1 /\ UNCHANGED <<pc, state>>
  /\ UNCHANGED <<quote, isBreak>>

\* An escape is stored at the end of the line, and before another one, which
\* is then looked at; at the start of a token it is looked at again.
Special(c) == c \in {White, Break} \cup Quotes

BugAfterEscape == state
AfterEscape    == "token"

BugNextStored(i) == i
NextStored(i)    == i + 1

OnEscape ==
  /\ line[s] = Escape
  /\ IF s + 1 = slen
     THEN Keep /\ s' = s + 1 /\ Goto("end") /\ UNCHANGED state
     ELSE LET nc == line[s + 1]
              t  == IF nc = Escape THEN Store(token, s) ELSE token
              i  == IF nc = Escape THEN s + 1 ELSE s
          IN  /\ CASE state = "white" -> token' = t /\ s' = i /\ state' = AfterEscape
                   [] state # "white" /\ Special(nc) ->
                        token' = Store(t, NextStored(i)) /\ s' = i + 2 /\ UNCHANGED state
                   [] OTHER -> token' = Store(t, i) /\ s' = i + 1 /\ UNCHANGED state
              /\ UNCHANGED pc
  /\ UNCHANGED <<quote, isBreak>>

OnPlain ==
  /\ line[s] = Plain
  /\ Keep /\ s' = s + 1
  /\ state' = IF state = "white" THEN "token" ELSE state
  /\ UNCHANGED <<pc, quote, isBreak>>

Parse ==
  /\ pc = "parse" /\ s < slen
  /\ OnBreak \/ OnQuote \/ OnWhite \/ OnEscape \/ OnPlain
  /\ UNCHANGED <<fn, line, inTok, list>>

ParseEnds ==
  /\ pc = "parse" /\ s = slen
  /\ Goto("end")
  /\ UNCHANGED <<fn, line, s, inTok, inParse>>

\* n_str_etokl_ext: the token, if there is one, and the character that ended
\* it.
Collect ==
  /\ pc = "end"
  /\ IF Len(token) < toksize
     THEN /\ Goto("head")
          /\ list' = list \o (IF token = <<>> THEN <<>> ELSE <<token>>)
                          \o (IF isBreak THEN <<<<s - 1>>>> ELSE <<>>)
     ELSE Goto("died") /\ UNCHANGED list
  /\ UNCHANGED <<fn, line, s, inTok, state, quote, isBreak, token>>

(***************************************************************************)
Cut     == TokStart \/ Copy \/ Stop \/ CopyEnds \/ Skip \/ SkipEnds \/ Push
Scan    == ParseStart \/ Parse \/ ParseEnds \/ Collect
Next    == Cut \/ Scan \/ Return
Spec    == Init /\ [][Next]_vars /\ WF_vars(Next)

(***************************************************************************)
(* What is checked                                                         *)
(***************************************************************************)
\* No byte is stored outside of the buffer: the tokens of a string and the
\* bytes that end them fit into one block of its length and one; and no token
\* that lp_parse stores fills its own, which its assertion is about.
Inside == TypeOK /\ (pc = "copy" => tok \in DOMAIN buf) /\ pc # "died"

\* "NULL terminated array of tokens", and no token is lost when it grows.
Terminated ==
  fn = "tokl" /\ pc = "done" =>
    /\ \A i \in DOMAIN slots : slots[i] = Null <=> i >= n
    /\ \A i, j \in 1 .. n - 1 : i < j => slots[i] < slots[j]

\* What the caller of n_str_tokl_n reads: the tokens are the runs of
\* characters that are not delimiters, in order; but for the last, which may
\* be empty.
TokenAt(b) ==
  LET e == CHOOSE k \in b .. room - 1 : buf[k] = Nul /\ \A i \in b .. k - 1 : buf[i] # Nul
  IN  [i \in 1 .. e - b |-> buf[b + i - 1]]

Words ==
  {w \in (0 .. slen - 1) \X (1 .. slen) :
     /\ w[1] < w[2] /\ \A k \in w[1] .. w[2] - 1 : ~IsDelim(line[k])
     /\ w[1] > 0 => IsDelim(line[w[1] - 1])
     /\ w[2] < slen => IsDelim(line[w[2]])}

WordsFound ==
  fn = "tokl" /\ pc = "done" =>
    LET found == {TokenAt(slots[i]) : i \in 1 .. n - 1}
    IN  /\ found \ {<<>>} = {[k \in 1 .. w[2] - w[1] |-> w[1] + k - 1] : w \in Words}
        /\ \A i \in 1 .. n - 2 : TokenAt(slots[i]) # <<>>
        /\ n - 1 <= Cardinality(Words) + 1

TokensRight == Terminated /\ WordsFound

\* n_str_etokl_ext stores no character twice nor out of order, and none is
\* lost but white space, quotes and escapes; plain characters that follow
\* one another are in one token.  On a line without quotes and escapes the
\* tokens are the words and the breaks.
Positions == {x \in (1 .. Len(list)) \X (1 .. slen) : x[2] <= Len(list[x[1]])}
Found     == {list[x[1]][x[2]] : x \in Positions}

CharactersKept ==
  /\ \A x, y \in Positions :
       x[1] < y[1] \/ (x[1] = y[1] /\ x[2] < y[2]) => list[x[1]][x[2]] < list[y[1]][y[2]]
  /\ fn = "etokl" /\ pc = "done" =>
       /\ \A c \in DOMAIN line \ Found : line[c] \in {White, Escape} \cup Quotes
       /\ \A c \in Found : line[c] = Plain /\ c + 1 < slen /\ line[c + 1] = Plain =>
            \E x \in Positions : list[x[1]][x[2]] = c /\ <<x[1], x[2] + 1>> \in Positions
       /\ (\A c \in DOMAIN line : line[c] \in {Plain, White, Break}) =>
            /\ Found = {c \in DOMAIN line : line[c] # White}
            /\ \A t \in DOMAIN list, c \in 0 .. slen - 1 :
                 line[c] # Plain /\ (\E i \in DOMAIN list[t] : list[t][i] = c) => Len(list[t]) = 1
            /\ \A x \in Positions :
                 x[2] > 1 => list[x[1]][x[2]] = list[x[1]][x[2] - 1] + 1

\* Every call comes back.
Ends == <>(pc \in {"done", "failed"})
=============================================================================
