----------------------------- MODULE NTokProofs -----------------------------
(***************************************************************************)
(* What is proved of NTok, for lines of any length: n_str_tokl_n and       *)
(* n_str_etokl_ext store nothing outside of the memory they asked for, the *)
(* tokens of the first are the words of the line, and those of the second  *)
(* hold every character it has to keep, once and in order.                 *)
(*                                                                         *)
(* n_str_tok by itself is not among the functions: it ends a token that    *)
(* fills the caller's buffer one byte behind it.                           *)
(***************************************************************************)
EXTENDS NTok, FiniteSetTheorems, TLAPS

\* What the callers avoid.
NoTok == "tok" \notin Fns

\* Which function each loop belongs to.
Loop ==
  /\ fn = "tokl" => room = slen + 1
  /\ pc \in {"copy", "skip", "push", "failed"} => fn = "tokl"
  /\ pc \in {"parse", "end", "died"} => fn = "etokl"

\* A token and the byte that ends it take no more of the block than they took
\* of the line, but for the byte behind the last.
Behind(b) == b <= s \/ (s = slen /\ b <= slen + 1)

Placed ==
  fn = "tokl" =>
    /\ pc \in {"head", "done"} => Behind(scpy)
    /\ pc = "copy" => scpy <= tok /\ tok <= s
    /\ pc = "skip" => scpy <= tok /\ tok + 1 <= s
    /\ pc = "push" => scpy <= tok /\ Behind(tok + 1)

\* The array has no holes.
Array == \E c \in Nat : DOMAIN slots = 0 .. c - 1

\* A token of lp_parse has no more characters than were read.
Short ==
  /\ pc \in {"parse", "end"} => Len(token) <= s
  /\ pc = "parse" => ~isBreak
  /\ isBreak /\ pc = "end" => s > 0

IndInv == TypeOK /\ Loop /\ Placed /\ Array /\ Short /\ pc # "died"

-----------------------------------------------------------------------------
\* slen is the length of the line.
LEMMA Length ==
  ASSUME line \in Lines(Chars)
  PROVE  slen \in Nat /\ DOMAIN line = 0 .. slen - 1 /\ line \in [0 .. slen - 1 -> Chars]
<1>1. PICK k \in 0 .. MaxLine : line \in [0 .. k - 1 -> Chars]
  BY DEF Lines
<1>2. k \in Nat /\ DOMAIN line = 0 .. k - 1
  BY <1>1, TokAssumption
<1>3. Cardinality(0 .. k - 1) = k
  <2>1. Cardinality(0 .. k - 1) = IF 0 <= k - 1 THEN (k - 1) - 0 + 1 ELSE 0
    BY <1>2, FS_Interval
  <2>. QED  BY <1>2, <2>1
<1>. QED  BY <1>1, <1>2, <1>3 DEF slen

LEMMA InitIndInv == ASSUME NoTok, Init PROVE IndInv
<1>1. fn \in {"tokl", "etokl"} /\ fn \in Fns
  BY TokAssumption DEF Init, NoTok
<1>2. line \in Lines(Chars)
  BY DEF Init, Lines, Chars
<1>3. slen \in Nat /\ DOMAIN line = 0 .. slen - 1
  BY <1>2, Length
<1>4. room = (IF fn = "tokl" THEN slen + 1 ELSE 0) /\ room \in Nat
  BY <1>1, <1>3 DEF Init
<1>5. buf \in [0 .. room - 1 -> DOMAIN line \cup {Nul, Junk}]
  BY DEF Init
<1>6. /\ DOMAIN slots = 0 .. TokensSize - 1 /\ TokensSize \in Nat /\ n \in DOMAIN slots
      /\ \A i \in DOMAIN slots : slots[i] \in 0 .. room \cup {Null, Junk}
  BY <1>4, TokAssumption DEF Init
<1>7. s \in 0 .. slen /\ pc = "head" /\ scpy = 0 /\ tok = 0 /\ p \in 0 .. 2
  BY <1>3 DEF Init
<1>8. /\ state = "white" /\ quote \in Quotes \cup {Nul} /\ isBreak = FALSE
      /\ token = <<>> /\ list = <<>>
  BY DEF Init
<1>9. token \in Seq(DOMAIN line) /\ list \in Seq(Seq(DOMAIN line))
  BY <1>8
<1>10. TypeOK
  BY <1>1, <1>2, <1>4, <1>5, <1>6, <1>7, <1>8, <1>9 DEF TypeOK
<1>. QED  BY <1>1, <1>3, <1>4, <1>6, <1>8, <1>10 DEF Init, IndInv, Loop, Placed, Behind, Array, Short

-----------------------------------------------------------------------------
(***************************************************************************)
(* n_str_tokl_n                                                            *)
(***************************************************************************)
LEMMA TokStartIndInv == ASSUME IndInv, NoTok, TokStart PROVE IndInv'
<1>1. slen \in Nat /\ slen' = slen /\ s \in 0 .. slen /\ s' \in s .. slen
  BY Length DEF IndInv, TypeOK, TokStart, slen
<1>2. fn = "tokl" /\ scpy <= s /\ scpy \in Nat
  BY <1>1, TokAssumption DEF IndInv, TypeOK, Placed, Behind, TokStart, NoTok
<1>3. TypeOK'
  BY <1>1, <1>2 DEF IndInv, TypeOK, TokStart, Goto, inParse
<1>. QED  BY <1>1, <1>2, <1>3 DEF IndInv, Loop, Placed, Array, Short, TokStart, Goto, inParse

\* A byte stored at a place of the block.
LEMMA StoredInBlock ==
  ASSUME IndInv, NEW c \in DOMAIN line \cup {Nul, Junk}
  PROVE  Stored(c) \in [0 .. room - 1 -> DOMAIN line \cup {Nul, Junk}]
BY DEF IndInv, TypeOK, Stored

LEMMA CopyIndInv == ASSUME IndInv, NoTok, Copy PROVE IndInv'
<1>1. /\ slen \in Nat /\ slen' = slen /\ s \in 0 .. slen - 1 /\ s \in DOMAIN line
      /\ UNCHANGED <<fn, line, pc, room, scpy, p, slots, n, inParse>>
  BY Length DEF IndInv, TypeOK, Copy, slen
<1>2. /\ s' = s + 1 /\ tok' = tok + 1 /\ s' \in 0 .. slen /\ tok \in Nat /\ scpy \in Nat
      /\ pc = "copy" /\ fn = "tokl" /\ scpy <= tok /\ tok <= s
  BY <1>1 DEF Copy, IndInv, TypeOK, Loop, Placed
<1>3. buf' \in [0 .. room - 1 -> DOMAIN line \cup {Nul, Junk}]
  BY <1>1, StoredInBlock DEF Copy
<1>4. TypeOK'
  BY <1>1, <1>2, <1>3 DEF IndInv, TypeOK, inParse
<1>. QED  BY <1>1, <1>2, <1>4 DEF IndInv, Loop, Placed, Array, Short, inParse

LEMMA StopIndInv == ASSUME IndInv, NoTok, Stop PROVE IndInv'
<1>1. /\ slen \in Nat /\ slen' = slen /\ s \in 0 .. slen - 1 /\ s' = s + 1 /\ p' = 0
      /\ UNCHANGED <<fn, line, room, scpy, tok, slots, n, inParse>>
  BY Length DEF IndInv, TypeOK, Stop, slen
<1>2. /\ tok \in Nat /\ scpy \in Nat /\ pc' = "skip" /\ fn = "tokl" /\ scpy <= tok /\ tok <= s
  BY <1>1 DEF Stop, Goto, IndInv, TypeOK, Loop, Placed
<1>3. buf' \in [0 .. room - 1 -> DOMAIN line \cup {Nul, Junk}]
  BY StoredInBlock DEF Stop
<1>4. TypeOK'
  BY <1>1, <1>2, <1>3 DEF IndInv, TypeOK, inParse
<1>. QED  BY <1>1, <1>2, <1>4 DEF IndInv, Loop, Placed, Array, Short, inParse

\* When the block, as long as the line, is full, so is the line at its end.
LEMMA CopyEndsIndInv == ASSUME IndInv, NoTok, CopyEnds PROVE IndInv'
<1>1. /\ slen \in Nat /\ slen' = slen /\ s \in 0 .. slen
      /\ UNCHANGED <<fn, line, s, room, scpy, tok, p, slots, n, inParse>>
  BY Length DEF IndInv, TypeOK, CopyEnds, slen
<1>2. /\ tok \in Nat /\ scpy \in Nat /\ pc' = "push" /\ fn = "tokl" /\ scpy <= tok /\ tok <= s
  BY <1>1 DEF CopyEnds, Goto, IndInv, TypeOK, Loop, Placed
<1>3. s = slen
  BY <1>1, <1>2 DEF CopyEnds, lim
<1>4. buf' \in [0 .. room - 1 -> DOMAIN line \cup {Nul, Junk}]
  BY StoredInBlock DEF CopyEnds
<1>5. TypeOK'
  BY <1>1, <1>2, <1>4 DEF IndInv, TypeOK, inParse
<1>. QED  BY <1>1, <1>2, <1>3, <1>5 DEF IndInv, Loop, Placed, Behind, Array, Short, inParse

LEMMA SkipIndInv == ASSUME IndInv, NoTok, Skip PROVE IndInv'
<1>1. /\ slen \in Nat /\ slen' = slen /\ s \in 0 .. slen - 1 /\ DOMAIN delim = 0 .. 1
      /\ UNCHANGED <<fn, line, pc, room, buf, scpy, tok, slots, n, inParse>>
  BY Length DEF IndInv, TypeOK, Skip, slen, delim
<1>2. /\ s' \in s .. slen /\ p' \in 0 .. 2 /\ tok \in Nat /\ scpy \in Nat
      /\ pc = "skip" /\ fn = "tokl" /\ scpy <= tok /\ tok + 1 <= s
  BY <1>1 DEF Skip, IndInv, TypeOK, Loop, Placed
<1>3. TypeOK'
  BY <1>1, <1>2 DEF IndInv, TypeOK, inParse
<1>. QED  BY <1>1, <1>2, <1>3 DEF IndInv, Loop, Placed, Array, Short, inParse

LEMMA SkipEndsIndInv == ASSUME IndInv, NoTok, SkipEnds PROVE IndInv'
<1>1. /\ slen \in Nat /\ slen' = slen /\ s \in 0 .. slen
      /\ UNCHANGED <<fn, line, s, room, buf, scpy, tok, p, slots, n, inParse>>
  BY Length DEF IndInv, TypeOK, SkipEnds, slen, inTok
<1>2. /\ pc' = "push" /\ tok \in Nat /\ scpy \in Nat /\ fn = "tokl" /\ scpy <= tok /\ tok + 1 <= s
  BY <1>1 DEF SkipEnds, Goto, IndInv, TypeOK, Loop, Placed
<1>3. TypeOK'
  BY <1>1, <1>2 DEF IndInv, TypeOK, inParse
<1>. QED  BY <1>1, <1>2, <1>3 DEF IndInv, Loop, Placed, Behind, Array, Short, inParse

\* The next token begins in the block, or just behind it at the end of the
\* line; the array has room for it.
LEMMA PushIndInv == ASSUME IndInv, NoTok, Push PROVE IndInv'
<1>1. /\ slen \in Nat /\ slen' = slen /\ s \in 0 .. slen
      /\ UNCHANGED <<fn, line, s, room, buf, tok, p, inParse>>
  BY Length DEF IndInv, TypeOK, Push, slen
<1>2. /\ fn = "tokl" /\ fn # "tok" /\ room = slen + 1 /\ tok \in Nat /\ scpy \in Nat
      /\ scpy <= tok /\ Behind(tok + 1)
  BY <1>1 DEF Push, IndInv, TypeOK, Loop, Placed
<1>3. n' = n + 1 /\ scpy' = tok + 1 /\ pc' \in {"head", "failed"}
  BY <1>2 DEF Push, Goto, AfterToken
<1>4. scpy \in 0 .. room /\ (scpy' <= s' \/ (s' = slen' /\ scpy' <= slen' + 1))
  BY <1>1, <1>2, <1>3 DEF Behind
<1>5. PICK c \in Nat : DOMAIN slots = 0 .. c - 1
  BY DEF IndInv, Array
<1> DEFINE t == [slots EXCEPT ![n] = scpy]
<1>6. /\ DOMAIN t = 0 .. c - 1 /\ n \in 0 .. c - 1
      /\ \A i \in DOMAIN t : t[i] \in 0 .. room \cup {Null, Junk}
  BY <1>4, <1>5 DEF IndInv, TypeOK
<1>7. \/ ~Full /\ slots' = t
      \/ Full /\ slots' = Larger(t)
  BY <1>2 DEF Push
<1>8. /\ \E e \in Nat : DOMAIN slots' = 0 .. e - 1
      /\ n + 1 \in DOMAIN slots'
      /\ \A i \in DOMAIN slots' : slots'[i] \in 0 .. room \cup {Null, Junk}
  <2>1. CASE ~Full /\ slots' = t
    BY <1>5, <1>6, <2>1 DEF Full
  <2>2. CASE Full /\ slots' = Larger(t)
    <3>1. Cardinality(0 .. c - 1) = c
      <4>1. Cardinality(0 .. c - 1) = IF 0 <= c - 1 THEN (c - 1) - 0 + 1 ELSE 0
        BY <1>5, FS_Interval
      <4>. QED  BY <1>5, <4>1
    <3>2. /\ DOMAIN Larger(t) = 0 .. c + TokensSize - 1
          /\ \A i \in DOMAIN Larger(t) : Larger(t)[i] \in 0 .. room \cup {Null, Junk}
      <4>1. Larger(t) = [i \in 0 .. c + TokensSize - 1 |->
                           IF i \in DOMAIN t THEN t[i] ELSE IF i >= Cleared THEN Null ELSE Junk]
        <5>. HIDE DEF t
        <5>1. Cardinality(DOMAIN t) = c
          BY <1>6, <3>1, Zenon
        <5>. QED  BY <5>1, Zenon DEF Larger
      <4>. HIDE DEF t
      <4>. QED  BY <1>6, <4>1
    <3>3. c + TokensSize \in Nat /\ n + 1 \in 0 .. c + TokensSize - 1
      BY <1>5, <1>6, TokAssumption
    <3>4. DOMAIN slots' = 0 .. (c + TokensSize) - 1
      <4>1. c + TokensSize - 1 = (c + TokensSize) - 1
        BY <1>5, TokAssumption
      <4>. HIDE DEF t
      <4>. QED  BY <2>2, <3>2, <4>1
    <3>5. \E e \in Nat : DOMAIN slots' = 0 .. e - 1
      BY <3>3, <3>4
    <3>. HIDE DEF t
    <3>. QED  BY <2>2, <3>2, <3>3, <3>5
  <2>. QED  BY <1>7, <2>1, <2>2
<1>9. TypeOK'
  BY <1>1, <1>2, <1>3, <1>8 DEF IndInv, TypeOK, inParse
<1>. QED  BY <1>1, <1>2, <1>3, <1>4, <1>8, <1>9 DEF IndInv, Loop, Placed, Behind, Array, Short, inParse

LEMMA ReturnIndInv == ASSUME IndInv, NoTok, Return PROVE IndInv'
<1>1. /\ slen' = slen /\ pc = "head" /\ pc' = "done"
      /\ UNCHANGED <<fn, line, s, room, buf, scpy, tok, p, slots, n, inParse>>
  BY DEF Return, Goto, inTok, slen
<1>2. TypeOK'
  BY <1>1 DEF IndInv, TypeOK, inParse
<1>. QED  BY <1>1, <1>2 DEF IndInv, Loop, Placed, Behind, Array, Short, inParse

-----------------------------------------------------------------------------
(***************************************************************************)
(* lp_parse and n_str_etokl_ext                                            *)
(***************************************************************************)
LEMMA StoreKept ==
  ASSUME NEW D, NEW t \in Seq(D), NEW c \in D
  PROVE  Store(t, c) \in Seq(D) /\ Len(Store(t, c)) \in Nat /\ Len(Store(t, c)) <= Len(t) + 1
BY DEF Store

LEMMA ParseStartIndInv == ASSUME IndInv, NoTok, ParseStart PROVE IndInv'
<1>1. /\ slen \in Nat /\ slen' = slen /\ s \in 0 .. slen
      /\ UNCHANGED <<fn, line, s, room, buf, scpy, tok, p, slots, n, list>>
  BY Length DEF IndInv, TypeOK, ParseStart, slen, inTok
<1>2. /\ fn = "etokl" /\ pc' = "parse" /\ state' = "white" /\ quote' = Nul /\ isBreak' = FALSE
      /\ token' = <<>>
  BY DEF ParseStart, Goto
<1>3. TypeOK'
  <2>1. token' \in Seq(DOMAIN line)
    BY <1>2
  <2>. QED  BY <1>1, <1>2, <2>1 DEF IndInv, TypeOK
<1>. QED  BY <1>1, <1>2, <1>3 DEF IndInv, Loop, Placed, Array, Short

\* What any turn of the loop of lp_parse has to see to.
LEMMA ParseStep ==
  ASSUME IndInv, pc = "parse", slen' = slen, UNCHANGED <<fn, line, inTok, list>>,
         s' \in 0 .. slen, token' \in Seq(DOMAIN line), Len(token') <= s',
         pc' \in {"parse", "end"}, state' \in {"white", "token", "quote"},
         quote' \in Quotes \cup {Nul}, isBreak' \in BOOLEAN,
         isBreak' => pc' = "end" /\ s' > 0
  PROVE  IndInv'
<1>1. fn = "etokl" /\ UNCHANGED <<fn, line, room, buf, scpy, tok, p, slots, n, list>>
  BY DEF IndInv, Loop, inTok
<1>2. TypeOK'
  BY <1>1 DEF IndInv, TypeOK
<1>. QED  BY <1>1, <1>2 DEF IndInv, Loop, Placed, Array, Short

LEMMA ParseIndInv == ASSUME IndInv, NoTok, Parse PROVE IndInv'
<1>1. /\ slen \in Nat /\ slen' = slen /\ s \in 0 .. slen - 1 /\ DOMAIN line = 0 .. slen - 1
      /\ pc = "parse" /\ UNCHANGED <<fn, line, inTok, list>>
  BY Length DEF IndInv, TypeOK, Parse, slen
<1>2. /\ token \in Seq(DOMAIN line) /\ Len(token) \in Nat /\ Len(token) <= s /\ ~isBreak
      /\ state \in {"white", "token", "quote"} /\ quote \in Quotes \cup {Nul}
      /\ isBreak \in BOOLEAN
  BY <1>1 DEF IndInv, TypeOK, Short
<1>3. /\ s \in DOMAIN line /\ s + 1 \in 0 .. slen
      /\ Store(token, s) \in Seq(DOMAIN line) /\ Len(Store(token, s)) <= s + 1
  <2>1. s \in DOMAIN line
    BY <1>1
  <2>2. /\ Store(token, s) \in Seq(DOMAIN line) /\ Len(Store(token, s)) \in Nat
        /\ Len(Store(token, s)) <= Len(token) + 1
    BY <1>2, <2>1, StoreKept
  <2>. QED  BY <1>1, <1>2, <2>1, <2>2
<1>4. CASE OnBreak
  <2>1. /\ s' = s + 1 /\ UNCHANGED <<state, quote>>
        /\ \/ token' = Store(token, s) /\ UNCHANGED <<pc, isBreak>>
           \/ token' = token /\ isBreak' = TRUE /\ pc' = "end"
    BY <1>4 DEF OnBreak, Keep, Drop, Goto
  <2>2. token' \in Seq(DOMAIN line) /\ Len(token') <= s'
    BY <1>1, <1>2, <1>3, <2>1
  <2>3. s' \in 0 .. slen /\ s' > 0
    BY <1>1, <2>1
  <2>4. \/ pc' = pc /\ isBreak' = isBreak
        \/ pc' = "end" /\ isBreak' = TRUE
    BY <2>1, Zenon
  <2>5. isBreak' \in BOOLEAN /\ (isBreak' => pc' = "end")
    <3>1. CASE pc' = pc /\ isBreak' = isBreak
      <4>1. isBreak \in BOOLEAN /\ ~isBreak
        BY <1>2
      <4>. QED  BY <3>1, <4>1, Zenon
    <3>2. CASE pc' = "end" /\ isBreak' = TRUE
      BY <3>2, Zenon
    <3>. QED  BY <2>4, <3>1, <3>2, Zenon
  <2>6. pc' \in {"parse", "end"}
    BY <1>1, <2>4, Zenon
  <2>. QED  BY <1>1, <1>2, <2>1, <2>2, <2>3, <2>5, <2>6, ParseStep
<1>5. CASE OnQuote
  <2>1. /\ s' = s + 1 /\ UNCHANGED <<pc, isBreak>> /\ token' \in {token, Store(token, s)}
        /\ state' \in {"white", "token", "quote"} /\ quote' \in Quotes \cup {Nul}
    BY <1>2, <1>5 DEF OnQuote, Keep, Drop
  <2>2. token' \in Seq(DOMAIN line) /\ Len(token') <= s'
    BY <1>1, <1>2, <1>3, <2>1
  <2>. QED  BY <1>1, <1>2, <1>3, <2>1, <2>2, ParseStep
<1>6. CASE OnWhite
  <2>1. /\ UNCHANGED <<quote, isBreak>> /\ state' \in {"white", "token", "quote"}
        /\ pc' \in {"parse", "end"}
        /\ \/ token' = token /\ s' \in {s, s + 1}
           \/ token' = Store(token, s) /\ s' = s + 1
    BY <1>1, <1>2, <1>6 DEF OnWhite, Keep, Drop, Goto
  <2>2. token' \in Seq(DOMAIN line) /\ Len(token') <= s' /\ s' \in 0 .. slen
    BY <1>1, <1>2, <1>3, <2>1
  <2>. QED  BY <1>1, <1>2, <2>1, <2>2, ParseStep
<1>7. CASE OnEscape
  <2>1. UNCHANGED <<quote, isBreak>>
    BY <1>7 DEF OnEscape
  <2>2. CASE s + 1 = slen
    <3>1. token' = Store(token, s) /\ s' = s + 1 /\ pc' = "end" /\ UNCHANGED state
      BY <1>7, <2>2 DEF OnEscape, Keep, Goto
    <3>. QED  BY <1>1, <1>2, <1>3, <2>1, <3>1, ParseStep
  <2>3. CASE s + 1 # slen
    <3>1. s + 1 \in DOMAIN line /\ s + 2 \in 0 .. slen
      BY <1>1, <2>3
    <3>2. CASE line[s + 1] = Escape
      <4>1. ~Special(line[s + 1])
        BY <3>2, TokAssumption DEF Special
      <4>2. /\ UNCHANGED pc
            /\ \/ token' = Store(token, s) /\ s' = s + 1 /\ state' = "token"
               \/ token' = Store(Store(token, s), s + 1) /\ s' = s + 1 + 1 /\ UNCHANGED state
        BY <1>7, <2>3, <3>2, <4>1 DEF OnEscape, AfterEscape
      <4>3. /\ Store(Store(token, s), s + 1) \in Seq(DOMAIN line)
            /\ Len(Store(Store(token, s), s + 1)) \in Nat
            /\ Len(Store(Store(token, s), s + 1)) <= Len(Store(token, s)) + 1
        BY <1>3, <3>1, StoreKept
      <4>4. Len(Store(token, s)) \in Nat
        BY <1>3
      <4>5. token' \in Seq(DOMAIN line) /\ Len(token') <= s' /\ s' \in 0 .. slen
        BY <1>1, <1>3, <3>1, <4>2, <4>3, <4>4
      <4>. QED  BY <1>1, <1>2, <2>1, <4>2, <4>5, ParseStep
    <3>3. CASE line[s + 1] # Escape
      <4>1. /\ UNCHANGED pc
            /\ \/ token' = token /\ s' = s /\ state' = "token"
               \/ token' = Store(token, s + 1) /\ s' = s + 2 /\ UNCHANGED state
               \/ token' = Store(token, s) /\ s' = s + 1 /\ UNCHANGED state
        BY <1>7, <2>3, <3>3 DEF OnEscape, AfterEscape, NextStored
      <4>2. /\ Store(token, s + 1) \in Seq(DOMAIN line) /\ Len(Store(token, s + 1)) \in Nat
            /\ Len(Store(token, s + 1)) <= Len(token) + 1
        BY <1>2, <3>1, StoreKept
      <4>3. token' \in Seq(DOMAIN line) /\ Len(token') <= s' /\ s' \in 0 .. slen
        BY <1>1, <1>2, <1>3, <3>1, <4>1, <4>2
      <4>. QED  BY <1>1, <1>2, <2>1, <4>1, <4>3, ParseStep
    <3>. QED  BY <3>2, <3>3
  <2>. QED  BY <2>2, <2>3
<1>8. CASE OnPlain
  <2>1. /\ token' = Store(token, s) /\ s' = s + 1 /\ UNCHANGED <<pc, quote, isBreak>>
        /\ state' \in {"white", "token", "quote"}
    BY <1>2, <1>8 DEF OnPlain, Keep
  <2>. QED  BY <1>1, <1>2, <1>3, <2>1, ParseStep
<1>. QED  BY <1>4, <1>5, <1>6, <1>7, <1>8 DEF Parse

LEMMA ParseEndsIndInv == ASSUME IndInv, NoTok, ParseEnds PROVE IndInv'
<1>1. /\ slen' = slen /\ pc = "parse" /\ pc' = "end"
      /\ UNCHANGED <<fn, line, s, room, buf, scpy, tok, p, slots, n, inParse>>
  BY DEF ParseEnds, Goto, inTok, slen
<1>2. TypeOK'
  BY <1>1 DEF IndInv, TypeOK, inParse
<1>. QED  BY <1>1, <1>2 DEF IndInv, Loop, Placed, Array, Short, inParse

\* The assertion never fails: a token has no more characters than the line.
LEMMA CollectIndInv == ASSUME IndInv, NoTok, Collect PROVE IndInv'
<1>1. /\ slen \in Nat /\ slen' = slen /\ s \in 0 .. slen /\ DOMAIN line = 0 .. slen - 1
      /\ UNCHANGED <<fn, line, s, room, buf, scpy, tok, p, slots, n>>
      /\ UNCHANGED <<state, quote, isBreak, token>>
  BY Length DEF IndInv, TypeOK, Collect, slen, inTok
<1>2. /\ fn = "etokl" /\ token \in Seq(DOMAIN line) /\ Len(token) \in Nat /\ Len(token) <= s
      /\ list \in Seq(Seq(DOMAIN line)) /\ (isBreak => s > 0)
  BY DEF Collect, IndInv, TypeOK, Loop, Short
<1>3. Len(token) < toksize
  BY <1>1, <1>2 DEF toksize
<1>4. /\ pc' = "head"
      /\ list' = list \o (IF token = <<>> THEN <<>> ELSE <<token>>)
                      \o (IF isBreak THEN <<<<s - 1>>>> ELSE <<>>)
  BY <1>3 DEF Collect, Goto
<1>5. list' \in Seq(Seq(DOMAIN line))
  <2> DEFINE a == IF token = <<>> THEN <<>> ELSE <<token>>
             b == IF isBreak THEN <<<<s - 1>>>> ELSE <<>>
  <2>1. a \in Seq(Seq(DOMAIN line))
    <3>1. <<token>> \in Seq(Seq(DOMAIN line))
      BY <1>2
    <3>2. <<>> \in Seq(Seq(DOMAIN line))
      OBVIOUS
    <3>. QED  BY <3>1, <3>2, Zenon
  <2>2. b \in Seq(Seq(DOMAIN line))
    <3>1. isBreak => s - 1 \in DOMAIN line
      BY <1>1, <1>2
    <3>2. isBreak => <<s - 1>> \in Seq(DOMAIN line)
      BY <3>1
    <3>3. isBreak => <<<<s - 1>>>> \in Seq(Seq(DOMAIN line))
      BY <3>2
    <3>4. <<>> \in Seq(Seq(DOMAIN line))
      OBVIOUS
    <3>. QED  BY <3>3, <3>4, Zenon
  <2>3. list' = list \o a \o b
    BY <1>4
  <2>. HIDE DEF a, b
  <2>. QED  BY <1>2, <2>1, <2>2, <2>3
<1>6. TypeOK'
  BY <1>1, <1>2, <1>4, <1>5 DEF IndInv, TypeOK
<1>. QED  BY <1>1, <1>2, <1>4, <1>6 DEF IndInv, Loop, Placed, Array, Short

-----------------------------------------------------------------------------
LEMMA NextIndInv == ASSUME IndInv, NoTok, [Next]_vars PROVE IndInv'
<1>1. CASE Cut
  BY <1>1, TokStartIndInv, CopyIndInv, StopIndInv, CopyEndsIndInv, SkipIndInv, SkipEndsIndInv,
     PushIndInv DEF Cut
<1>2. CASE Scan
  BY <1>2, ParseStartIndInv, ParseIndInv, ParseEndsIndInv, CollectIndInv DEF Scan
<1>3. CASE Return
  BY <1>3, ReturnIndInv
<1>4. CASE UNCHANGED vars
  <2>1. /\ slen' = slen
        /\ UNCHANGED <<fn, line, pc, s, room, buf, scpy, tok, p, slots, n>>
        /\ UNCHANGED <<state, quote, isBreak, token, list>>
    BY <1>4 DEF vars, inTok, inParse, slen
  <2>2. TypeOK'
    BY <2>1 DEF IndInv, TypeOK
  <2>3. Loop' /\ Array' /\ Short'
    BY <2>1 DEF IndInv, Loop, Array, Short
  <2>4. Placed'
    BY <2>1 DEF IndInv, Placed, Behind
  <2>. QED  BY <2>1, <2>2, <2>3, <2>4 DEF IndInv
<1>. QED  BY <1>1, <1>2, <1>3, <1>4 DEF Next

\* n_str_tokl_n stores its tokens inside of the block it took, of the length
\* of the line and one; the assertion of lp_parse, that a token is shorter
\* than that, never fails.
THEOREM BlockHolds == ASSUME NoTok PROVE Spec => []Inside
<1>1. Init => IndInv
  BY InitIndInv
<1>2. IndInv /\ [Next]_vars => IndInv'
  BY NextIndInv
<1>3. IndInv => Inside
  <2>. SUFFICES ASSUME IndInv PROVE Inside
    OBVIOUS
  <2>1. slen \in Nat /\ s \in 0 .. slen /\ room \in Nat /\ tok \in Nat /\ DOMAIN buf = 0 .. room - 1
    BY Length DEF IndInv, TypeOK
  <2>2. pc = "copy" => room = slen + 1 /\ tok <= s
    BY DEF IndInv, Loop, Placed
  <2>. QED  BY <2>1, <2>2 DEF IndInv, Inside
<1>. QED  BY <1>1, <1>2, <1>3, PTL DEF Spec

-----------------------------------------------------------------------------
(***************************************************************************)
(* The tokens of n_str_tokl_n are the words of the line                    *)
(***************************************************************************)
\* The places of a word, and a token in the block that is one.
WordOf(w) == [k \in 1 .. w[2] - w[1] |-> w[1] + k - 1]

IsAt(m, a, w) ==
  /\ \A j \in 0 .. w[2] - w[1] - 1 : m[a + j] = w[1] + j
  /\ m[a + (w[2] - w[1])] = Nul

Spaces   == {w \in (0 .. slen) \X (0 .. slen) : w[1] <= w[2]}
Nothing  == <<slen, slen>>
Starts(b) == b = 0 \/ b = slen \/ IsDelim(line[b - 1])

\* f has the word that each token in the array is.
Tokens(f) ==
  /\ f \in [1 .. n - 1 -> Spaces]
  /\ \A i \in 1 .. n - 1 : /\ slots[i] \in Nat /\ IsAt(buf, slots[i], f[i])
                           /\ slots[i] + (f[i][2] - f[i][1]) < scpy
  /\ \A i, j \in 1 .. n - 1 : i < j => f[i][1] < f[j][1] /\ slots[i] < slots[j]
  /\ \A i \in 1 .. n - 1 : f[i] \in Words \/ (f[i] = Nothing /\ i = n - 1)

IsFound(f, w) == \E i \in 1 .. n - 1 : f[i] = w

\* Between two calls of n_str_tok; while it copies the word from b on; and when
\* it has copied w.
Between(f) ==
  /\ Starts(s) /\ \A w \in Words : IsFound(f, w) \/ w[1] >= s
  /\ \A i \in 1 .. n - 1 : f[i] \in Words \/ s = slen
  /\ s < slen => \A i \in 1 .. n - 1 : f[i][1] < s

Copying(f, b) ==
  /\ b \in 0 .. slen /\ b + (tok - scpy) = s /\ Starts(b)
  /\ \A k \in b .. s - 1 : ~IsDelim(line[k])
  /\ \A j \in 0 .. tok - scpy - 1 : buf[scpy + j] = b + j
  /\ (s = b /\ s < slen) => ~IsDelim(line[s])
  /\ \A w \in Words : IsFound(f, w) \/ w[1] >= b
  /\ \A i \in 1 .. n - 1 : f[i] \in Words /\ f[i][1] < b

Copied(f, w) ==
  /\ w \in Spaces /\ IsAt(buf, scpy, w) /\ tok = scpy + (w[2] - w[1])
  /\ w \in Words \/ (w = Nothing /\ s = slen)
  /\ \A v \in Words : IsFound(f, v) \/ v = w \/ v[1] >= s
  /\ \A i \in 1 .. n - 1 : f[i] \in Words /\ f[i][1] < w[1]
  /\ w[1] < slen => w[1] < s
  /\ Starts(s)

TokenInv ==
  fn = "tokl" =>
    /\ n >= 1 /\ \A i \in DOMAIN slots : slots[i] = Null <=> i >= n
    /\ pc # "failed" =>
       \E f :
              /\ Tokens(f)
              /\ pc \in {"head", "done"} => Between(f)
              /\ pc = "copy" => \E b : Copying(f, b)
              /\ pc \in {"skip", "push"} => \E w : Copied(f, w)
              /\ pc = "done" => s = slen

LEMMA TokFacts ==
  ASSUME IndInv
  PROVE  /\ slen \in Nat /\ s \in 0 .. slen /\ s \in Nat /\ DOMAIN line = 0 .. slen - 1
         /\ tok \in Nat /\ scpy \in Nat /\ n \in Nat /\ n \in DOMAIN slots
         /\ room \in Nat /\ DOMAIN buf = 0 .. room - 1
         /\ fn = "tokl" => room = slen + 1
<1>1. slen \in Nat /\ DOMAIN line = 0 .. slen - 1
  BY Length DEF IndInv, TypeOK
<1>2. n \in DOMAIN slots /\ n \in Nat
  BY DEF IndInv, TypeOK, Array
<1>. QED  BY <1>1, <1>2 DEF IndInv, TypeOK, Loop

\* All of this is about the line only.
LEMMA LineFacts ==
  ASSUME line' = line
  PROVE  /\ slen' = slen /\ Words' = Words /\ Spaces' = Spaces /\ Nothing' = Nothing
         /\ \A b : Starts(b)' = Starts(b)
<1>1. slen' = slen
  BY DEF slen
<1>. QED  BY <1>1 DEF Words, Spaces, Nothing, Starts

LEMMA WordFacts ==
  ASSUME IndInv
  PROVE  /\ \A w \in Words : /\ w \in Spaces /\ w[1] \in Nat /\ w[2] \in Nat /\ w[1] < w[2] /\ w[2] <= slen
                             /\ \A k \in w[1] .. w[2] - 1 : ~IsDelim(line[k])
                             /\ w[1] > 0 => IsDelim(line[w[1] - 1])
                             /\ w[2] < slen => IsDelim(line[w[2]])
         /\ \A w \in Spaces : /\ w[1] \in Nat /\ w[2] \in Nat /\ w[1] <= w[2] /\ w[2] <= slen
                              /\ w = <<w[1], w[2]>>
         /\ \A w, v \in Words : w[1] = v[1] => w = v
<1>1. slen \in Nat
  BY TokFacts
<1>2. \A w \in Words : /\ w \in (0 .. slen - 1) \X (1 .. slen) /\ w[1] < w[2]
                       /\ \A k \in w[1] .. w[2] - 1 : ~IsDelim(line[k])
                       /\ w[1] > 0 => IsDelim(line[w[1] - 1])
                       /\ w[2] < slen => IsDelim(line[w[2]])
  BY DEF Words
<1>3. \A w \in Words : w[1] \in 0 .. slen - 1 /\ w[2] \in 1 .. slen /\ w = <<w[1], w[2]>>
  BY <1>2
<1>4. \A w \in Words : w[1] \in Nat /\ w[2] \in Nat /\ w[2] <= slen /\ w \in Spaces
  BY <1>1, <1>2, <1>3 DEF Spaces
<1>5. ASSUME NEW w \in Words, NEW v \in Words, w[1] = v[1] PROVE w = v
  <2>1. ASSUME NEW x \in Words, NEW y \in Words, x[1] = y[1] PROVE ~(x[2] < y[2])
    <3>1. SUFFICES ASSUME x[2] < y[2] PROVE FALSE
      OBVIOUS
    <3>2. x[2] \in y[1] .. y[2] - 1 /\ x[2] < slen
      BY <1>1, <1>2, <1>4, <2>1, <3>1
    <3>. QED  BY <1>2, <3>2
  <2>2. ~(w[2] < v[2]) /\ ~(v[2] < w[2])
    BY <1>5, <2>1
  <2>3. w[2] = v[2]
    BY <1>4, <2>2
  <2>. QED  BY <1>3, <1>5, <2>3
<1>6. \A w \in Spaces : /\ w[1] \in Nat /\ w[2] \in Nat /\ w[1] <= w[2] /\ w[2] <= slen
                        /\ w = <<w[1], w[2]>>
  BY <1>1 DEF Spaces
<1>. QED  BY <1>2, <1>4, <1>5, <1>6

\* Tokens stay what they are while the next one is stored behind them.
LEMMA TokensKept ==
  ASSUME IndInv, NEW f, Tokens(f), UNCHANGED <<line, scpy, slots, n>>,
         \A a \in Nat : a < scpy => buf'[a] = buf[a]
  PROVE  Tokens(f)'
<1>1. /\ f \in [1 .. n - 1 -> Spaces]
      /\ \A i \in 1 .. n - 1 : /\ slots[i] \in Nat /\ IsAt(buf, slots[i], f[i])
                               /\ slots[i] + (f[i][2] - f[i][1]) < scpy
      /\ \A i, j \in 1 .. n - 1 : i < j => f[i][1] < f[j][1] /\ slots[i] < slots[j]
      /\ \A i \in 1 .. n - 1 : f[i] \in Words \/ (f[i] = Nothing /\ i = n - 1)
  BY DEF Tokens
<1>2. ASSUME NEW i \in 1 .. n - 1 PROVE IsAt(buf', slots[i], f[i])
  <2>. DEFINE a == slots[i]
              x == f[i][1]
              y == f[i][2]
  <2>1. a \in Nat /\ x \in Nat /\ y \in Nat /\ x <= y /\ a + (y - x) < scpy /\ scpy \in Nat
    <3>1. f[i] \in Spaces
      BY <1>1
    <3>. QED  BY <1>1, <3>1, WordFacts, TokFacts
  <2>2. (\A j \in 0 .. y - x - 1 : buf[a + j] = x + j) /\ buf[a + (y - x)] = Nul
    BY <1>1 DEF IsAt
  <2>. HIDE DEF a, x, y
  <2>3. buf'[a + (y - x)] = Nul
    <3>1. a + (y - x) \in Nat
      BY <2>1
    <3>. QED  BY <2>1, <2>2, <3>1
  <2>4. ASSUME NEW j \in 0 .. y - x - 1 PROVE buf'[a + j] = x + j
    <3>1. a + j \in Nat /\ a + j < scpy
      BY <2>1
    <3>. QED  BY <2>2, <3>1
  <2>. QED  BY <2>3, <2>4 DEF IsAt, a, x, y
<1>. QED  BY <1>1, <1>2, LineFacts DEF Tokens

LEMMA FoundKept ==
  ASSUME n' = n
  PROVE  \A f, w : IsFound(f, w)' = IsFound(f, w)
BY DEF IsFound

LEMMA TokStartTokens == ASSUME IndInv, TokenInv, NoTok, TokStart PROVE TokenInv'
<1>1. /\ pc = "head" /\ s < slen /\ tok' = scpy /\ pc' = "copy"
      /\ UNCHANGED <<fn, line, room, buf, scpy, p, slots, n>>
  BY DEF TokStart, Goto
<1>2. fn = "tokl"
  BY TokAssumption DEF TokStart, NoTok, IndInv, TypeOK
<1>3. PICK k \in s .. slen : Spans(k) /\ s' = k
  BY DEF TokStart
<1>4. /\ n >= 1 /\ \A i \in DOMAIN slots : slots[i] = Null <=> i >= n
      /\ \E f : Tokens(f) /\ Between(f)
  BY <1>1, <1>2 DEF TokenInv
<1>5. PICK f : Tokens(f) /\ Between(f)
  BY <1>4
<1>6. Tokens(f)'
  BY <1>1, <1>5, TokensKept
<1>7. /\ slen \in Nat /\ s \in Nat /\ k \in Nat /\ s <= k /\ k <= slen /\ scpy \in Nat
      /\ (k < slen => ~IsDelim(line[k])) /\ \A i \in s .. k - 1 : IsDelim(line[i])
  BY <1>3, TokFacts DEF Spans
<1>8. /\ Starts(s) /\ \A w \in Words : IsFound(f, w) \/ w[1] >= s
      /\ \A i \in 1 .. n - 1 : f[i] \in Words /\ f[i][1] < s /\ f[i][1] \in Nat
  <2>1. \A i \in 1 .. n - 1 : f[i] \in Words /\ f[i][1] < s
    BY <1>1, <1>5, <1>7 DEF Between
  <2>. QED  BY <1>5, <2>1, WordFacts DEF Between
<1>9. Starts(k)
  <2>1. CASE k = s
    BY <1>8, <2>1
  <2>2. CASE k # s
    <3>1. k - 1 \in s .. k - 1
      BY <1>7, <2>2
    <3>. QED  BY <1>7, <3>1 DEF Starts
  <2>. QED  BY <2>1, <2>2
<1>10. ASSUME NEW w \in Words PROVE IsFound(f, w) \/ w[1] >= k
  <2>1. CASE w[1] >= s
    <3>1. w[1] \in w[1] .. w[2] - 1 /\ w[1] \in Nat
      BY WordFacts
    <3>2. ~IsDelim(line[w[1]])
      BY <3>1, WordFacts
    <3>. QED  BY <1>7, <2>1, <3>1, <3>2
  <2>. QED  BY <1>8, <2>1
<1>11. Copying(f, k)'
  <2>1. /\ k + (scpy - scpy) = k /\ k .. k - 1 = {} /\ 0 .. scpy - scpy - 1 = {} /\ k \in 0 .. slen
        /\ \A i \in 1 .. n - 1 : f[i] \in Words /\ f[i][1] < k
    BY <1>7, <1>8
  <2>2. slen' = slen /\ Words' = Words /\ Starts(k)' /\ \A w : IsFound(f, w)' = IsFound(f, w)
    BY <1>1, <1>9, LineFacts, FoundKept
  <2>. QED  BY <1>1, <1>3, <1>7, <1>10, <2>1, <2>2 DEF Copying
<1>. QED  BY <1>1, <1>4, <1>6, <1>11 DEF TokenInv

LEMMA CopyTokens == ASSUME IndInv, TokenInv, NoTok, Copy PROVE TokenInv'
<1>1. /\ pc = "copy" /\ s < slen /\ ~IsDelim(line[s]) /\ buf' = Stored(s) /\ tok' = tok + 1 /\ s' = s + 1
      /\ UNCHANGED <<fn, line, pc, room, scpy, p, slots, n>>
  BY DEF Copy
<1>2. fn = "tokl" /\ scpy <= tok /\ tok <= s
  BY <1>1 DEF IndInv, Loop, Placed
<1>3. /\ n >= 1 /\ \A i \in DOMAIN slots : slots[i] = Null <=> i >= n
      /\ \E f : Tokens(f) /\ \E b : Copying(f, b)
  BY <1>1, <1>2 DEF TokenInv
<1>4. PICK f, b : Tokens(f) /\ Copying(f, b)
  BY <1>3
<1>5. slen \in Nat /\ s \in Nat /\ tok \in Nat /\ scpy \in Nat /\ tok \in DOMAIN buf
  BY <1>1, <1>2, TokFacts
<1>6. buf'[tok] = s /\ \A a \in Nat : a < tok => buf'[a] = buf[a]
  BY <1>1, <1>5 DEF Stored
<1>7. Tokens(f)'
  <2>1. \A a \in Nat : a < scpy => buf'[a] = buf[a]
    BY <1>2, <1>5, <1>6
  <2>. QED  BY <1>1, <1>4, <2>1, TokensKept
<1>8. /\ b \in 0 .. slen /\ b + (tok - scpy) = s /\ Starts(b)
      /\ \A k \in b .. s - 1 : ~IsDelim(line[k])
      /\ \A j \in 0 .. tok - scpy - 1 : buf[scpy + j] = b + j
      /\ \A w \in Words : IsFound(f, w) \/ w[1] >= b
      /\ \A i \in 1 .. n - 1 : f[i] \in Words /\ f[i][1] < b
  BY <1>4 DEF Copying
<1>9. b \in Nat /\ b <= s
  BY <1>2, <1>5, <1>8
<1>10. \A k \in b .. (s + 1) - 1 : ~IsDelim(line[k])
  <2>1. \A k \in b .. (s + 1) - 1 : k \in b .. s - 1 \/ k = s
    BY <1>5, <1>9
  <2>. QED  BY <1>1, <1>8, <2>1
<1>11. ASSUME NEW j \in 0 .. (tok + 1) - scpy - 1 PROVE buf'[scpy + j] = b + j
  <2>1. CASE j \in 0 .. tok - scpy - 1
    <3>1. scpy + j \in Nat /\ scpy + j < tok
      BY <1>2, <1>5, <2>1
    <3>. QED  BY <1>6, <1>8, <2>1, <3>1
  <2>2. CASE j \notin 0 .. tok - scpy - 1
    <3>1. scpy + j = tok /\ b + j = s
      BY <1>2, <1>5, <1>8, <1>9, <2>2
    <3>. QED  BY <1>6, <3>1
  <2>. QED  BY <2>1, <2>2
<1>12. Copying(f, b)'
  <2>1. b + ((tok + 1) - scpy) = s + 1 /\ s + 1 # b
    BY <1>5, <1>8, <1>9
  <2>2. slen' = slen /\ Words' = Words /\ Starts(b)' /\ \A w : IsFound(f, w)' = IsFound(f, w)
    BY <1>1, <1>8, LineFacts, FoundKept
  <2>. QED  BY <1>1, <1>8, <1>10, <1>11, <2>1, <2>2 DEF Copying
<1>. QED  BY <1>1, <1>3, <1>7, <1>12 DEF TokenInv

\* A word that ends at s, as far as it was copied; the NUL behind it is stored
\* by who ends it.
LEMMA CopiedWord ==
  ASSUME IndInv, fn = "tokl", pc = "copy", NEW f, NEW b, Tokens(f), Copying(f, b),
         buf' = Stored(Nul), UNCHANGED <<line, scpy, tok, slots, n>>,
         s < slen => IsDelim(line[s])
  PROVE  /\ Tokens(f)'
         /\ <<b, s>> \in Spaces /\ IsAt(buf', scpy, <<b, s>>) /\ tok = scpy + (s - b)
         /\ <<b, s>> \in Words \/ (<<b, s>> = Nothing /\ s = slen)
         /\ \A v \in Words : IsFound(f, v) \/ v = <<b, s>> \/ v[1] > s
         /\ \A i \in 1 .. n - 1 : f[i] \in Words /\ f[i][1] < b
         /\ b < slen => b < s
<1>1. scpy <= tok /\ tok <= s /\ slen \in Nat /\ s \in Nat /\ s <= slen /\ tok \in Nat /\ scpy \in Nat
  BY TokFacts DEF IndInv, Placed
<1>2. tok \in DOMAIN buf
  BY <1>1, TokFacts
<1>3. buf'[tok] = Nul /\ \A a \in Nat : a < tok => buf'[a] = buf[a]
  BY <1>1, <1>2 DEF Stored
<1>4. Tokens(f)'
  <2>1. \A a \in Nat : a < scpy => buf'[a] = buf[a]
    BY <1>1, <1>3
  <2>. QED  BY <2>1, TokensKept
<1>5. /\ b \in 0 .. slen /\ b + (tok - scpy) = s /\ Starts(b)
      /\ \A k \in b .. s - 1 : ~IsDelim(line[k])
      /\ \A j \in 0 .. tok - scpy - 1 : buf[scpy + j] = b + j
      /\ (s = b /\ s < slen) => ~IsDelim(line[s])
      /\ \A w \in Words : IsFound(f, w) \/ w[1] >= b
      /\ \A i \in 1 .. n - 1 : f[i] \in Words /\ f[i][1] < b
  BY DEF Copying
<1>6. b \in Nat /\ b <= s /\ b <= slen /\ s - b = tok - scpy /\ scpy + (s - b) = tok
  BY <1>1, <1>5
<1>7. <<b, s>> \in Spaces
  BY <1>1, <1>6 DEF Spaces
<1>8. IsAt(buf', scpy, <<b, s>>)
  <2>1. ASSUME NEW j \in 0 .. s - b - 1 PROVE buf'[scpy + j] = b + j
    <3>1. j \in 0 .. tok - scpy - 1 /\ scpy + j \in Nat /\ scpy + j < tok
      BY <1>1, <1>6
    <3>. QED  BY <1>3, <1>5, <3>1
  <2>2. buf'[scpy + (s - b)] = Nul
    BY <1>3, <1>6
  <2>. QED  BY <2>1, <2>2 DEF IsAt
<1>9. b < slen => b < s
  <2>1. ~(b < slen /\ b = s)
    BY <1>5
  <2>. QED  BY <1>1, <1>6, <2>1
<1>10. CASE b = slen
  <2>1. s = slen /\ <<b, s>> = Nothing
    BY <1>1, <1>6, <1>10 DEF Nothing
  <2>2. \A v \in Words : IsFound(f, v)
    BY <1>1, <1>5, <1>10, WordFacts
  <2>. QED  BY <1>4, <1>5, <1>6, <1>7, <1>8, <1>9, <2>1, <2>2
<1>11. CASE b # slen
  <2>1. b < s /\ b < slen
    BY <1>1, <1>6, <1>9, <1>11
  <2>2. b > 0 => IsDelim(line[b - 1])
    BY <1>5, <1>6, <2>1 DEF Starts
  <2>3. <<b, s>> \in Words
    <3>1. b \in 0 .. slen - 1 /\ s \in 1 .. slen
      BY <1>1, <1>6, <2>1
    <3>. QED  BY <1>5, <2>1, <2>2, <3>1 DEF Words
  <2>4. ASSUME NEW v \in Words, ~IsFound(f, v), v # <<b, s>> PROVE v[1] > s
    <3>1. v[1] \in Nat /\ v[1] >= b
      BY <1>5, <2>4, WordFacts
    <3>2. v[1] # b
      <4>1. <<b, s>>[1] = b
        OBVIOUS
      <4>. QED  BY <2>3, <2>4, <4>1, WordFacts
    <3>3. v[1] > 0 /\ IsDelim(line[v[1] - 1])
      BY <1>6, <3>1, <3>2, WordFacts
    <3>4. ~(v[1] - 1 \in b .. s - 1)
      BY <1>5, <3>3
    <3>5. v[1] >= s + 1
      BY <1>1, <1>6, <3>1, <3>2, <3>4
    <3>. QED  BY <1>1, <3>1, <3>5
  <2>. QED  BY <1>4, <1>5, <1>6, <1>7, <1>8, <1>9, <2>3, <2>4
<1>. QED  BY <1>10, <1>11

LEMMA StopTokens == ASSUME IndInv, TokenInv, NoTok, Stop PROVE TokenInv'
<1>1. /\ pc = "copy" /\ s < slen /\ IsDelim(line[s]) /\ buf' = Stored(Nul) /\ s' = s + 1 /\ pc' = "skip"
      /\ UNCHANGED <<fn, line, room, scpy, tok, slots, n>>
  BY DEF Stop, Goto
<1>2. fn = "tokl"
  BY <1>1 DEF IndInv, Loop
<1>3. /\ n >= 1 /\ \A i \in DOMAIN slots : slots[i] = Null <=> i >= n
      /\ \E f : Tokens(f) /\ \E b : Copying(f, b)
  BY <1>1, <1>2 DEF TokenInv
<1>4. PICK f, b : Tokens(f) /\ Copying(f, b)
  BY <1>3
<1>5. /\ Tokens(f)'
      /\ <<b, s>> \in Spaces /\ IsAt(buf', scpy, <<b, s>>) /\ tok = scpy + (s - b)
      /\ <<b, s>> \in Words \/ (<<b, s>> = Nothing /\ s = slen)
      /\ \A v \in Words : IsFound(f, v) \/ v = <<b, s>> \/ v[1] > s
      /\ \A i \in 1 .. n - 1 : f[i] \in Words /\ f[i][1] < b
      /\ b < slen => b < s
  BY <1>1, <1>2, <1>4, CopiedWord
<1>6. slen \in Nat /\ s \in Nat /\ b \in Nat /\ b <= s
  <2>1. <<b, s>>[1] = b /\ <<b, s>>[2] = s
    OBVIOUS
  <2>. QED  BY <1>5, <2>1, WordFacts, TokFacts
<1>7. PICK w : w = <<b, s>> /\ w[1] = b /\ w[2] = s
  <2>1. \E w : w = <<b, s>>
    OBVIOUS
  <2>. QED  BY <2>1
<1>8. Copied(f, w)'
  <2>1. \A v \in Words : IsFound(f, v) \/ v = <<b, s>> \/ v[1] >= s + 1
    BY <1>5, <1>6, WordFacts
  <2>2. Starts(s + 1)
    <3>1. (s + 1) - 1 = s
      BY <1>6
    <3>. QED  BY <1>1, <3>1 DEF Starts
  <2>3. b < slen => b < s + 1
    BY <1>5, <1>6
  <2>4. /\ slen' = slen /\ Words' = Words /\ Spaces' = Spaces /\ Nothing' = Nothing
        /\ \A v : IsFound(f, v)' = IsFound(f, v)
    BY <1>1, LineFacts, FoundKept
  <2>5. ~(s = slen)
    BY <1>1, <1>6
  <2>6. Starts(s)'
    BY <1>1, <2>2, <2>4 DEF Starts
  <2>. QED  BY <1>1, <1>5, <1>7, <2>1, <2>3, <2>4, <2>5, <2>6 DEF Copied
<1>. QED  BY <1>1, <1>3, <1>5, <1>8 DEF TokenInv

LEMMA CopyEndsTokens == ASSUME IndInv, TokenInv, NoTok, CopyEnds PROVE TokenInv'
<1>1. /\ pc = "copy" /\ (s = slen \/ tok > lim) /\ buf' = Stored(Nul) /\ pc' = "push"
      /\ UNCHANGED <<fn, line, s, room, scpy, tok, slots, n>>
  BY DEF CopyEnds, Goto
<1>2. fn = "tokl"
  BY <1>1 DEF IndInv, Loop
<1>3. /\ n >= 1 /\ \A i \in DOMAIN slots : slots[i] = Null <=> i >= n
      /\ \E f : Tokens(f) /\ \E b : Copying(f, b)
  BY <1>1, <1>2 DEF TokenInv
<1>4. PICK f, b : Tokens(f) /\ Copying(f, b)
  BY <1>3
<1>5. s = slen /\ slen \in Nat
  <2>1. scpy <= tok /\ tok <= s /\ slen \in Nat /\ s \in Nat /\ s <= slen /\ tok \in Nat /\ scpy \in Nat
    BY <1>1, <1>2, TokFacts DEF IndInv, Placed
  <2>. QED  BY <1>1, <1>2, <2>1 DEF lim
<1>6. /\ Tokens(f)'
      /\ <<b, s>> \in Spaces /\ IsAt(buf', scpy, <<b, s>>) /\ tok = scpy + (s - b)
      /\ <<b, s>> \in Words \/ (<<b, s>> = Nothing /\ s = slen)
      /\ \A v \in Words : IsFound(f, v) \/ v = <<b, s>> \/ v[1] > s
      /\ \A i \in 1 .. n - 1 : f[i] \in Words /\ f[i][1] < b
      /\ b < slen => b < s
  BY <1>1, <1>2, <1>4, <1>5, CopiedWord
<1>7. Copied(f, <<b, s>>)'
  <2>1. \A v \in Words : IsFound(f, v) \/ v = <<b, s>> \/ v[1] >= s
    BY <1>5, <1>6, WordFacts
  <2>2. /\ slen' = slen /\ Words' = Words /\ Spaces' = Spaces /\ Nothing' = Nothing
        /\ Starts(s)' /\ \A w : IsFound(f, w)' = IsFound(f, w)
    BY <1>1, <1>5, LineFacts, FoundKept DEF Starts
  <2>. QED  BY <1>1, <1>6, <2>1, <2>2 DEF Copied
<1>. QED  BY <1>1, <1>3, <1>6, <1>7 DEF TokenInv

LEMMA SkipTokens == ASSUME IndInv, TokenInv, NoTok, Skip \/ SkipEnds PROVE TokenInv'
<1>1. /\ pc = "skip" /\ pc' \in {"skip", "push"}
      /\ UNCHANGED <<fn, line, room, buf, scpy, tok, slots, n>>
      /\ s' = s \/ (s < slen /\ s' = s + 1 /\ IsDelim(line[s]))
  <2>1. CASE Skip
    BY <2>1 DEF Skip, IsDelim
  <2>2. CASE SkipEnds
    BY <2>2 DEF SkipEnds, inTok, Goto
  <2>. QED  BY <2>1, <2>2
<1>2. fn = "tokl"
  BY <1>1 DEF IndInv, Loop
<1>3. /\ n >= 1 /\ \A i \in DOMAIN slots : slots[i] = Null <=> i >= n
      /\ \E f : Tokens(f) /\ \E w : Copied(f, w)
  BY <1>1, <1>2 DEF TokenInv
<1>4. PICK f, w : Tokens(f) /\ Copied(f, w)
  BY <1>3
<1>5. Tokens(f)'
  BY <1>1, <1>4, TokensKept
<1>6. /\ w \in Spaces /\ IsAt(buf, scpy, w) /\ tok = scpy + (w[2] - w[1])
      /\ w \in Words \/ (w = Nothing /\ s = slen)
      /\ \A v \in Words : IsFound(f, v) \/ v = w \/ v[1] >= s
      /\ \A i \in 1 .. n - 1 : f[i] \in Words /\ f[i][1] < w[1]
      /\ w[1] < slen => w[1] < s
      /\ Starts(s)
  BY <1>4 DEF Copied
<1>7. slen \in Nat /\ s \in Nat /\ w[1] \in Nat
  BY <1>6, TokFacts, WordFacts
<1>8. /\ w \in Words \/ (w = Nothing /\ s' = slen)
      /\ \A v \in Words : IsFound(f, v) \/ v = w \/ v[1] >= s'
      /\ w[1] < slen => w[1] < s'
      /\ Starts(s')
  <2>1. CASE s' = s
    BY <1>6, <2>1
  <2>2. CASE s < slen /\ s' = s + 1 /\ IsDelim(line[s])
    <3>1. \A v \in Words : v[1] # s /\ v[1] \in Nat
      <4>1. \A v \in Words : v[1] \in v[1] .. v[2] - 1 /\ v[1] \in Nat
        BY WordFacts
      <4>. QED  BY <2>2, <4>1, WordFacts
    <3>2. (s + 1) - 1 = s /\ s # slen
      BY <1>7, <2>2
    <3>. QED  BY <1>6, <1>7, <2>2, <3>1, <3>2 DEF Starts
  <2>. QED  BY <1>1, <2>1, <2>2
<1>9. Copied(f, w)'
  <2>1. /\ slen' = slen /\ Words' = Words /\ Spaces' = Spaces /\ Nothing' = Nothing
        /\ \A b : Starts(b)' = Starts(b)
    BY <1>1, LineFacts
  <2>2. \A v : IsFound(f, v)' = IsFound(f, v)
    BY <1>1, FoundKept
  <2>3. Starts(s)'
    BY <1>1, <1>8, <2>1 DEF Starts
  <2>. QED  BY <1>1, <1>6, <1>8, <2>1, <2>2, <2>3 DEF Copied
<1>. QED  BY <1>1, <1>3, <1>5, <1>9 DEF TokenInv

\* The array with one more token: what is behind it is NULL.
LEMMA PushSlots ==
  ASSUME IndInv, NoTok, Push, n >= 1, \A i \in DOMAIN slots : slots[i] = Null <=> i >= n
  PROVE  /\ n' = n + 1 /\ scpy' = tok + 1 /\ n \in DOMAIN slots' /\ DOMAIN slots \subseteq DOMAIN slots'
         /\ slots'[n] = scpy /\ \A i \in DOMAIN slots : i # n => slots'[i] = slots[i]
         /\ \A i \in DOMAIN slots' : slots'[i] = Null <=> i >= n + 1
<1>. DEFINE t == [slots EXCEPT ![n] = scpy]
<1>1. /\ n \in Nat /\ n \in DOMAIN slots /\ scpy \in Nat
      /\ fn # "tok" /\ n' = n + 1 /\ scpy' = tok + 1
  BY TokFacts, TokAssumption DEF Push, NoTok, IndInv, TypeOK, AfterToken
<1>2. PICK c \in Nat : DOMAIN slots = 0 .. c - 1
  BY DEF IndInv, Array
<1>3. /\ DOMAIN t = 0 .. c - 1 /\ t[n] = scpy /\ \A i \in 0 .. c - 1 : i # n => t[i] = slots[i]
  BY <1>1, <1>2
<1>4. scpy # Null
  BY <1>1 DEF Null
<1>5. \A i \in 0 .. c - 1 : i \in Nat /\ (t[i] = Null <=> i >= n + 1)
  <2>1. SUFFICES ASSUME NEW i \in 0 .. c - 1 PROVE i \in Nat /\ (t[i] = Null <=> i >= n + 1)
    OBVIOUS
  <2>. HIDE DEF t
  <2>2. CASE i = n
    BY <1>1, <1>2, <1>3, <1>4, <2>2
  <2>3. CASE i # n
    <3>1. t[i] = Null <=> i >= n
      BY <1>2, <1>3, <2>3
    <3>. QED  BY <1>1, <1>2, <2>3, <3>1
  <2>. QED  BY <2>2, <2>3
<1>6. CASE ~Full /\ slots' = t
  <2>. HIDE DEF t
  <2>. QED  BY <1>1, <1>2, <1>3, <1>5, <1>6
<1>7. CASE Full /\ slots' = Larger(t)
  <2>1. Cardinality(0 .. c - 1) = c
    <3>1. Cardinality(0 .. c - 1) = IF 0 <= c - 1 THEN (c - 1) - 0 + 1 ELSE 0
      BY <1>2, FS_Interval
    <3>. QED  BY <1>2, <3>1
  <2>2. n + 1 = c
    BY <1>1, <1>2, <1>7 DEF Full
  <2>. HIDE DEF t
  <2>3. slots' = [i \in 0 .. c + TokensSize - 1 |->
                    IF i \in DOMAIN t THEN t[i] ELSE IF i >= n + 1 THEN Null ELSE Junk]
    <3>1. Cardinality(DOMAIN t) = c
      BY <1>3, <2>1, Zenon
    <3>. QED  BY <1>7, <3>1, Zenon DEF Larger, Cleared
  <2>4. TokensSize \in Nat
    BY TokAssumption
  <2>5. DOMAIN slots' = 0 .. c + TokensSize - 1 /\ DOMAIN slots \subseteq DOMAIN slots'
    BY <1>2, <2>3, <2>4
  <2>6. \A i \in DOMAIN slots : slots'[i] = t[i]
    BY <1>2, <1>3, <2>3, <2>5
  <2>7. ASSUME NEW i \in DOMAIN slots' PROVE slots'[i] = Null <=> i >= n + 1
    <3>1. CASE i \in 0 .. c - 1
      BY <1>2, <1>5, <2>6, <3>1
    <3>2. CASE i \notin 0 .. c - 1
      <4>1. i >= n + 1
        BY <1>2, <2>2, <2>5, <3>2
      <4>. QED  BY <1>3, <2>3, <2>5, <3>2, <4>1
    <3>. QED  BY <3>1, <3>2
  <2>. QED  BY <1>1, <1>2, <1>3, <2>5, <2>6, <2>7
<1>. QED  BY <1>1, <1>6, <1>7 DEF Push

LEMMA PushTokens == ASSUME IndInv, TokenInv, NoTok, Push PROVE TokenInv'
<1>1. /\ pc = "push" /\ pc' \in {"head", "failed"} /\ UNCHANGED <<fn, line, s, room, buf, tok, p>>
      /\ fn = "tokl"
  <2>1. pc = "push" /\ UNCHANGED <<fn, line, s, room, buf, tok, p>>
    BY DEF Push
  <2>2. fn = "tokl"
    BY <2>1 DEF IndInv, Loop
  <2>. QED  BY <2>1, <2>2 DEF Push, Goto
<1>2. /\ n >= 1 /\ \A i \in DOMAIN slots : slots[i] = Null <=> i >= n
      /\ \E f : Tokens(f) /\ \E w : Copied(f, w)
  BY <1>1 DEF TokenInv
<1>3. /\ n' = n + 1 /\ scpy' = tok + 1 /\ n \in DOMAIN slots' /\ DOMAIN slots \subseteq DOMAIN slots'
      /\ slots'[n] = scpy /\ \A i \in DOMAIN slots : i # n => slots'[i] = slots[i]
      /\ \A i \in DOMAIN slots' : slots'[i] = Null <=> i >= n + 1
  BY <1>2, PushSlots
<1>4. PICK f, w : Tokens(f) /\ Copied(f, w)
  BY <1>2
<1>5. /\ f \in [1 .. n - 1 -> Spaces]
      /\ \A i \in 1 .. n - 1 : /\ slots[i] \in Nat /\ IsAt(buf, slots[i], f[i])
                               /\ slots[i] + (f[i][2] - f[i][1]) < scpy
      /\ \A i, j \in 1 .. n - 1 : i < j => f[i][1] < f[j][1] /\ slots[i] < slots[j]
  BY <1>4 DEF Tokens
<1>6. /\ w \in Spaces /\ IsAt(buf, scpy, w) /\ tok = scpy + (w[2] - w[1])
      /\ w \in Words \/ (w = Nothing /\ s = slen)
      /\ \A v \in Words : IsFound(f, v) \/ v = w \/ v[1] >= s
      /\ \A i \in 1 .. n - 1 : f[i] \in Words /\ f[i][1] < w[1]
      /\ w[1] < slen => w[1] < s
      /\ Starts(s)
  BY <1>4 DEF Copied
<1>7. /\ n \in Nat /\ slen \in Nat /\ s \in Nat /\ tok \in Nat /\ scpy \in Nat /\ scpy <= tok
      /\ w[1] \in Nat /\ w[2] \in Nat /\ w[1] <= w[2] /\ w[2] <= slen
  BY <1>1, <1>6, TokFacts, WordFacts DEF IndInv, Placed
<1>8. \A i \in 1 .. n - 1 : i \in DOMAIN slots /\ i # n /\ slots'[i] = slots[i] /\ f[i] \in Spaces
                            /\ f[i][1] \in Nat /\ f[i][2] \in Nat /\ f[i][1] <= f[i][2]
  <2>1. PICK c \in Nat : DOMAIN slots = 0 .. c - 1
    BY DEF IndInv, Array
  <2>2. n \in DOMAIN slots
    BY TokFacts
  <2>3. \A i \in 1 .. n - 1 : i \in DOMAIN slots /\ i # n
    BY <1>7, <2>1, <2>2
  <2>4. \A i \in 1 .. n - 1 : f[i] \in Spaces
    BY <1>5
  <2>. QED  BY <1>3, <2>3, <2>4, WordFacts
<1>9. \A i \in 1 .. n : i = n \/ i \in 1 .. n - 1
  BY <1>7
<1>10. PICK g : g \in [1 .. n -> Spaces] /\ g[n] = w /\ \A i \in 1 .. n - 1 : g[i] = f[i] /\ i \in 1 .. n
  <2>. DEFINE h == [i \in 1 .. n |-> IF i = n THEN w ELSE f[i]]
  <2>1. n \in 1 .. n /\ \A i \in 1 .. n - 1 : i # n /\ i \in 1 .. n
    BY <1>2, <1>7
  <2>2. \A i \in 1 .. n : h[i] \in Spaces
    BY <1>6, <1>8, <1>9
  <2>3. h \in [1 .. n -> Spaces] /\ h[n] = w /\ \A i \in 1 .. n - 1 : h[i] = f[i] /\ i \in 1 .. n
    BY <2>1, <2>2
  <2>. QED  BY <2>3
<1>11. \A i \in 1 .. n : /\ slots'[i] \in Nat /\ IsAt(buf, slots'[i], g[i])
                         /\ slots'[i] + (g[i][2] - g[i][1]) < tok + 1
  <2>1. scpy + (w[2] - w[1]) < tok + 1
    BY <1>6, <1>7
  <2>2. ASSUME NEW i \in 1 .. n - 1 PROVE slots[i] + (f[i][2] - f[i][1]) < tok + 1
    <3>1. slots[i] \in Nat /\ slots[i] + (f[i][2] - f[i][1]) < scpy
      BY <1>5
    <3>. QED  BY <1>7, <1>8, <3>1
  <2>3. ASSUME NEW i \in 1 .. n, i = n
        PROVE  /\ slots'[i] \in Nat /\ IsAt(buf, slots'[i], g[i])
               /\ slots'[i] + (g[i][2] - g[i][1]) < tok + 1
    BY <1>3, <1>6, <1>7, <1>10, <2>1, <2>3
  <2>4. ASSUME NEW i \in 1 .. n - 1
        PROVE  /\ slots'[i] \in Nat /\ IsAt(buf, slots'[i], g[i])
               /\ slots'[i] + (g[i][2] - g[i][1]) < tok + 1
    BY <1>5, <1>8, <1>10, <2>2, <2>4
  <2>. QED  BY <1>9, <2>3, <2>4
<1>12. ASSUME NEW i \in 1 .. n, NEW j \in 1 .. n, i < j
       PROVE  g[i][1] < g[j][1] /\ slots'[i] < slots'[j]
  <2>1. i \in 1 .. n - 1
    BY <1>7, <1>12
  <2>2. CASE j = n
    <3>1. slots[i] < scpy
      <4>1. slots[i] \in Nat /\ slots[i] + (f[i][2] - f[i][1]) < scpy
        BY <1>5, <2>1
      <4>2. f[i][1] \in Nat /\ f[i][2] \in Nat /\ f[i][1] <= f[i][2]
        BY <1>8, <2>1
      <4>. QED  BY <1>7, <4>1, <4>2
    <3>. QED  BY <1>3, <1>6, <1>8, <1>10, <2>1, <2>2, <3>1
  <2>3. CASE j \in 1 .. n - 1
    BY <1>5, <1>8, <1>10, <1>12, <2>1, <2>3
  <2>. QED  BY <1>9, <2>2, <2>3
<1>13. \A i \in 1 .. n : g[i] \in Words \/ (g[i] = Nothing /\ i = n /\ s = slen)
  BY <1>6, <1>9, <1>10
<1>14. (n + 1) - 1 = n
  BY <1>7
<1>15. /\ slen' = slen /\ Words' = Words /\ Spaces' = Spaces /\ Nothing' = Nothing
       /\ \A b : Starts(b)' = Starts(b)
  BY <1>1, LineFacts
<1>16. Tokens(g)'
  BY <1>1, <1>3, <1>10, <1>11, <1>12, <1>13, <1>14, <1>15 DEF Tokens
<1>17. Between(g)'
  <2>1. \A v \in Words : IsFound(g, v)' \/ v[1] >= s
    <3>1. ASSUME NEW v \in Words, IsFound(f, v) PROVE IsFound(g, v)'
      BY <1>3, <1>10, <1>14, <3>1 DEF IsFound
    <3>2. IsFound(g, w)'
      BY <1>2, <1>3, <1>7, <1>10, <1>14 DEF IsFound
    <3>. QED  BY <1>6, <3>1, <3>2
  <2>2. ASSUME s < slen, NEW i \in 1 .. n PROVE g[i][1] < s
    <3>1. w \in Words
      BY <1>6, <1>7, <2>2
    <3>2. w[1] < slen
      BY <1>7, <3>1, WordFacts
    <3>3. w[1] < s
      BY <1>6, <3>2
    <3>4. ASSUME i \in 1 .. n - 1 PROVE g[i][1] < s
      <4>1. g[i][1] = f[i][1] /\ f[i][1] < w[1] /\ f[i][1] \in Nat
        BY <1>6, <1>8, <1>10, <3>4
      <4>. QED  BY <1>7, <3>3, <4>1
    <3>. QED  BY <1>9, <1>10, <3>3, <3>4
  <2>3. Starts(s)'
    BY <1>1, <1>6, <1>15 DEF Starts
  <2>. QED  BY <1>1, <1>3, <1>13, <1>14, <1>15, <2>1, <2>2, <2>3 DEF Between
<1>18. \E f_1 : Tokens(f_1)' /\ Between(f_1)'
  BY <1>16, <1>17
<1>19. n' >= 1 /\ \A i \in DOMAIN slots' : slots'[i] = Null <=> i >= n'
  BY <1>2, <1>3, <1>7
<1>. QED  BY <1>1, <1>18, <1>19 DEF TokenInv

\* n_str_tokl_n returns with the line used up; n_str_etokl_ext does not touch
\* the array.
LEMMA OtherTokens ==
  ASSUME IndInv, TokenInv, NoTok, Return \/ Scan \/ UNCHANGED vars
  PROVE  TokenInv'
<1>1. CASE fn # "tokl"
  <2>1. fn' = fn
    <3>1. Scan => fn' = fn
      BY DEF Scan, ParseStart, Parse, ParseEnds, Collect
    <3>. QED  BY <3>1 DEF Return, vars
  <2>. QED  BY <1>1, <2>1 DEF TokenInv
<1>2. CASE fn = "tokl"
  <2>1. Return \/ UNCHANGED vars
    <3>1. ~Scan
      BY <1>2 DEF Scan, ParseStart, Parse, ParseEnds, Collect, IndInv, Loop
    <3>. QED  BY <3>1
  <2>2. /\ UNCHANGED <<fn, line, s, room, buf, scpy, tok, slots, n>>
        /\ pc' = pc \/ (pc = "head" /\ s = slen /\ pc' = "done")
    BY <2>1 DEF Return, vars, inTok, Goto
  <2>3. /\ slen' = slen /\ Words' = Words /\ Spaces' = Spaces /\ Nothing' = Nothing
        /\ \A b : Starts(b)' = Starts(b)
    BY <2>2, LineFacts
  <2>4. \A f, v : IsFound(f, v)' = IsFound(f, v)
    BY <2>2, FoundKept
  <2>5. Starts(s)' = Starts(s)
    BY <2>2, <2>3 DEF Starts
  <2>6. \A f : Tokens(f)' = Tokens(f)
    BY <2>2, <2>3 DEF Tokens
  <2>7. \A f : Between(f)' = Between(f)
    BY <2>2, <2>3, <2>4, <2>5 DEF Between
  <2>8. \A f, b : Copying(f, b)' = Copying(f, b)
    BY <2>2, <2>3, <2>4 DEF Copying
  <2>9. \A f, w : Copied(f, w)' = Copied(f, w)
    BY <2>2, <2>3, <2>4, <2>5 DEF Copied
  <2>10. n' >= 1 /\ \A i \in DOMAIN slots' : slots'[i] = Null <=> i >= n'
    BY <1>2, <2>2 DEF TokenInv
  <2>11. ASSUME pc' # "failed"
         PROVE  \E f : /\ Tokens(f)'
                       /\ pc' \in {"head", "done"} => Between(f)'
                       /\ pc' = "copy" => \E b : Copying(f, b)'
                       /\ pc' \in {"skip", "push"} => \E w : Copied(f, w)'
                       /\ pc' = "done" => s' = slen'
    <3>1. pc # "failed"
      BY <2>2, <2>11
    <3>2. PICK f : /\ Tokens(f)
                   /\ pc \in {"head", "done"} => Between(f)
                   /\ pc = "copy" => \E b : Copying(f, b)
                   /\ pc \in {"skip", "push"} => \E w : Copied(f, w)
                   /\ pc = "done" => s = slen
      BY <1>2, <3>1 DEF TokenInv
    <3>3. Tokens(f)'
      BY <2>6, <3>2
    <3>4. pc' \in {"head", "done"} => Between(f)'
      BY <2>2, <2>7, <3>2
    <3>5. pc' = "copy" => \E b : Copying(f, b)'
      BY <2>2, <2>8, <3>2
    <3>6. pc' \in {"skip", "push"} => \E w : Copied(f, w)'
      BY <2>2, <2>9, <3>2
    <3>7. pc' = "done" => s' = slen'
      BY <2>2, <2>3, <3>2
    <3>. QED  BY <3>3, <3>4, <3>5, <3>6, <3>7
  <2>. QED  BY <2>10, <2>11 DEF TokenInv
<1>. QED  BY <1>1, <1>2

LEMMA NextTokens == ASSUME IndInv, TokenInv, NoTok, [Next]_vars PROVE TokenInv'
<1>1. CASE Cut
  BY <1>1, TokStartTokens, CopyTokens, StopTokens, CopyEndsTokens, SkipTokens, PushTokens DEF Cut
<1>. QED  BY <1>1, OtherTokens DEF Next

LEMMA InitTokens == ASSUME NoTok, Init PROVE TokenInv
<1>1. IndInv
  BY InitIndInv
<1>2. /\ pc = "head" /\ s = 0 /\ n = 1
      /\ slots = [i \in 0 .. TokensSize - 1 |-> IF i = 0 THEN 0 ELSE Null]
  BY DEF Init
<1>3. \A i \in DOMAIN slots : slots[i] = Null <=> i >= n
  <2>1. \A i \in 0 .. TokensSize - 1 : i \in Nat /\ slots[i] = IF i = 0 THEN 0 ELSE Null
    BY <1>2, TokAssumption
  <2>. QED  BY <1>2, <2>1 DEF Null
<1>4. 1 .. n - 1 = {}
  BY <1>2
<1>5. \E f : f \in [1 .. n - 1 -> Spaces]
  <2>1. [i \in {} |-> <<0, 0>>] \in [{} -> Spaces]
    OBVIOUS
  <2>. QED  BY <1>4, <2>1
<1>6. PICK f : f \in [1 .. n - 1 -> Spaces]
  BY <1>5
<1>7. Tokens(f)
  BY <1>4, <1>6 DEF Tokens
<1>8. Between(f)
  <2>1. \A w \in Words : w[1] >= 0
    BY <1>1, WordFacts
  <2>. QED  BY <1>2, <1>4, <2>1 DEF Between, Starts
<1>. QED  BY <1>2, <1>3, <1>7, <1>8 DEF TokenInv

\* What the caller reads at a token.
LEMMA ReadToken ==
  ASSUME IndInv, fn = "tokl", NEW a \in Nat, NEW w \in Spaces, IsAt(buf, a, w), a + (w[2] - w[1]) < room
  PROVE  TokenAt(a) = WordOf(w)
<1>1. room \in Nat /\ w[1] \in Nat /\ w[2] \in Nat /\ w[1] <= w[2]
  BY TokFacts, WordFacts
<1>. DEFINE b == w[1]
            m == w[2] - w[1]
            IsEnd(k) == buf[k] = Nul /\ \A i \in a .. k - 1 : buf[i] # Nul
            e == CHOOSE k \in a .. room - 1 : IsEnd(k)
<1>2. m \in Nat /\ a + m \in a .. room - 1 /\ b \in Nat
  BY <1>1
<1>3. (\A j \in 0 .. m - 1 : buf[a + j] = b + j) /\ buf[a + m] = Nul
  BY DEF IsAt
<1>. HIDE DEF b, m
<1>4. \A i \in a .. (a + m) - 1 : buf[i] # Nul /\ buf[i] = b + (i - a)
  <2>1. SUFFICES ASSUME NEW i \in a .. (a + m) - 1 PROVE buf[i] # Nul /\ buf[i] = b + (i - a)
    OBVIOUS
  <2>2. i - a \in 0 .. m - 1 /\ a + (i - a) = i
    BY <1>2
  <2>3. buf[i] = b + (i - a)
    BY <1>3, <2>2
  <2>. QED  BY <1>2, <2>2, <2>3 DEF Nul
<1>5. IsEnd(a + m)
  BY <1>3, <1>4
<1>6. \A k \in a .. room - 1 : IsEnd(k) => k = a + m
  <2>1. SUFFICES ASSUME NEW k \in a .. room - 1, IsEnd(k) PROVE k = a + m
    OBVIOUS
  <2>2. k < a + m => k \in a .. (a + m) - 1
    BY <1>1, <1>2
  <2>3. ~(k < a + m)
    BY <1>4, <2>1, <2>2
  <2>4. a + m < k => a + m \in a .. k - 1
    BY <1>1, <1>2
  <2>5. ~(a + m < k)
    BY <1>3, <2>1, <2>4
  <2>. QED  BY <1>1, <1>2, <2>3, <2>5
<1>7. e = a + m
  BY <1>2, <1>5, <1>6
<1>8. TokenAt(a) = [i \in 1 .. e - a |-> buf[a + i - 1]]
  BY DEF TokenAt
<1>. HIDE DEF e, IsEnd
<1>9. e - a = m
  BY <1>2, <1>7
<1>10. ASSUME NEW i \in 1 .. m PROVE buf[a + i - 1] = b + i - 1
  <2>1. a + i - 1 \in a .. (a + m) - 1 /\ b + ((a + i - 1) - a) = b + i - 1
    BY <1>2
  <2>. QED  BY <1>4, <2>1
<1>11. TokenAt(a) = [i \in 1 .. m |-> b + i - 1]
  BY <1>8, <1>9, <1>10
<1>. QED  BY <1>11 DEF WordOf, b, m

LEMMA WordsAreFinite ==
  ASSUME IndInv
  PROVE  IsFiniteSet(Words) /\ Cardinality(Words) \in Nat
<1>1. slen \in Nat
  BY TokFacts
<1>2. IsFiniteSet(0 .. slen - 1) /\ IsFiniteSet(1 .. slen)
  BY <1>1, FS_Interval
<1>3. Words \in SUBSET ((0 .. slen - 1) \X (1 .. slen))
  BY DEF Words
<1>4. IsFiniteSet(Words)
  BY <1>2, <1>3, FS_Product, FS_Subset
<1>. QED  BY <1>4, FS_CardinalityType

LEMMA RightAtEnd == ASSUME IndInv, TokenInv PROVE TokensRight
<1>1. SUFFICES ASSUME fn = "tokl", pc = "done" PROVE Terminated /\ WordsFound
  BY DEF TokensRight, Terminated, WordsFound
<1>2. /\ \A i \in DOMAIN slots : slots[i] = Null <=> i >= n
      /\ \E f : Tokens(f) /\ Between(f) /\ s = slen
  BY <1>1 DEF TokenInv
<1>3. PICK f : Tokens(f) /\ Between(f) /\ s = slen
  BY <1>2
<1>4. /\ f \in [1 .. n - 1 -> Spaces]
      /\ \A i \in 1 .. n - 1 : /\ slots[i] \in Nat /\ IsAt(buf, slots[i], f[i])
                               /\ slots[i] + (f[i][2] - f[i][1]) < scpy
      /\ \A i, j \in 1 .. n - 1 : i < j => f[i][1] < f[j][1] /\ slots[i] < slots[j]
      /\ \A i \in 1 .. n - 1 : f[i] \in Words \/ (f[i] = Nothing /\ i = n - 1)
  BY <1>3 DEF Tokens
<1>5. Terminated
  BY <1>2, <1>4 DEF Terminated
<1>6. slen \in Nat /\ n \in Nat /\ scpy \in Nat /\ room \in Nat /\ scpy <= room
  BY <1>1, TokFacts DEF IndInv, Placed, Behind
<1>7. \A i \in 1 .. n - 1 : TokenAt(slots[i]) = WordOf(f[i])
  <2>1. SUFFICES ASSUME NEW i \in 1 .. n - 1 PROVE TokenAt(slots[i]) = WordOf(f[i])
    OBVIOUS
  <2>2. f[i] \in Spaces /\ slots[i] \in Nat /\ IsAt(buf, slots[i], f[i])
    BY <1>4
  <2>3. slots[i] + (f[i][2] - f[i][1]) < room
    <3>1. slots[i] + (f[i][2] - f[i][1]) < scpy /\ f[i][1] \in Nat /\ f[i][2] \in Nat
      BY <1>4, <2>2, WordFacts
    <3>. QED  BY <1>6, <2>2, <3>1
  <2>. QED  BY <1>1, <2>2, <2>3, ReadToken
<1>8. \A w \in Words : WordOf(w) # <<>>
  <2>1. SUFFICES ASSUME NEW w \in Words PROVE WordOf(w) # <<>>
    OBVIOUS
  <2>2. 1 \in 1 .. w[2] - w[1]
    BY WordFacts
  <2>3. DOMAIN WordOf(w) = 1 .. w[2] - w[1] /\ DOMAIN <<>> = {}
    BY DEF WordOf
  <2>. QED  BY <2>2, <2>3
<1>9. WordOf(Nothing) = <<>>
  <2>1. 1 .. Nothing[2] - Nothing[1] = {}
    BY <1>6 DEF Nothing
  <2>. QED  BY <2>1 DEF WordOf
<1>10. \A w \in Words : \E i \in 1 .. n - 1 : f[i] = w
  BY <1>3, <1>6, WordFacts DEF Between, IsFound
<1>. DEFINE found == {TokenAt(slots[i]) : i \in 1 .. n - 1}
<1>11. found \ {<<>>} = {WordOf(w) : w \in Words}
  <2>1. ASSUME NEW x \in found, x # <<>> PROVE \E w \in Words : x = WordOf(w)
    <3>1. PICK i \in 1 .. n - 1 : x = TokenAt(slots[i])
      OBVIOUS
    <3>2. x = WordOf(f[i])
      BY <1>7, <3>1
    <3>. QED  BY <1>4, <1>9, <2>1, <3>2
  <2>2. ASSUME NEW w \in Words PROVE WordOf(w) \in found /\ WordOf(w) # <<>>
    <3>1. PICK i \in 1 .. n - 1 : f[i] = w
      BY <1>10
    <3>2. TokenAt(slots[i]) = WordOf(w)
      BY <1>7, <3>1
    <3>. QED  BY <1>8, <3>2
  <2>. HIDE DEF found
  <2>. QED  BY <2>1, <2>2
<1>12. \A i \in 1 .. n - 2 : i \in 1 .. n - 1 /\ f[i] \in Words /\ TokenAt(slots[i]) # <<>>
  <2>1. SUFFICES ASSUME NEW i \in 1 .. n - 2
                 PROVE  i \in 1 .. n - 1 /\ f[i] \in Words /\ TokenAt(slots[i]) # <<>>
    OBVIOUS
  <2>2. i \in 1 .. n - 1 /\ i # n - 1
    BY <1>6
  <2>3. f[i] \in Words
    BY <1>4, <2>2
  <2>. QED  BY <1>7, <1>8, <2>2, <2>3
<1>13. n - 1 <= Cardinality(Words) + 1
  <2>1. CASE n < 2
    BY <1>6, <2>1, WordsAreFinite
  <2>2. CASE n >= 2
    <3>. DEFINE g == [i \in 1 .. n - 2 |-> f[i]]
    <3>1. g \in [1 .. n - 2 -> Words]
      BY <1>12
    <3>2. \A i, j \in 1 .. n - 2 : g[i] = g[j] => i = j
      <4>1. ASSUME NEW i \in 1 .. n - 2, NEW j \in 1 .. n - 2, i < j PROVE f[i] # f[j]
        <5>1. f[i][1] < f[j][1] /\ f[i][1] \in Nat
          BY <1>4, <1>12, <4>1, WordFacts
        <5>. QED  BY <5>1
      <4>2. ASSUME NEW i \in 1 .. n - 2, NEW j \in 1 .. n - 2, f[i] = f[j] PROVE i = j
        <5>1. ~(i < j) /\ ~(j < i)
          BY <4>1, <4>2
        <5>. QED  BY <1>6, <5>1
      <4>. QED  BY <4>2
    <3>. HIDE DEF g
    <3>3. g \in Injection(1 .. n - 2, Words)
      BY <3>1, <3>2 DEF Injection, IsInjective
    <3>4. Cardinality(1 .. n - 2) <= Cardinality(Words)
      BY <3>3, WordsAreFinite, FS_Injection
    <3>5. Cardinality(1 .. n - 2) = n - 2
      <4>1. n - 2 \in Int
        BY <1>6
      <4>2. Cardinality(1 .. n - 2) = IF 1 > n - 2 THEN 0 ELSE n - 2 - 1 + 1
        BY <4>1, FS_Interval
      <4>. QED  BY <1>6, <2>2, <4>2
    <3>. QED  BY <1>6, <3>4, <3>5, WordsAreFinite
  <2>. QED  BY <1>6, <2>1, <2>2
<1>14. WordsFound
  <2>1. {WordOf(w) : w \in Words} = {[k \in 1 .. w[2] - w[1] |-> w[1] + k - 1] : w \in Words}
    BY DEF WordOf
  <2>. QED  BY <1>11, <1>12, <1>13, <2>1 DEF WordsFound
<1>. QED  BY <1>5, <1>14

\* The tokens of n_str_tokl_n, whatever the line and however often the array
\* had to grow, are the runs of characters between delimiters, in order, each
\* ended by a NUL of its own in the block, and the array ends with NULL.
THEOREM TokensAreWords == ASSUME NoTok PROVE Spec => []TokensRight
<1>1. Init => IndInv /\ TokenInv
  BY InitIndInv, InitTokens
<1>2. IndInv /\ TokenInv /\ [Next]_vars => (IndInv /\ TokenInv)'
  BY NextIndInv, NextTokens
<1>3. IndInv /\ TokenInv => TokensRight
  BY RightAtEnd
<1>. QED  BY <1>1, <1>2, <1>3, PTL DEF Spec

-----------------------------------------------------------------------------
(***************************************************************************)
(* What n_str_etokl_ext does with each character                           *)
(***************************************************************************)
IsIn(l, c)   == \E t \in 1 .. Len(l) : \E i \in 1 .. Len(l[t]) : l[t][i] = c
Rising(t)    == \A i, j \in 1 .. Len(t) : i < j => t[i] < t[j]
MustKeep(c)  == line[c] \in {Plain, Break}
Continues(c) == line[c] = Plain /\ c + 1 < slen /\ line[c + 1] = Plain

\* The tokens l are in order, hold characters before b, and none ends within a
\* run of plain characters.
Ordered(l, b) ==
  /\ \A t \in 1 .. Len(l) :
       /\ Len(l[t]) \in 1 .. slen /\ Rising(l[t])
       /\ \A i \in 1 .. Len(l[t]) : l[t][i] < b
       /\ ~Continues(l[t][Len(l[t])])
  /\ \A t, u \in 1 .. Len(l) : t < u =>
       \A i \in 1 .. Len(l[t]), j \in 1 .. Len(l[u]) : l[t][i] < l[u][j]

\* The token r holds characters from b to e, and nothing before e is missing.
Reaches(l, r, b, e) ==
  /\ b \in 0 .. e /\ e \in 0 .. slen
  /\ \A i \in 1 .. Len(r) : b <= r[i] /\ r[i] < e
  /\ Rising(r)
  /\ \A c \in 0 .. e - 1 : MustKeep(c) => IsIn(l, c) \/ \E i \in 1 .. Len(r) : r[i] = c

Broken == s > 0 /\ line[s - 1] = Break

CharInv ==
  /\ fn # "etokl" => list = <<>>
  /\ fn = "etokl" =>
       /\ pc \in {"head", "done"} => Ordered(list, s) /\ Reaches(list, <<>>, s, s)
       /\ pc = "done" => s = slen
       /\ pc = "parse" => \E b \in Nat : Ordered(list, b) /\ Reaches(list, token, b, s)
       /\ pc = "end" /\ isBreak =>
            Broken /\ \E b \in Nat : Ordered(list, b) /\ Reaches(list, token, b, s - 1)
       /\ pc = "end" /\ ~isBreak =>
            (s = slen \/ line[s] = White) /\ \E b \in Nat : Ordered(list, b) /\ Reaches(list, token, b, s)

\* On a line without quotes and escapes.
Simple == \A c \in DOMAIN line : line[c] \in {Plain, White, Break}
Run(t) == \A i \in 1 .. Len(t) : line[t[i]] = Plain /\ (i > 1 => t[i] = t[i - 1] + 1)

SimpleInv ==
  fn = "etokl" /\ Simple =>
    /\ \A t \in 1 .. Len(list) : Run(list[t]) \/ (Len(list[t]) = 1 /\ line[list[t][1]] = Break)
    /\ pc \in {"parse", "end"} => Run(token)
    /\ pc = "parse" =>
         /\ state # "quote" /\ (state = "white" => token = <<>>)
         /\ state = "token" => Len(token) > 0 /\ token[Len(token)] = s - 1
    /\ pc = "end" /\ isBreak => Broken

LEMMA ClassFacts ==
  ASSUME NEW c, line[c] \in Chars
  PROVE  /\ line[c] = Plain \/ line[c] = White \/ line[c] = Break \/ line[c] = Escape \/ line[c] \in Quotes
         /\ MustKeep(c) <=> line[c] # White /\ line[c] # Escape /\ line[c] \notin Quotes
         /\ Plain # White /\ Plain # Break /\ White # Break
BY TokAssumption DEF Chars, MustKeep

Line == slen \in Nat /\ DOMAIN line = 0 .. slen - 1

\* A token with one more character, those before which need not be kept.
LEMMA OneMore ==
  ASSUME Line, NEW l, NEW r \in Seq(DOMAIN line), NEW b \in Nat, NEW e \in Nat, Reaches(l, r, b, e),
         NEW c \in Nat, c < slen, e <= c, \A k \in e .. c - 1 : ~MustKeep(k)
  PROVE  Append(r, c) \in Seq(DOMAIN line) /\ Reaches(l, Append(r, c), b, c + 1)
<1>. DEFINE q == Append(r, c)
            m == Len(r)
<1>1. slen \in Nat /\ c \in DOMAIN line /\ c + 1 \in 0 .. slen
  BY DEF Line
<1>2. /\ q \in Seq(DOMAIN line) /\ m \in Nat /\ Len(q) = m + 1 /\ q[m + 1] = c
      /\ \A i \in 1 .. m : q[i] = r[i] /\ r[i] \in DOMAIN line
  BY <1>1
<1>3. /\ b \in 0 .. e
      /\ \A i \in 1 .. m : b <= r[i] /\ r[i] < e
      /\ \A i, j \in 1 .. m : i < j => r[i] < r[j]
      /\ \A d \in 0 .. e - 1 : MustKeep(d) => IsIn(l, d) \/ \E i \in 1 .. m : r[i] = d
  BY DEF Reaches, Rising
<1>. HIDE DEF q, m
<1>4. \A i \in 1 .. m + 1 : i = m + 1 \/ i \in 1 .. m
  BY <1>2
<1>5. \A i \in 1 .. m : q[i] = r[i] /\ i \in 1 .. m + 1 /\ b <= r[i] /\ r[i] < c /\ r[i] < c + 1
  <2>1. SUFFICES ASSUME NEW i \in 1 .. m PROVE i \in 1 .. m + 1 /\ b <= r[i] /\ r[i] < c /\ r[i] < c + 1
    BY <1>2
  <2>2. r[i] \in Nat
    BY <1>1, <1>2 DEF Line
  <2>. QED  BY <1>2, <1>3, <2>2
<1>6. b <= c /\ c < c + 1
  BY <1>3
<1>7. \A i \in 1 .. Len(q) : b <= q[i] /\ q[i] < c + 1
  BY <1>2, <1>4, <1>5, <1>6
<1>8. Rising(q)
  <2>1. ASSUME NEW i \in 1 .. m + 1, NEW j \in 1 .. m + 1, i < j PROVE q[i] < q[j]
    <3>1. i \in 1 .. m
      BY <1>2, <2>1
    <3>2. CASE j = m + 1
      BY <1>2, <1>5, <3>1, <3>2
    <3>3. CASE j \in 1 .. m
      BY <1>2, <1>3, <2>1, <3>1, <3>3
    <3>. QED  BY <1>4, <3>2, <3>3
  <2>. QED  BY <1>2, <2>1 DEF Rising
<1>9. ASSUME NEW d \in 0 .. (c + 1) - 1, MustKeep(d), ~IsIn(l, d) PROVE \E i \in 1 .. Len(q) : q[i] = d
  <2>1. CASE d \in 0 .. e - 1
    BY <1>2, <1>3, <1>5, <1>9, <2>1
  <2>2. CASE d = c
    <3>1. m + 1 \in 1 .. Len(q)
      BY <1>2
    <3>. QED  BY <1>2, <2>2, <3>1
  <2>3. d \in 0 .. e - 1 \/ d = c \/ d \in e .. c - 1
    OBVIOUS
  <2>. QED  BY <1>9, <2>1, <2>2, <2>3
<1>10. b \in 0 .. c + 1
  BY <1>3
<1>. QED  BY <1>1, <1>2, <1>7, <1>8, <1>9, <1>10 DEF Reaches, q

LEMMA LeftOut ==
  ASSUME Line, NEW l, NEW r \in Seq(DOMAIN line), NEW b \in Nat, NEW e \in Nat, Reaches(l, r, b, e),
         NEW c \in Nat, c <= slen, e <= c, \A k \in e .. c - 1 : ~MustKeep(k)
  PROVE  Reaches(l, r, b, c)
<1>1. /\ b \in 0 .. e /\ Rising(r)
      /\ \A i \in 1 .. Len(r) : b <= r[i] /\ r[i] < e
      /\ \A d \in 0 .. e - 1 : MustKeep(d) => IsIn(l, d) \/ \E i \in 1 .. Len(r) : r[i] = d
  BY DEF Reaches
<1>2. b \in 0 .. c /\ c \in 0 .. slen
  BY <1>1 DEF Line
<1>3. \A i \in 1 .. Len(r) : b <= r[i] /\ r[i] < c
  <2>1. SUFFICES ASSUME NEW i \in 1 .. Len(r) PROVE b <= r[i] /\ r[i] < c
    OBVIOUS
  <2>2. r[i] \in Nat
    BY DEF Line
  <2>. QED  BY <1>1, <2>2
<1>4. \A d \in 0 .. c - 1 : d \in 0 .. e - 1 \/ d \in e .. c - 1
  OBVIOUS
<1>. QED  BY <1>1, <1>2, <1>3, <1>4 DEF Reaches

\* A token that is collected.
LEMMA OneToken ==
  ASSUME Line, NEW l \in Seq(Seq(DOMAIN line)), NEW r \in Seq(DOMAIN line), NEW b \in Nat, NEW e \in Nat,
         Ordered(l, b), Reaches(l, r, b, e), r # <<>>, Len(r) <= slen, ~Continues(r[Len(r)])
  PROVE  /\ Append(l, r) \in Seq(Seq(DOMAIN line))
         /\ Ordered(Append(l, r), e) /\ Reaches(Append(l, r), <<>>, e, e)
<1>. DEFINE q == Append(l, r)
            m == Len(l)
<1>1. /\ q \in Seq(Seq(DOMAIN line)) /\ m \in Nat /\ Len(q) = m + 1 /\ q[m + 1] = r
      /\ \A t \in 1 .. m : q[t] = l[t] /\ l[t] \in Seq(DOMAIN line) /\ t \in 1 .. m + 1
  OBVIOUS
<1>2. /\ \A t \in 1 .. m : /\ Len(l[t]) \in 1 .. slen /\ Rising(l[t])
                           /\ \A i \in 1 .. Len(l[t]) : l[t][i] < b
                           /\ ~Continues(l[t][Len(l[t])])
      /\ \A t, u \in 1 .. m : t < u =>
           \A i \in 1 .. Len(l[t]), j \in 1 .. Len(l[u]) : l[t][i] < l[u][j]
  BY DEF Ordered
<1>3. /\ b \in 0 .. e /\ e \in 0 .. slen /\ Rising(r)
      /\ \A i \in 1 .. Len(r) : b <= r[i] /\ r[i] < e
      /\ \A d \in 0 .. e - 1 : MustKeep(d) => IsIn(l, d) \/ \E i \in 1 .. Len(r) : r[i] = d
  BY DEF Reaches
<1>4. Len(r) \in 1 .. slen /\ \A i \in 1 .. Len(r) : r[i] \in Nat
  BY DEF Line
<1>5. \A t \in 1 .. m : Len(l[t]) \in Nat /\ \A i \in 1 .. Len(l[t]) : l[t][i] \in Nat
  <2>1. SUFFICES ASSUME NEW t \in 1 .. m PROVE Len(l[t]) \in Nat /\ \A i \in 1 .. Len(l[t]) : l[t][i] \in Nat
    OBVIOUS
  <2>2. l[t] \in Seq(DOMAIN line)
    BY <1>1
  <2>3. Len(l[t]) \in Nat /\ \A i \in 1 .. Len(l[t]) : l[t][i] \in DOMAIN line
    BY <2>2
  <2>4. \A x \in DOMAIN line : x \in Nat
    BY DEF Line
  <2>. QED  BY <2>3, <2>4
<1>. HIDE DEF q, m
<1>6. \A t \in 1 .. m + 1 : t = m + 1 \/ t \in 1 .. m
  BY <1>1
<1>7. ASSUME NEW t \in 1 .. m + 1
      PROVE  /\ Len(q[t]) \in 1 .. slen /\ Rising(q[t])
             /\ \A i \in 1 .. Len(q[t]) : q[t][i] < e
             /\ ~Continues(q[t][Len(q[t])])
  <2>1. CASE t = m + 1
    BY <1>1, <1>3, <1>4, <2>1
  <2>2. CASE t \in 1 .. m
    <3>1. \A i \in 1 .. Len(l[t]) : l[t][i] < e
      <4>1. SUFFICES ASSUME NEW i \in 1 .. Len(l[t]) PROVE l[t][i] < e
        OBVIOUS
      <4>2. l[t][i] \in Nat /\ l[t][i] < b
        BY <1>2, <1>5, <2>2
      <4>. QED  BY <1>3, <4>2
    <3>. QED  BY <1>1, <1>2, <2>2, <3>1
  <2>. QED  BY <1>6, <2>1, <2>2
<1>8. ASSUME NEW t \in 1 .. m + 1, NEW u \in 1 .. m + 1, t < u,
             NEW i \in 1 .. Len(q[t]), NEW j \in 1 .. Len(q[u])
      PROVE  q[t][i] < q[u][j]
  <2>1. t \in 1 .. m
    BY <1>1, <1>8
  <2>2. q[t] = l[t]
    BY <1>1, <2>1
  <2>3. CASE u = m + 1
    <3>1. q[u] = r
      BY <1>1, <2>3
    <3>2. l[t][i] < b /\ l[t][i] \in Nat /\ b <= r[j] /\ r[j] \in Nat
      BY <1>2, <1>3, <1>4, <1>5, <2>1, <2>2, <3>1
    <3>. QED  BY <2>2, <3>1, <3>2
  <2>4. CASE u \in 1 .. m
    <3>1. q[u] = l[u]
      BY <1>1, <2>4
    <3>. QED  BY <1>2, <1>8, <2>1, <2>2, <2>4, <3>1
  <2>. QED  BY <1>6, <2>3, <2>4
<1>9. Ordered(q, e)
  BY <1>1, <1>7, <1>8 DEF Ordered
<1>10. ASSUME NEW d \in 0 .. e - 1, MustKeep(d) PROVE IsIn(q, d)
  <2>1. CASE IsIn(l, d)
    <3>1. PICK t \in 1 .. m : \E i \in 1 .. Len(l[t]) : l[t][i] = d
      BY <2>1 DEF IsIn, m
    <3>2. q[t] = l[t] /\ t \in 1 .. Len(q)
      BY <1>1, <3>1
    <3>. QED  BY <3>1, <3>2 DEF IsIn
  <2>2. CASE \E i \in 1 .. Len(r) : r[i] = d
    <3>1. q[m + 1] = r /\ m + 1 \in 1 .. Len(q)
      BY <1>1
    <3>. QED  BY <2>2, <3>1 DEF IsIn
  <2>. QED  BY <1>3, <1>10, <2>1, <2>2
<1>11. Reaches(q, <<>>, e, e)
  <2>1. e \in 0 .. e /\ Len(<<>>) = 0 /\ 1 .. 0 = {}
    OBVIOUS
  <2>. QED  BY <1>3, <1>10, <2>1 DEF Reaches, Rising
<1>. QED  BY <1>1, <1>9, <1>11 DEF q

LEMMA NoToken ==
  ASSUME Line, NEW l \in Seq(Seq(DOMAIN line)), NEW b \in Nat, NEW e \in Nat,
         Ordered(l, b), Reaches(l, <<>>, b, e)
  PROVE  Ordered(l, e) /\ Reaches(l, <<>>, e, e)
<1>1. \A t \in 1 .. Len(l) : \A i \in 1 .. Len(l[t]) : l[t][i] < e
  <2>1. SUFFICES ASSUME NEW t \in 1 .. Len(l), NEW i \in 1 .. Len(l[t]) PROVE l[t][i] < e
    OBVIOUS
  <2>2. l[t] \in Seq(DOMAIN line)
    OBVIOUS
  <2>3. l[t][i] \in Nat
    BY <2>2 DEF Line
  <2>4. l[t][i] < b /\ b <= e
    BY DEF Ordered, Reaches
  <2>. QED  BY <2>3, <2>4
<1>2. Ordered(l, e)
  BY <1>1 DEF Ordered
<1>3. Reaches(l, <<>>, e, e)
  <2>1. e \in 0 .. e /\ Len(<<>>) = 0 /\ 1 .. 0 = {}
    OBVIOUS
  <2>. QED  BY <2>1 DEF Reaches, Rising
<1>. QED  BY <1>2, <1>3

\* The next state, told by what it is.
LEMMA NextIs ==
  ASSUME line' = line, NEW l, NEW r, NEW b, NEW e, list' = l
  PROVE  /\ Ordered(l, b) => Ordered(list, b)'
         /\ Reaches(l, r, b, e) /\ token' = r /\ s' = e => Reaches(list, token, b, s)'
         /\ Reaches(l, r, b, e) /\ token' = r /\ s' - 1 = e => Reaches(list, token, b, s - 1)'
         /\ Ordered(l, e) /\ s' = e => Ordered(list, s)'
         /\ Reaches(l, <<>>, e, e) /\ s' = e => Reaches(list, <<>>, s, s)'
<1>1. slen' = slen
  BY DEF slen
<1>2. \A k : Continues(k)' <=> Continues(k)
  BY <1>1 DEF Continues
<1>3. Ordered(l, b) => Ordered(list, b)'
  BY <1>1, <1>2 DEF Ordered, Rising, Continues
<1>4. Reaches(l, r, b, e) /\ token' = r /\ s' = e => Reaches(list, token, b, s)'
  BY <1>1 DEF Reaches, Rising, MustKeep, IsIn
<1>5. Reaches(l, r, b, e) /\ token' = r /\ s' - 1 = e => Reaches(list, token, b, s - 1)'
  BY <1>1 DEF Reaches, Rising, MustKeep, IsIn
<1>6. Ordered(l, e) /\ s' = e => Ordered(list, s)'
  BY <1>1, <1>2 DEF Ordered, Rising, Continues
<1>7. Reaches(l, <<>>, e, e) /\ s' = e => Reaches(list, <<>>, s, s)'
  BY <1>1 DEF Reaches, Rising, MustKeep, IsIn
<1>. QED  BY <1>3, <1>4, <1>5, <1>6, <1>7

LEMMA ParseFacts ==
  ASSUME IndInv, pc \in {"parse", "end"}
  PROVE  /\ Line /\ slen \in Nat /\ s \in 0 .. slen /\ s \in Nat /\ fn = "etokl"
         /\ token \in Seq(DOMAIN line) /\ Len(token) \in Nat /\ Len(token) <= s
         /\ list \in Seq(Seq(DOMAIN line))
         /\ (pc = "parse" => ~isBreak)
         /\ \A c \in DOMAIN line : line[c] \in Chars
         /\ \A t \in Seq(DOMAIN line), c \in DOMAIN line : Len(t) <= slen => Store(t, c) = Append(t, c)
<1>1. /\ slen \in Nat /\ DOMAIN line = 0 .. slen - 1 /\ line \in [0 .. slen - 1 -> Chars]
  BY Length DEF IndInv, TypeOK
<1>2. /\ s \in 0 .. slen /\ token \in Seq(DOMAIN line) /\ list \in Seq(Seq(DOMAIN line))
      /\ Len(token) <= s /\ (pc = "parse" => ~isBreak) /\ fn = "etokl"
  BY DEF IndInv, TypeOK, Short, Loop
<1>3. \A t \in Seq(DOMAIN line), c \in DOMAIN line : Len(t) <= slen => Store(t, c) = Append(t, c)
  <2>1. SUFFICES ASSUME NEW t \in Seq(DOMAIN line), NEW c \in DOMAIN line, Len(t) <= slen
                 PROVE  Len(t) < toksize
    BY DEF Store
  <2>. QED  BY <1>1, <2>1 DEF toksize
<1>. QED  BY <1>1, <1>2, <1>3 DEF Line

\* What a turn of the loop of lp_parse has to see to.
LEMMA TurnChars ==
  ASSUME fn = "etokl", UNCHANGED <<fn, line, list>>,
         NEW b \in Nat, NEW e, NEW r, Ordered(list, b), Reaches(list, r, b, e), token' = r,
         \/ pc' = "parse" /\ s' = e
         \/ pc' = "end" /\ ~isBreak' /\ s' = e /\ (e = slen \/ line[e] = White)
         \/ pc' = "end" /\ isBreak' /\ e \in Nat /\ s' = e + 1 /\ line[e] = Break
  PROVE  CharInv'
<1>1. PICK l : l = list
  OBVIOUS
<1>2. list' = l /\ Ordered(l, b) /\ Reaches(l, r, b, e)
  BY <1>1
<1>3. slen' = slen
  BY DEF slen
<1>4. Ordered(list, b)'
  BY <1>2, NextIs
<1>5. CASE pc' = "parse" /\ s' = e
  <2>1. Reaches(list, token, b, s)'
    BY <1>2, <1>5, NextIs
  <2>. QED  BY <1>4, <1>5, <2>1 DEF CharInv
<1>6. CASE pc' = "end" /\ ~isBreak' /\ s' = e /\ (e = slen \/ line[e] = White)
  <2>1. Reaches(list, token, b, s)'
    BY <1>2, <1>6, NextIs
  <2>. QED  BY <1>3, <1>4, <1>6, <2>1 DEF CharInv
<1>7. CASE pc' = "end" /\ isBreak' /\ e \in Nat /\ s' = e + 1 /\ line[e] = Break
  <2>1. s' - 1 = e /\ s' > 0
    BY <1>7
  <2>2. Reaches(list, token, b, s - 1)'
    BY <1>2, <2>1, NextIs
  <2>3. Broken'
    BY <1>7, <2>1 DEF Broken
  <2>. QED  BY <1>4, <1>7, <2>2, <2>3 DEF CharInv
<1>. QED  BY <1>5, <1>6, <1>7

LEMMA ParseChars == ASSUME IndInv, CharInv, NoTok, Parse PROVE CharInv'
<1>1. pc = "parse" /\ s < slen /\ UNCHANGED <<fn, line, inTok, list>>
  BY DEF Parse
<1>2. /\ Line /\ slen \in Nat /\ s \in 0 .. slen /\ s \in Nat /\ fn = "etokl"
      /\ token \in Seq(DOMAIN line) /\ Len(token) \in Nat /\ Len(token) <= s /\ ~isBreak
      /\ \A c \in DOMAIN line : line[c] \in Chars
      /\ \A t \in Seq(DOMAIN line), c \in DOMAIN line : Len(t) <= slen => Store(t, c) = Append(t, c)
  BY <1>1, ParseFacts
<1>3. PICK b \in Nat : Ordered(list, b) /\ Reaches(list, token, b, s)
  BY <1>1, <1>2 DEF CharInv
<1>4. /\ s \in DOMAIN line /\ s + 1 \in Nat /\ s + 1 <= slen
      /\ \A c \in DOMAIN line : c \in Nat /\ c < slen /\ Store(token, c) = Append(token, c)
  BY <1>1, <1>2 DEF Line
<1>5. ASSUME NEW c \in DOMAIN line, s <= c, \A k \in s .. c - 1 : ~MustKeep(k)
      PROVE  /\ Store(token, c) \in Seq(DOMAIN line)
             /\ Reaches(list, Store(token, c), b, c + 1)
  <2>1. Append(token, c) \in Seq(DOMAIN line) /\ Reaches(list, Append(token, c), b, c + 1)
    BY <1>2, <1>3, <1>4, <1>5, OneMore
  <2>. QED  BY <1>4, <2>1
<1>6. s .. s - 1 = {} /\ s .. (s + 1) - 1 = {s}
  BY <1>2
<1>7. Reaches(list, Store(token, s), b, s + 1)
  BY <1>2, <1>4, <1>5, <1>6
<1>8. ~MustKeep(s) => Reaches(list, token, b, s + 1)
  BY <1>2, <1>3, <1>4, <1>6, LeftOut
<1>9. CASE OnBreak
  <2>1. line[s] = Break /\ s' = s + 1
    BY <1>9 DEF OnBreak
  <2>2. CASE state = "quote"
    <3>1. token' = Store(token, s) /\ pc' = "parse"
      BY <1>1, <1>9, <2>2 DEF OnBreak, Keep
    <3>. QED  BY <1>1, <1>2, <1>3, <1>7, <2>1, <3>1, TurnChars
  <2>3. CASE state # "quote"
    <3>1. token' = token /\ pc' = "end" /\ isBreak'
      BY <1>9, <2>3 DEF OnBreak, Drop, Goto
    <3>2. PICK r : r = token
      OBVIOUS
    <3>. QED  BY <1>1, <1>2, <1>3, <2>1, <3>1, <3>2, TurnChars
  <2>. QED  BY <2>2, <2>3
<1>10. CASE OnQuote
  <2>1. line[s] \in Quotes /\ s' = s + 1 /\ pc' = "parse"
    BY <1>1, <1>10 DEF OnQuote
  <2>2. token' = token \/ token' = Store(token, s)
    BY <1>10 DEF OnQuote, Keep, Drop
  <2>3. ~MustKeep(s)
    BY <2>1, TokAssumption DEF MustKeep
  <2>4. PICK r : r = token'
    OBVIOUS
  <2>5. Reaches(list, r, b, s + 1)
    BY <1>7, <1>8, <2>2, <2>3, <2>4
  <2>. QED  BY <1>1, <1>2, <1>3, <2>1, <2>4, <2>5, TurnChars
<1>11. CASE OnWhite
  <2>1. line[s] = White
    BY <1>11 DEF OnWhite
  <2>2. ~MustKeep(s)
    BY <2>1, TokAssumption DEF MustKeep
  <2>3. \/ token' \in {token, Store(token, s)} /\ s' = s + 1 /\ pc' = "parse"
        \/ token' = token /\ s' = s /\ pc' = "end"
    <3>1. state \in {"white", "token", "quote"}
      BY DEF IndInv, TypeOK
    <3>. QED  BY <1>1, <1>11, <3>1 DEF OnWhite, Keep, Drop, Goto
  <2>4. PICK r : r = token'
    OBVIOUS
  <2>5. CASE r \in {token, Store(token, s)} /\ s' = s + 1 /\ pc' = "parse"
    <3>1. Reaches(list, r, b, s + 1)
      BY <1>7, <1>8, <2>2, <2>5
    <3>. QED  BY <1>1, <1>2, <1>3, <2>4, <2>5, <3>1, TurnChars
  <2>6. CASE r = token /\ s' = s /\ pc' = "end"
    <3>1. ~isBreak'
      BY <1>2, <1>11 DEF OnWhite
    <3>. QED  BY <1>1, <1>2, <1>3, <2>1, <2>4, <2>6, <3>1, TurnChars
  <2>. QED  BY <2>3, <2>4, <2>5, <2>6
<1>12. CASE OnEscape
  <2>1. line[s] = Escape /\ ~isBreak'
    BY <1>2, <1>12 DEF OnEscape
  <2>2. ~MustKeep(s)
    BY <2>1, TokAssumption DEF MustKeep
  <2>3. PICK r : r = token'
    OBVIOUS
  <2>4. CASE s + 1 = slen
    <3>1. token' = Store(token, s) /\ s' = s + 1 /\ pc' = "end"
      BY <1>12, <2>4 DEF OnEscape, Keep, Goto
    <3>2. Reaches(list, r, b, s + 1)
      BY <1>7, <2>3, <3>1
    <3>. QED  BY <1>1, <1>2, <1>3, <2>1, <2>3, <2>4, <3>1, <3>2, TurnChars
  <2>5. CASE s + 1 # slen
    <3>1. s + 1 \in DOMAIN line /\ s + 1 < slen /\ pc' = "parse"
      <4>1. pc' = "parse"
        BY <1>1, <1>12, <2>5 DEF OnEscape
      <4>. QED  BY <1>2, <1>4, <2>5, <4>1 DEF Line
    <3>2. Reaches(list, Store(token, s + 1), b, s + 2)
      <4>1. s <= s + 1 /\ (s + 1) + 1 = s + 2
        BY <1>2
      <4>. QED  BY <1>5, <1>6, <2>2, <3>1, <4>1
    <3>3. CASE line[s + 1] = Escape
      <4>1. ~Special(line[s + 1])
        BY <3>3, TokAssumption DEF Special
      <4>2. \/ token' = Store(token, s) /\ s' = s + 1
            \/ token' = Store(Store(token, s), s + 1) /\ s' = s + 2
        BY <1>2, <1>12, <2>5, <3>3, <4>1 DEF OnEscape
      <4>3. CASE token' = Store(token, s) /\ s' = s + 1
        BY <1>1, <1>2, <1>3, <1>7, <2>3, <3>1, <4>3, TurnChars
      <4>4. CASE token' = Store(Store(token, s), s + 1) /\ s' = s + 2
        <5>1. PICK t : t = Store(token, s)
          OBVIOUS
        <5>2. t \in Seq(DOMAIN line) /\ Len(t) \in Nat /\ Len(t) <= Len(token) + 1 /\ Reaches(list, t, b, s + 1)
          BY <1>2, <1>4, <1>7, <5>1, StoreKept
        <5>3. Len(t) <= slen
          BY <1>2, <1>4, <5>2
        <5>4. Store(t, s + 1) = Append(t, s + 1)
          BY <1>2, <3>1, <5>2, <5>3
        <5>5. (s + 1) .. (s + 1) - 1 = {} /\ (s + 1) + 1 = s + 2
          BY <1>2
        <5>6. Reaches(list, Append(t, s + 1), b, s + 2)
          <6>1. \A k \in (s + 1) .. (s + 1) - 1 : ~MustKeep(k)
            BY <5>5
          <6>2. s + 1 \in Nat /\ s + 1 <= s + 1 /\ b \in Nat
            BY <1>2, <1>3
          <6>3. Reaches(list, Append(t, s + 1), b, (s + 1) + 1)
            BY <1>2, <3>1, <5>2, <6>1, <6>2, OneMore
          <6>. QED  BY <5>5, <6>3
        <5>7. Reaches(list, r, b, s + 2)
          BY <2>3, <4>4, <5>1, <5>4, <5>6
        <5>. QED  BY <1>1, <1>2, <1>3, <2>3, <3>1, <4>4, <5>7, TurnChars
      <4>. QED  BY <4>2, <4>3, <4>4
    <3>4. CASE line[s + 1] # Escape
      <4>1. \/ token' = token /\ s' = s
            \/ token' = Store(token, s + 1) /\ s' = s + 2
            \/ token' = Store(token, s) /\ s' = s + 1
        BY <1>12, <2>5, <3>4 DEF OnEscape, NextStored
      <4>2. CASE token' = token /\ s' = s
        BY <1>1, <1>2, <1>3, <2>3, <3>1, <4>2, TurnChars
      <4>3. CASE token' = Store(token, s + 1) /\ s' = s + 2
        BY <1>1, <1>2, <1>3, <2>3, <3>1, <3>2, <4>3, TurnChars
      <4>4. CASE token' = Store(token, s) /\ s' = s + 1
        BY <1>1, <1>2, <1>3, <1>7, <2>3, <3>1, <4>4, TurnChars
      <4>. QED  BY <4>1, <4>2, <4>3, <4>4
    <3>. QED  BY <3>3, <3>4
  <2>. QED  BY <2>4, <2>5
<1>13. CASE OnPlain
  <2>1. token' = Store(token, s) /\ s' = s + 1 /\ pc' = "parse"
    BY <1>1, <1>13 DEF OnPlain, Keep
  <2>2. PICK r : r = token'
    OBVIOUS
  <2>3. Reaches(list, r, b, s + 1)
    BY <1>7, <2>1, <2>2
  <2>. QED  BY <1>1, <1>2, <1>3, <2>1, <2>2, <2>3, TurnChars
<1>. QED  BY <1>9, <1>10, <1>11, <1>12, <1>13 DEF Parse

LEMMA ParseStartChars == ASSUME IndInv, CharInv, NoTok, ParseStart PROVE CharInv'
<1>1. /\ pc = "head" /\ fn = "etokl" /\ pc' = "parse" /\ s' = s /\ UNCHANGED <<fn, line, list>>
      /\ token' = <<>>
  BY DEF ParseStart, Goto
<1>2. Ordered(list, s) /\ Reaches(list, <<>>, s, s) /\ s \in Nat
  BY <1>1, TokFacts DEF CharInv
<1>3. PICK b : b = s
  OBVIOUS
<1>. QED  BY <1>1, <1>2, <1>3, TurnChars

LEMMA ParseEndsChars == ASSUME IndInv, CharInv, NoTok, ParseEnds PROVE CharInv'
<1>1. /\ pc = "parse" /\ s = slen /\ pc' = "end" /\ s' = s /\ UNCHANGED <<fn, line, list, token, isBreak>>
  BY DEF ParseEnds, Goto, inParse
<1>2. fn = "etokl" /\ ~isBreak /\ s \in Nat
  BY <1>1, ParseFacts
<1>3. PICK b \in Nat : Ordered(list, b) /\ Reaches(list, token, b, s)
  BY <1>1, <1>2 DEF CharInv
<1>4. ~isBreak'
  BY <1>1, <1>2, Zenon
<1>. QED  BY <1>1, <1>2, <1>3, <1>4, TurnChars

\* The token of lp_parse does not end within a run of plain characters: the
\* line ends behind it, or white space or a break does.
LEMMA TokenStops ==
  ASSUME Line, \A c \in DOMAIN line : line[c] \in Chars,
         NEW l \in Seq(Seq(DOMAIN line)), NEW r \in Seq(DOMAIN line), NEW b \in Nat, NEW e \in Nat,
         Ordered(l, b), Reaches(l, r, b, e), r # <<>>, e = slen \/ line[e] \in {White, Break}
  PROVE  ~Continues(r[Len(r)])
<1>. DEFINE m == Len(r)
            c == r[m]
<1>1. SUFFICES ASSUME Continues(c) PROVE FALSE
  OBVIOUS
<1>2. m \in Nat /\ m >= 1 /\ m \in 1 .. m
  OBVIOUS
<1>3. /\ slen \in Nat /\ c \in Nat /\ c < slen /\ b <= c /\ c < e /\ e <= slen
      /\ \A i \in 1 .. m : r[i] \in Nat
  <2>1. \A i \in 1 .. m : r[i] \in Nat
    BY DEF Line
  <2>. QED  BY <1>2, <2>1 DEF Line, Reaches
<1>4. c + 1 < slen /\ line[c + 1] = Plain
  BY <1>1 DEF Continues
<1>5. c + 1 < e
  <2>1. c + 1 # e
    BY <1>3, <1>4, TokAssumption
  <2>. QED  BY <1>3, <2>1
<1>6. c + 1 \in 0 .. e - 1 /\ MustKeep(c + 1)
  BY <1>3, <1>4, <1>5 DEF MustKeep
<1>7. ~IsIn(l, c + 1)
  <2>1. SUFFICES ASSUME NEW t \in 1 .. Len(l), NEW i \in 1 .. Len(l[t]), l[t][i] = c + 1 PROVE FALSE
    BY DEF IsIn
  <2>2. l[t][i] < b
    BY DEF Ordered
  <2>. QED  BY <1>3, <2>1, <2>2
<1>8. PICK i \in 1 .. m : r[i] = c + 1
  BY <1>6, <1>7 DEF Reaches
<1>9. i < m
  BY <1>2, <1>3, <1>8
<1>10. r[i] < c
  BY <1>2, <1>9 DEF Reaches, Rising
<1>. QED  BY <1>3, <1>8, <1>10

LEMMA CollectChars == ASSUME IndInv, CharInv, NoTok, Collect PROVE CharInv'
<1>1. /\ pc = "end" /\ UNCHANGED <<fn, line, s, isBreak>>
  BY DEF Collect
<1>2. /\ Line /\ slen \in Nat /\ s \in 0 .. slen /\ s \in Nat /\ fn = "etokl"
      /\ token \in Seq(DOMAIN line) /\ Len(token) \in Nat /\ Len(token) <= s
      /\ list \in Seq(Seq(DOMAIN line))
      /\ \A c \in DOMAIN line : line[c] \in Chars
  BY <1>1, ParseFacts
<1>. DEFINE e == IF isBreak THEN s - 1 ELSE s
            k == IF token = <<>> THEN list ELSE Append(list, token)
<1>3. Len(token) < toksize
  BY <1>2 DEF toksize
<1>4. pc' = "head" /\ list' = IF isBreak THEN Append(k, <<s - 1>>) ELSE k
  <2>1. pc' = "head" /\ list' = list \o (IF token = <<>> THEN <<>> ELSE <<token>>)
                      \o (IF isBreak THEN <<<<s - 1>>>> ELSE <<>>)
    BY <1>3 DEF Collect, Goto
  <2>2. k = list \o (IF token = <<>> THEN <<>> ELSE <<token>>)
    <3>1. list \o <<>> = list /\ list \o <<token>> = Append(list, token)
      BY <1>2
    <3>. QED  BY <3>1
  <2>3. list' = k \o (IF isBreak THEN <<<<s - 1>>>> ELSE <<>>)
    BY <2>1, <2>2
  <2>4. k \in Seq(Seq(DOMAIN line))
    <3>1. Append(list, token) \in Seq(Seq(DOMAIN line))
      BY <1>2
    <3>. QED  BY <1>2, <3>1
  <2>5. k \o <<>> = k /\ k \o <<<<s - 1>>>> = Append(k, <<s - 1>>)
    <3>. HIDE DEF k
    <3>. QED  BY <2>4
  <2>. HIDE DEF k
  <2>6. CASE isBreak
    <3>1. list' = k \o <<<<s - 1>>>>
      BY <2>3, <2>6, Zenon
    <3>. QED  BY <2>1, <2>5, <2>6, <3>1
  <2>7. CASE ~isBreak
    <3>1. list' = k \o <<>>
      BY <2>3, <2>7, Zenon
    <3>. QED  BY <2>1, <2>5, <2>7, <3>1
  <2>. QED  BY <2>6, <2>7
<1>5. e \in Nat /\ e <= slen /\ (e = slen \/ line[e] \in {White, Break})
  <2>1. CASE isBreak
    <3>1. s > 0 /\ line[s - 1] = Break /\ e = s - 1
      BY <1>1, <1>2, <2>1 DEF CharInv, Broken
    <3>. QED  BY <1>2, <3>1
  <2>2. CASE ~isBreak
    BY <1>1, <1>2, <2>2 DEF CharInv
  <2>. QED  BY <2>1, <2>2
<1>6. PICK b \in Nat : Ordered(list, b) /\ Reaches(list, token, b, e)
  <2>1. CASE isBreak
    BY <1>1, <1>2, <2>1 DEF CharInv
  <2>2. CASE ~isBreak
    BY <1>1, <1>2, <2>2 DEF CharInv
  <2>. QED  BY <2>1, <2>2
<1>. HIDE DEF e
<1>7. k \in Seq(Seq(DOMAIN line)) /\ Ordered(k, e) /\ Reaches(k, <<>>, e, e)
  <2>1. CASE token = <<>>
    <3>1. Ordered(list, e) /\ Reaches(list, <<>>, e, e)
      BY <1>2, <1>5, <1>6, <2>1, NoToken
    <3>. QED  BY <1>2, <2>1, <3>1
  <2>2. CASE token # <<>>
    <3>1. ~Continues(token[Len(token)])
      BY <1>2, <1>5, <1>6, <2>2, TokenStops
    <3>2. Len(token) <= slen
      BY <1>2
    <3>3. /\ Append(list, token) \in Seq(Seq(DOMAIN line))
          /\ Ordered(Append(list, token), e) /\ Reaches(Append(list, token), <<>>, e, e)
      BY <1>2, <1>5, <1>6, <2>2, <3>1, <3>2, OneToken
    <3>. QED  BY <2>2, <3>3
  <2>. QED  BY <2>1, <2>2
<1>. HIDE DEF k
<1>8. PICK l : l = list'
  OBVIOUS
<1>9. Ordered(l, s) /\ Reaches(l, <<>>, s, s)
  <2>1. CASE isBreak
    <3>1. e = s - 1 /\ line[e] = Break /\ s = e + 1 /\ e < slen
      <4>1. s > 0 /\ line[s - 1] = Break
        BY <1>1, <1>2, <2>1 DEF CharInv, Broken
      <4>. QED  BY <1>2, <2>1, <4>1 DEF e
    <3>2. Append(<<>>, e) \in Seq(DOMAIN line) /\ Reaches(k, Append(<<>>, e), e, e + 1)
      <4>1. PICK r : r = <<>>
        OBVIOUS
      <4>2. r \in Seq(DOMAIN line) /\ Reaches(k, r, e, e)
        BY <1>7, <4>1
      <4>3. \A i \in e .. e - 1 : ~MustKeep(i)
        BY <1>5
      <4>4. Append(r, e) \in Seq(DOMAIN line) /\ Reaches(k, Append(r, e), e, e + 1)
        <5>1. e \in Nat /\ e <= e /\ e < slen
          BY <1>5, <3>1
        <5>. QED  BY <1>2, <4>2, <4>3, <5>1, OneMore
      <4>. QED  BY <4>1, <4>4
    <3>3. Append(<<>>, e) = <<e>> /\ <<e>> # <<>> /\ Len(<<e>>) = 1 /\ <<e>>[1] = e
      OBVIOUS
    <3>4. ~Continues(e)
      BY <3>1, TokAssumption DEF Continues
    <3>5. Ordered(Append(k, <<e>>), s) /\ Reaches(Append(k, <<e>>), <<>>, s, s)
      <4>1. Len(<<e>>) <= slen
        BY <1>2, <1>5, <3>1, <3>3
      <4>. QED  BY <1>2, <1>5, <1>7, <3>1, <3>2, <3>3, <3>4, <4>1, OneToken
    <3>6. l = Append(k, <<e>>)
      BY <1>4, <1>8, <2>1, <3>1
    <3>. QED  BY <3>5, <3>6
  <2>2. CASE ~isBreak
    BY <1>4, <1>7, <1>8, <2>2 DEF e
  <2>. QED  BY <2>1, <2>2
<1>10. Ordered(list, s)' /\ Reaches(list, <<>>, s, s)'
  BY <1>1, <1>8, <1>9, NextIs
<1>. QED  BY <1>1, <1>2, <1>4, <1>10 DEF CharInv

LEMMA OtherChars ==
  ASSUME IndInv, CharInv, NoTok, Return \/ Cut \/ UNCHANGED vars
  PROVE  CharInv'
<1>1. /\ UNCHANGED <<fn, line, token, list, isBreak>>
      /\ fn = "etokl" => \/ s' = s /\ pc' = pc
                         \/ s' = s /\ pc = "head" /\ s = slen /\ pc' = "done"
  <2>1. CASE Return
    BY <2>1 DEF Return, inParse, Goto
  <2>2. CASE UNCHANGED vars
    BY <2>2 DEF vars, inParse
  <2>3. CASE Cut
    <3>1. fn # "etokl"
      BY <2>3 DEF Cut, TokStart, Copy, Stop, CopyEnds, Skip, SkipEnds, Push, IndInv, Loop
    <3>2. UNCHANGED <<fn, line, inParse>>
      BY <2>3 DEF Cut, TokStart, Copy, Stop, CopyEnds, Skip, SkipEnds, Push
    <3>. QED  BY <3>1, <3>2 DEF inParse
  <2>. QED  BY <2>1, <2>2, <2>3
<1>2. CASE fn # "etokl"
  BY <1>1, <1>2 DEF CharInv
<1>3. CASE fn = "etokl"
  <2>1. slen' = slen /\ s' = s
    BY <1>1, <1>3 DEF slen
  <2>2. PICK l, r, e : l = list /\ r = token /\ e = s
    OBVIOUS
  <2>3. list' = l /\ token' = r /\ s' = e
    BY <1>1, <2>1, <2>2
  <2>4. pc' \in {"head", "done"} => Ordered(list, s)' /\ Reaches(list, <<>>, s, s)'
    <3>1. pc' \in {"head", "done"} => Ordered(l, e) /\ Reaches(l, <<>>, e, e)
      BY <1>1, <1>3, <2>2 DEF CharInv
    <3>. QED  BY <1>1, <2>3, <3>1, NextIs
  <2>5. pc' = "done" => s' = slen'
    BY <1>1, <1>3, <2>1 DEF CharInv
  <2>6. pc' = "parse" => \E b \in Nat : Ordered(list, b)' /\ Reaches(list, token, b, s)'
    <3>1. pc' = "parse" => \E b \in Nat : Ordered(l, b) /\ Reaches(l, r, b, e)
      BY <1>1, <1>3, <2>2 DEF CharInv
    <3>. QED  BY <1>1, <2>3, <3>1, NextIs
  <2>7. pc' = "end" /\ isBreak' => Broken' /\ \E b \in Nat : Ordered(list, b)' /\ Reaches(list, token, b, s - 1)'
    <3>1. pc' = "end" /\ isBreak' => Broken /\ \E b \in Nat : Ordered(l, b) /\ Reaches(l, r, b, e - 1)
      BY <1>1, <1>3, <2>2 DEF CharInv
    <3>2. s' - 1 = e - 1
      BY <2>3
    <3>3. Broken => Broken'
      BY <1>1, <2>1 DEF Broken
    <3>. QED  BY <1>1, <2>3, <3>1, <3>2, <3>3, NextIs
  <2>8. pc' = "end" /\ ~isBreak' => /\ s' = slen' \/ line'[s'] = White
                                    /\ \E b \in Nat : Ordered(list, b)' /\ Reaches(list, token, b, s)'
    <3>1. pc' = "end" /\ ~isBreak' => \E b \in Nat : Ordered(l, b) /\ Reaches(l, r, b, e)
      BY <1>1, <1>3, <2>2 DEF CharInv
    <3>2. pc' = "end" /\ ~isBreak' => s' = slen' \/ line'[s'] = White
      BY <1>1, <1>3, <2>1 DEF CharInv
    <3>. QED  BY <1>1, <2>3, <3>1, <3>2, NextIs
  <2>. QED  BY <1>1, <1>3, <2>4, <2>5, <2>6, <2>7, <2>8 DEF CharInv
<1>. QED  BY <1>2, <1>3

LEMMA NextChars == ASSUME IndInv, CharInv, NoTok, [Next]_vars PROVE CharInv'
<1>1. CASE Scan
  BY <1>1, ParseStartChars, ParseChars, ParseEndsChars, CollectChars DEF Scan
<1>. QED  BY <1>1, OtherChars DEF Next

LEMMA InitChars == ASSUME NoTok, Init PROVE CharInv
<1>1. pc = "head" /\ s = 0 /\ list = <<>> /\ Len(<<>>) = 0 /\ 1 .. 0 = {} /\ slen \in Nat
  <2>1. IndInv
    BY InitIndInv
  <2>. QED  BY <2>1, TokFacts DEF Init
<1>2. Ordered(list, s)
  BY <1>1 DEF Ordered
<1>3. Reaches(list, <<>>, s, s)
  <2>1. s \in 0 .. s /\ s \in 0 .. slen /\ 0 .. s - 1 = {}
    BY <1>1
  <2>. QED  BY <1>1, <2>1 DEF Reaches, Rising
<1>. QED  BY <1>1, <1>2, <1>3 DEF CharInv

-----------------------------------------------------------------------------
\* Lines without quotes and escapes.
WordOrBreak(t) == Run(t) \/ (Len(t) = 1 /\ line[t[1]] = Break)

LEMMA RunMore ==
  ASSUME NEW r \in Seq(DOMAIN line), NEW c \in DOMAIN line, Run(r), line[c] = Plain,
         r = <<>> \/ c = r[Len(r)] + 1
  PROVE  Run(Append(r, c))
<1>. DEFINE q == Append(r, c)
            m == Len(r)
<1>1. m \in Nat /\ Len(q) = m + 1 /\ q[m + 1] = c /\ (\A i \in 1 .. m : q[i] = r[i]) /\ (r = <<>> => m = 0)
  OBVIOUS
<1>. HIDE DEF q
<1>2. \A i \in 1 .. m : line[r[i]] = Plain /\ (i > 1 => r[i] = r[i - 1] + 1)
  BY DEF Run
<1>. HIDE DEF m
<1>3. ASSUME NEW i \in 1 .. Len(q) PROVE line[q[i]] = Plain /\ (i > 1 => q[i] = q[i - 1] + 1)
  <2>1. CASE i = m + 1
    <3>1. i > 1 => q[i - 1] = r[m] /\ r # <<>>
      <4>1. i > 1 => i - 1 = m /\ m \in 1 .. m
        BY <1>1, <2>1
      <4>. QED  BY <1>1, <4>1
    <3>2. r # <<>> => c = r[m] + 1
      BY DEF m
    <3>. QED  BY <1>1, <2>1, <3>1, <3>2
  <2>2. CASE i # m + 1
    <3>1. i \in 1 .. m /\ (i > 1 => i - 1 \in 1 .. m)
      BY <1>1, <2>2
    <3>. QED  BY <1>1, <1>2, <3>1
  <2>. QED  BY <2>1, <2>2
<1>. QED  BY <1>3 DEF Run, q

\* The next state, told by what it is.
LEMMA NextSimple ==
  ASSUME UNCHANGED <<fn, line>>, NEW l, NEW r, list' = l, token' = r,
         \A t \in 1 .. Len(l) : WordOrBreak(l[t]),
         pc' \in {"parse", "end"} => Run(r),
         pc' = "parse" => /\ state' # "quote" /\ (state' = "white" => r = <<>>)
                          /\ state' = "token" => Len(r) > 0 /\ r[Len(r)] = s' - 1,
         pc' = "end" /\ isBreak' => s' > 0 /\ line[s' - 1] = Break
  PROVE  SimpleInv'
<1>1. \A t \in 1 .. Len(list') : Run(list[t])' \/ (Len(list'[t]) = 1 /\ line'[list'[t][1]] = Break)
  BY DEF WordOrBreak, Run
<1>2. pc' \in {"parse", "end"} => Run(token)'
  BY DEF Run
<1>3. pc' = "end" /\ isBreak' => Broken'
  BY DEF Broken
<1>. QED  BY <1>1, <1>2, <1>3 DEF SimpleInv

LEMMA WordsJoined ==
  ASSUME NEW D, NEW a \in Seq(D), NEW d \in Seq(D),
         \A t \in 1 .. Len(a) : WordOrBreak(a[t]), \A t \in 1 .. Len(d) : WordOrBreak(d[t])
  PROVE  a \o d \in Seq(D) /\ \A t \in 1 .. Len(a \o d) : WordOrBreak((a \o d)[t])
<1>. DEFINE q == a \o d
<1>1. /\ q \in Seq(D) /\ Len(a) \in Nat /\ Len(d) \in Nat /\ Len(q) = Len(a) + Len(d)
      /\ \A t \in 1 .. Len(q) : q[t] = IF t <= Len(a) THEN a[t] ELSE d[t - Len(a)]
  OBVIOUS
<1>. HIDE DEF q
<1>2. ASSUME NEW t \in 1 .. Len(q) PROVE WordOrBreak(q[t])
  <2>1. CASE t <= Len(a)
    BY <1>1, <2>1
  <2>2. CASE ~(t <= Len(a))
    <3>1. t - Len(a) \in 1 .. Len(d)
      BY <1>1, <2>2
    <3>. QED  BY <1>1, <2>2, <3>1
  <2>. QED  BY <2>1, <2>2
<1>. QED  BY <1>1, <1>2 DEF q

LEMMA ScanSimple == ASSUME IndInv, SimpleInv, NoTok, Scan PROVE SimpleInv'
<1>1. UNCHANGED <<fn, line>>
  BY DEF Scan, ParseStart, Parse, ParseEnds, Collect
<1>2. SUFFICES ASSUME Simple PROVE SimpleInv'
  <2>1. Simple' <=> Simple
    BY <1>1 DEF Simple
  <2>. QED  BY <2>1 DEF SimpleInv
<1>3. fn = "etokl"
  BY DEF Scan, ParseStart, Parse, ParseEnds, Collect, IndInv, Loop
<1>4. \A t \in 1 .. Len(list) : WordOrBreak(list[t])
  BY <1>2, <1>3 DEF SimpleInv, WordOrBreak
<1>5. PICK l, r : l = list /\ r = token
  OBVIOUS
<1>6. \A t \in 1 .. Len(l) : WordOrBreak(l[t])
  BY <1>4, <1>5
<1>7. CASE ParseStart
  <2>1. list' = l /\ token' = <<>> /\ pc' = "parse" /\ state' = "white"
    BY <1>5, <1>7 DEF ParseStart, Goto
  <2>2. Run(<<>>)
    BY DEF Run
  <2>. QED  BY <1>1, <1>6, <2>1, <2>2, NextSimple
<1>8. CASE Parse
  <2>1. pc = "parse" /\ s < slen /\ list' = l
    BY <1>5, <1>8 DEF Parse
  <2>2. /\ Line /\ s \in Nat /\ r \in Seq(DOMAIN line) /\ Len(r) <= slen /\ ~isBreak
        /\ Store(r, s) = Append(r, s) /\ s \in DOMAIN line
    <3>1. s \in DOMAIN line
      BY <2>1, ParseFacts DEF Line
    <3>. QED  BY <1>5, <2>1, <3>1, ParseFacts
  <2>3. /\ Run(r) /\ state # "quote" /\ (state = "white" => r = <<>>)
        /\ state = "token" => Len(r) > 0 /\ r[Len(r)] = s - 1
    BY <1>2, <1>3, <1>5, <2>1 DEF SimpleInv
  <2>4. state = "white" \/ state = "token"
    BY <2>3 DEF IndInv, TypeOK
  <2>5. line[s] = Plain \/ line[s] = White \/ line[s] = Break
    BY <1>2, <2>2 DEF Simple
  <2>6. line[s] # Escape /\ line[s] \notin Quotes
    BY <2>5, TokAssumption
  <2>7. CASE OnBreak
    <3>1. line[s] = Break /\ token' = r /\ s' = s + 1 /\ pc' = "end"
      BY <1>5, <2>3, <2>7 DEF OnBreak, Drop, Goto
    <3>2. s' > 0 /\ line[s' - 1] = Break
      BY <2>2, <3>1
    <3>. QED  BY <1>1, <1>6, <2>1, <2>3, <3>1, <3>2, NextSimple
  <2>8. CASE OnWhite
    <3>1. isBreak' = isBreak /\ token' = r
      BY <1>5, <2>4, <2>8 DEF OnWhite, Drop
    <3>2. ~isBreak'
      BY <2>2, <3>1, Zenon
    <3>3. CASE state = "white"
      <4>1. pc' = "parse" /\ state' = "white" /\ r = <<>>
        BY <2>1, <2>3, <2>8, <3>3 DEF OnWhite
      <4>. QED  BY <1>1, <1>6, <2>1, <2>3, <3>1, <4>1, NextSimple
    <3>4. CASE state = "token"
      <4>1. pc' = "end"
        BY <2>8, <3>4 DEF OnWhite, Goto
      <4>. QED  BY <1>1, <1>6, <2>1, <2>3, <3>1, <3>2, <4>1, NextSimple
    <3>. QED  BY <2>4, <3>3, <3>4
  <2>9. CASE OnPlain
    <3>1. line[s] = Plain /\ token' = Append(r, s) /\ s' = s + 1 /\ pc' = "parse" /\ state' = "token"
      BY <1>5, <2>1, <2>2, <2>4, <2>9 DEF OnPlain, Keep
    <3>2. PICK q : q = Append(r, s)
      OBVIOUS
    <3>3. Len(q) > 0 /\ q[Len(q)] = s' - 1
      BY <2>2, <3>1, <3>2
    <3>4. r = <<>> \/ s = r[Len(r)] + 1
      BY <2>2, <2>3, <2>4
    <3>5. Run(q)
      BY <2>2, <2>3, <3>1, <3>2, <3>4, RunMore
    <3>. QED  BY <1>1, <1>6, <2>1, <3>1, <3>2, <3>3, <3>5, NextSimple
  <2>10. ~OnQuote /\ ~OnEscape
    BY <2>6 DEF OnQuote, OnEscape
  <2>. QED  BY <1>8, <2>7, <2>8, <2>9, <2>10 DEF Parse
<1>9. CASE ParseEnds
  <2>1. list' = l /\ token' = r /\ pc = "parse" /\ pc' = "end" /\ isBreak' = isBreak
    BY <1>5, <1>9 DEF ParseEnds, Goto, inParse
  <2>2. ~isBreak'
    <3>1. ~isBreak
      BY <2>1, ParseFacts
    <3>. QED  BY <2>1, <3>1, Zenon
  <2>3. Run(r)
    BY <1>2, <1>3, <1>5, <2>1 DEF SimpleInv
  <2>. QED  BY <1>1, <1>6, <2>1, <2>2, <2>3, NextSimple
<1>10. CASE Collect
  <2>1. pc = "end" /\ token' = r
    BY <1>5, <1>10 DEF Collect
  <2>2. /\ Line /\ s \in 0 .. slen /\ r \in Seq(DOMAIN line) /\ Len(r) \in Nat /\ Len(r) <= s
        /\ l \in Seq(Seq(DOMAIN line))
    BY <1>5, <2>1, ParseFacts
  <2>3. Len(r) < toksize
    BY <2>2 DEF toksize, Line
  <2> DEFINE x == IF r = <<>> THEN <<>> ELSE <<r>>
             y == IF isBreak THEN <<<<s - 1>>>> ELSE <<>>
  <2>4. pc' = "head" /\ list' = l \o x \o y
    BY <1>5, <1>10, <2>3 DEF Collect, Goto
  <2>5. Run(r)
    BY <1>2, <1>3, <1>5, <2>1 DEF SimpleInv
  <2>6. isBreak => s > 0 /\ line[s - 1] = Break
    BY <1>2, <1>3, <2>1 DEF SimpleInv, Broken
  <2>7. x \in Seq(Seq(DOMAIN line)) /\ \A t \in 1 .. Len(x) : WordOrBreak(x[t])
    <3>1. CASE r = <<>>
      BY <3>1
    <3>2. CASE r # <<>>
      <4>1. x = <<r>> /\ <<r>> \in Seq(Seq(DOMAIN line)) /\ Len(<<r>>) = 1 /\ <<r>>[1] = r
        BY <2>2, <3>2
      <4>2. WordOrBreak(r)
        BY <2>5 DEF WordOrBreak
      <4>3. \A t \in 1 .. 1 : t = 1
        OBVIOUS
      <4>. QED  BY <4>1, <4>2, <4>3
    <3>. QED  BY <3>1, <3>2
  <2>8. y \in Seq(Seq(DOMAIN line)) /\ \A t \in 1 .. Len(y) : WordOrBreak(y[t])
    <3>1. CASE ~isBreak
      BY <3>1
    <3>2. CASE isBreak
      <4>1. s - 1 \in DOMAIN line
        BY <2>2, <2>6, <3>2 DEF Line
      <4>2. PICK d : d = s - 1
        OBVIOUS
      <4>3. y = <<<<d>>>> /\ <<<<d>>>> \in Seq(Seq(DOMAIN line)) /\ Len(<<<<d>>>>) = 1 /\ <<<<d>>>>[1] = <<d>>
        BY <3>2, <4>1, <4>2
      <4>4. WordOrBreak(<<d>>)
        BY <2>6, <3>2, <4>2 DEF WordOrBreak
      <4>5. \A t \in 1 .. 1 : t = 1
        OBVIOUS
      <4>. QED  BY <4>3, <4>4, <4>5
    <3>. QED  BY <3>1, <3>2
  <2>. HIDE DEF x, y
  <2>9. PICK k : k = l \o x \o y
    OBVIOUS
  <2>10. \A t \in 1 .. Len(k) : WordOrBreak(k[t])
    <3>1. l \o x \in Seq(Seq(DOMAIN line)) /\ \A t \in 1 .. Len(l \o x) : WordOrBreak((l \o x)[t])
      BY <1>6, <2>2, <2>7, WordsJoined
    <3>. QED  BY <2>8, <2>9, <3>1, WordsJoined
  <2>11. list' = k
    BY <2>4, <2>9
  <2>. QED  BY <1>1, <2>1, <2>4, <2>10, <2>11, NextSimple
<1>. QED  BY <1>7, <1>8, <1>9, <1>10 DEF Scan

LEMMA NextSimpleInv == ASSUME IndInv, SimpleInv, NoTok, [Next]_vars PROVE SimpleInv'
<1>1. CASE Scan
  BY <1>1, ScanSimple
<1>2. CASE ~Scan
  <2>1. Cut \/ Return \/ UNCHANGED vars
    BY <1>2 DEF Next
  <2>2. /\ UNCHANGED <<fn, line, token, list, isBreak>>
        /\ fn = "etokl" => \/ s' = s /\ pc' = pc /\ state' = state
                           \/ s' = s /\ pc' = "done"
    <3>1. CASE Return
      BY <3>1 DEF Return, inParse, Goto
    <3>2. CASE UNCHANGED vars
      BY <3>2 DEF vars, inParse
    <3>3. CASE Cut
      <4>1. fn # "etokl"
        BY <3>3 DEF Cut, TokStart, Copy, Stop, CopyEnds, Skip, SkipEnds, Push, IndInv, Loop
      <4>2. UNCHANGED <<fn, line, inParse>>
        BY <3>3 DEF Cut, TokStart, Copy, Stop, CopyEnds, Skip, SkipEnds, Push
      <4>. QED  BY <4>1, <4>2 DEF inParse
    <3>. QED  BY <2>1, <3>1, <3>2, <3>3
  <2>3. SUFFICES ASSUME Simple, fn = "etokl" PROVE SimpleInv'
    <3>1. Simple' <=> Simple
      BY <2>2 DEF Simple
    <3>. QED  BY <2>2, <3>1 DEF SimpleInv
  <2>4. PICK l, r : l = list /\ r = token
    OBVIOUS
  <2>5. /\ \A t \in 1 .. Len(l) : WordOrBreak(l[t])
        /\ pc' \in {"parse", "end"} => Run(r)
        /\ pc' = "parse" => /\ state' # "quote" /\ (state' = "white" => r = <<>>)
                            /\ state' = "token" => Len(r) > 0 /\ r[Len(r)] = s' - 1
        /\ pc' = "end" /\ isBreak' => s' > 0 /\ line[s' - 1] = Break
    BY <2>2, <2>3, <2>4 DEF SimpleInv, WordOrBreak, Broken
  <2>. QED  BY <2>2, <2>4, <2>5, NextSimple
<1>. QED  BY <1>1, <1>2

LEMMA InitSimple == ASSUME NoTok, Init PROVE SimpleInv
BY DEF Init, SimpleInv, Run

\* The characters are where CharactersKept looks for them.
LEMMA FoundIn ==
  ASSUME IndInv, NEW b, Ordered(list, b)
  PROVE  /\ \A t, i : <<t, i>> \in Positions <=> t \in 1 .. Len(list) /\ i \in 1 .. Len(list[t])
         /\ \A x \in Positions : x[1] \in 1 .. Len(list) /\ x[2] \in 1 .. Len(list[x[1]]) /\ x = <<x[1], x[2]>>
         /\ \A c : c \in Found <=> IsIn(list, c)
<1>1. slen \in Nat /\ Len(list) \in Nat /\ \A t \in 1 .. Len(list) : Len(list[t]) \in 1 .. slen
  BY TokFacts DEF IndInv, TypeOK, Ordered
<1>2. \A t, i : <<t, i>> \in Positions <=> t \in 1 .. Len(list) /\ i \in 1 .. Len(list[t])
  BY <1>1 DEF Positions
<1>3. \A x \in Positions : x[1] \in 1 .. Len(list) /\ x[2] \in 1 .. Len(list[x[1]]) /\ x = <<x[1], x[2]>>
  BY <1>1 DEF Positions
<1>4. ASSUME NEW c PROVE c \in Found <=> IsIn(list, c)
  <2>1. ASSUME IsIn(list, c) PROVE c \in Found
    <3>1. PICK t \in 1 .. Len(list) : \E i \in 1 .. Len(list[t]) : list[t][i] = c
      BY <2>1 DEF IsIn
    <3>2. PICK i \in 1 .. Len(list[t]) : list[t][i] = c
      BY <3>1
    <3>3. <<t, i>> \in Positions /\ <<t, i>>[1] = t /\ <<t, i>>[2] = i
      BY <1>2, <3>2
    <3>. QED  BY <3>2, <3>3 DEF Found
  <2>2. ASSUME c \in Found PROVE IsIn(list, c)
    <3>1. PICK x \in Positions : c = list[x[1]][x[2]]
      BY <2>2 DEF Found
    <3>. QED  BY <1>3, <3>1 DEF IsIn
  <2>. QED  BY <2>1, <2>2
<1>. QED  BY <1>2, <1>3, <1>4

LEMMA KeptAtEnd == ASSUME IndInv, CharInv, SimpleInv PROVE CharactersKept
<1>1. PICK b : Ordered(list, b)
  <2>1. CASE fn = "etokl"
    <3>1. pc \in {"head", "done", "parse", "end"}
      BY <2>1 DEF IndInv, TypeOK, Loop
    <3>2. CASE pc \in {"head", "done"}
      BY <2>1, <3>2 DEF CharInv
    <3>3. CASE pc = "parse"
      BY <2>1, <3>3 DEF CharInv
    <3>4. CASE pc = "end" /\ isBreak
      BY <2>1, <3>4 DEF CharInv
    <3>5. CASE pc = "end" /\ ~isBreak
      BY <2>1, <3>5 DEF CharInv
    <3>. QED  BY <3>1, <3>2, <3>3, <3>4, <3>5
  <2>2. CASE fn # "etokl"
    <3>1. list = <<>> /\ Len(<<>>) = 0 /\ 1 .. 0 = {}
      BY <2>2 DEF CharInv
    <3>2. Ordered(list, s)
      BY <3>1 DEF Ordered
    <3>. QED  BY <3>2
  <2>. QED  BY <2>1, <2>2
<1>2. /\ \A t, i : <<t, i>> \in Positions <=> t \in 1 .. Len(list) /\ i \in 1 .. Len(list[t])
      /\ \A x \in Positions : x[1] \in 1 .. Len(list) /\ x[2] \in 1 .. Len(list[x[1]]) /\ x = <<x[1], x[2]>>
      /\ \A c : c \in Found <=> IsIn(list, c)
  BY <1>1, FoundIn
<1>3. /\ Line /\ slen \in Nat /\ list \in Seq(Seq(DOMAIN line))
      /\ \A c \in DOMAIN line : line[c] \in Chars
  BY Length DEF IndInv, TypeOK, Line
<1>4. ASSUME NEW x \in Positions, NEW y \in Positions, x[1] < y[1] \/ (x[1] = y[1] /\ x[2] < y[2])
      PROVE  list[x[1]][x[2]] < list[y[1]][y[2]]
  <2>1. CASE x[1] < y[1]
    BY <1>1, <1>2, <2>1 DEF Ordered
  <2>2. CASE x[1] = y[1] /\ x[2] < y[2]
    BY <1>1, <1>2, <2>2 DEF Ordered, Rising
  <2>. QED  BY <1>4, <2>1, <2>2
<1>5. ASSUME fn = "etokl", pc = "done", NEW c \in DOMAIN line \ Found
      PROVE  line[c] \in {White, Escape} \cup Quotes
  <2>1. s = slen /\ Reaches(list, <<>>, s, s)
    BY <1>5 DEF CharInv
  <2>2. ~MustKeep(c)
    <3>1. MustKeep(c) => IsIn(list, c)
      BY <1>3, <1>5, <2>1 DEF Reaches, Line
    <3>. QED  BY <1>2, <1>5, <3>1
  <2>. QED  BY <1>3, <2>2, ClassFacts
<1>6. ASSUME NEW c \in Found, Continues(c)
      PROVE  \E x \in Positions : list[x[1]][x[2]] = c /\ <<x[1], x[2] + 1>> \in Positions
  <2>1. PICK t \in 1 .. Len(list) : \E i \in 1 .. Len(list[t]) : list[t][i] = c
    BY <1>2, <1>6 DEF IsIn
  <2>2. PICK i \in 1 .. Len(list[t]) : list[t][i] = c
    BY <2>1
  <2>3. i # Len(list[t]) /\ Len(list[t]) \in Nat
    BY <1>1, <1>3, <1>6, <2>2 DEF Ordered
  <2>4. <<t, i>> \in Positions /\ <<t, i + 1>> \in Positions /\ <<t, i>>[1] = t /\ <<t, i>>[2] = i
    <3>1. i + 1 \in 1 .. Len(list[t])
      BY <2>3
    <3>. QED  BY <1>2, <3>1
  <2>. QED  BY <2>2, <2>4
<1>7. ASSUME fn = "etokl", pc = "done", Simple
      PROVE  /\ Found = {c \in DOMAIN line : line[c] # White}
             /\ \A t \in DOMAIN list, c \in 0 .. slen - 1 :
                  line[c] # Plain /\ (\E i \in DOMAIN list[t] : list[t][i] = c) => Len(list[t]) = 1
             /\ \A x \in Positions : x[2] > 1 => list[x[1]][x[2]] = list[x[1]][x[2] - 1] + 1
  <2>1. \A t \in 1 .. Len(list) : WordOrBreak(list[t])
    BY <1>7 DEF SimpleInv, WordOrBreak
  <2>2. ASSUME NEW t \in 1 .. Len(list), NEW i \in 1 .. Len(list[t])
        PROVE  /\ list[t][i] \in DOMAIN line /\ line[list[t][i]] # White
               /\ line[list[t][i]] = Plain \/ Len(list[t]) = 1
               /\ i > 1 => list[t][i] = list[t][i - 1] + 1
    <3>1. list[t] \in Seq(DOMAIN line)
      BY <1>3
    <3>2. list[t][i] \in DOMAIN line
      BY <3>1
    <3>3. CASE Run(list[t])
      BY <3>2, <3>3, TokAssumption DEF Run
    <3>4. CASE Len(list[t]) = 1 /\ line[list[t][1]] = Break
      <4>1. i = 1
        BY <3>4
      <4>. QED  BY <3>2, <3>4, <4>1, TokAssumption
    <3>. QED  BY <2>1, <3>3, <3>4 DEF WordOrBreak
  <2>3. ASSUME NEW c PROVE c \in Found <=> c \in DOMAIN line /\ line[c] # White
    <3>1. ASSUME c \in Found PROVE c \in DOMAIN line /\ line[c] # White
      BY <1>2, <2>2, <3>1 DEF IsIn
    <3>2. ASSUME c \in DOMAIN line, line[c] # White PROVE c \in Found
      <4>1. line[c] \notin {White, Escape} \cup Quotes
        BY <1>7, <3>2, TokAssumption DEF Simple
      <4>. QED  BY <1>5, <1>7, <3>2, <4>1
    <3>. QED  BY <3>1, <3>2
  <2>4. ASSUME NEW t \in DOMAIN list, NEW c \in 0 .. slen - 1, line[c] # Plain,
               NEW i \in DOMAIN list[t], list[t][i] = c
        PROVE  Len(list[t]) = 1
    <3>1. t \in 1 .. Len(list) /\ list[t] \in Seq(DOMAIN line)
      BY <1>3
    <3>2. i \in 1 .. Len(list[t])
      BY <3>1
    <3>. QED  BY <2>2, <2>4, <3>1, <3>2
  <2>5. \A x \in Positions : x[2] > 1 => list[x[1]][x[2]] = list[x[1]][x[2] - 1] + 1
    BY <1>2, <2>2
  <2>. QED  BY <2>3, <2>4, <2>5
<1>8. \A c : Continues(c) <=> line[c] = Plain /\ c + 1 < slen /\ line[c + 1] = Plain
  BY DEF Continues
<1>. QED  BY <1>4, <1>5, <1>6, <1>7, <1>8 DEF CharactersKept, Simple

\* Whatever the line, with its quotes and escapes: n_str_etokl_ext stores no
\* character twice or out of order and loses none but white space, quotes and
\* escapes, no token of it ends within a run of plain characters, and on a
\* line without quotes and escapes the tokens are the words and the breaks.
THEOREM EachCharacterKept == ASSUME NoTok PROVE Spec => []CharactersKept
<1>1. Init => IndInv /\ CharInv /\ SimpleInv
  BY InitIndInv, InitChars, InitSimple
<1>2. IndInv /\ CharInv /\ SimpleInv /\ [Next]_vars => (IndInv /\ CharInv /\ SimpleInv)'
  BY NextIndInv, NextChars, NextSimpleInv
<1>3. IndInv /\ CharInv /\ SimpleInv => CharactersKept
  BY KeptAtEnd
<1>. QED  BY <1>1, <1>2, <1>3, PTL DEF Spec
=============================================================================
