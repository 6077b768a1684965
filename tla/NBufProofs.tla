----------------------------- MODULE NBufProofs -----------------------------
(***************************************************************************)
(* What is proved of NBuf, for buffers, writes and reads of any size: what *)
(* a buffer holds was written, it has a byte behind its text, and it is    *)
(* the text of MemFile.  The callers do not clean a buffer around memory   *)
(* of their own, of which n_buf_clean keeps the size.                      *)
(***************************************************************************)
EXTENDS NBuf, TLAPS

IndInv == TypeOK /\ NoJunk /\ LongerThanText

\* What the callers avoid.
CleansOwn == "caller" \notin Cleans

-----------------------------------------------------------------------------
LEMMA InitIndInv == Init => IndInv
<1> SUFFICES ASSUME Init PROVE IndInv
  OBVIOUS
<1>1. 0 \in 0 .. MaxRefs /\ 0 \in 0 .. 0 /\ \A i \in 0 .. 0 - 1 : FALSE
  BY BufAssumption
<1>2. data \in [0 .. allocated - 1 -> Bytes \cup {Junk}]
  BY <1>1 DEF Init, Malloced
<1>3. TypeOK
  BY <1>1, <1>2 DEF Init, TypeOK
<1>4. NoJunk /\ LongerThanText
  BY <1>1 DEF Init, NoJunk, LongerThanText
<1>. QED  BY <1>3, <1>4 DEF IndInv

\* Memory, text and places that stay keep what they keep.
LEMMA MemoryStays ==
  ASSUME IndInv, UNCHANGED <<memory, size, off>>, offs' \in Nat,
         life' \in {"none", "live", "dead"}, refs' \in 0 .. MaxRefs
  PROVE  IndInv'
  BY DEF IndInv, TypeOK, NoJunk, LongerThanText, memory

LEMMA DieIndInv == ASSUME IndInv, Die PROVE IndInv'
  BY MemoryStays DEF Die, IndInv, TypeOK

LEMMA NewIndInv == ASSUME IndInv, NEW n \in Sizes, New(n) PROVE IndInv'
<1>1. n \in Nat /\ 0 \in 0 .. MaxRefs /\ Nul \in Bytes
  BY BufAssumption
<1>2. /\ life' = "live" /\ refs' = 0 /\ size' = 0 /\ off' = 0 /\ offs' = 0 /\ fixed' = FALSE
      /\ owner' = (IF n = 0 THEN "nobody" ELSE "buffer") /\ allocated' = n
      /\ data' = [i \in 0 .. n - 1 |-> IF i = 0 THEN Nul ELSE Junk]
  BY DEF New
<1>3. data' \in [0 .. allocated' - 1 -> Bytes \cup {Junk}]
  BY <1>1, <1>2
<1>4. TypeOK'
  <2>1. 0 \in 0 .. n /\ 0 \in 0 .. 0
    BY <1>1
  <2>. QED  BY <1>1, <1>2, <1>3, <2>1 DEF TypeOK
<1>5. NoJunk' /\ LongerThanText'
  BY <1>1, <1>2 DEF NoJunk, LongerThanText
<1>. QED  BY <1>4, <1>5 DEF IndInv

LEMMA InitBufIndInv ==
  ASSUME IndInv, NEW n \in Sizes, NEW whose \in {"buffer", "caller"}, InitBuf(n, whose)
  PROVE  IndInv'
<1>1. n \in Nat /\ 0 \in 0 .. MaxRefs
  BY BufAssumption
<1>2. /\ life' = "live" /\ refs' = 0 /\ size' = n /\ off' = 0 /\ offs' = 0 /\ fixed' = TRUE
      /\ owner' = whose /\ allocated' = n /\ data' \in [0 .. n - 1 -> Bytes]
  BY DEF InitBuf, Texts
<1>. QED  BY <1>1, <1>2 DEF IndInv, TypeOK, NoJunk, LongerThanText

LEMMA CleanIndInv == ASSUME IndInv, CleansOwn, Clean PROVE IndInv'
<1>1. owner # "caller"
  BY DEF Clean, CleansOwn
<1>2. CASE allocated = 0
  BY <1>1, <1>2, DieIndInv DEF Clean
<1>3. CASE allocated # 0
  <2>1. /\ size' = 0 /\ off' = 0 /\ data' = [data EXCEPT ![0] = Nul]
        /\ UNCHANGED <<life, refs, owner, fixed, allocated, offs>>
    BY <1>1, <1>3 DEF Clean
  <2>2. data' \in [0 .. allocated' - 1 -> Bytes \cup {Junk}]
    BY <2>1, BufAssumption DEF IndInv, TypeOK
  <2>. QED  BY <1>3, <2>1, <2>2 DEF IndInv, TypeOK, NoJunk, LongerThanText
<1>. QED  BY <1>2, <1>3

-----------------------------------------------------------------------------
\* What is written follows the text or replaces some of it, so that no gap
\* is left, and a byte of room is left behind.
LEMMA WriteExIndInv ==
  ASSUME IndInv, NEW n \in Nat, NEW b \in Texts(n), NEW z \in BOOLEAN, WriteEx(n, b, z)
  PROVE  IndInv'
<1> DEFINE k == Asked(n, z)
<1>1. /\ allocated \in Nat /\ size \in 0 .. allocated /\ off \in 0 .. size
      /\ k \in Nat /\ k >= n + 1
      /\ Nul \in Bytes /\ \A i \in 0 .. n - 1 : b[i] \in Bytes
  BY BufAssumption DEF IndInv, TypeOK, Asked, Texts
<1>2. /\ off' = off + n /\ size' = (IF size >= off + n THEN size ELSE off + n)
      /\ UNCHANGED <<life, refs, fixed, offs>>
  BY DEF WriteEx, Grown, Larger
<1>3. PICK d, s : /\ s \in Nat /\ s >= off + n + 1 /\ s >= allocated
                  /\ allocated' = s /\ data' = Put(d, n, b, z)
                  /\ d \in [0 .. s - 1 -> Bytes \cup {Junk}]
                  /\ \A i \in 0 .. allocated - 1 : d[i] = data[i]
                  /\ owner' = owner \/ s > size
  <2>1. CASE HasRoom(k)
    <3>1. data' = Put(data, n, b, z) /\ UNCHANGED <<owner, allocated>>
      BY <2>1 DEF WriteEx
    <3>2. allocated >= off + n + 1
      BY <1>1, <2>1 DEF HasRoom
    <3>. QED  BY <1>1, <3>1, <3>2 DEF IndInv, TypeOK
  <2>2. CASE ~HasRoom(k)
    <3>1. PICK s \in Doubled(k) : allocated' = s /\ data' = Put(Realloced(s), n, b, z)
      BY <2>2 DEF WriteEx
    <3>2. s \in Nat /\ s > allocated + k
      BY <1>1 DEF Doubled
    <3>3. Realloced(s) \in [0 .. s - 1 -> Bytes \cup {Junk}]
      BY <1>1, <3>2 DEF Realloced, IndInv, TypeOK
    <3>4. \A i \in 0 .. allocated - 1 : Realloced(s)[i] = data[i]
      BY <1>1, <3>2 DEF Realloced
    <3>5. s \in Nat /\ s >= off + n + 1 /\ s >= allocated /\ s > size
      BY <1>1, <3>2
    <3>. QED  BY <3>1, <3>3, <3>4, <3>5, Zenon
  <2>. QED  BY <2>1, <2>2
<1>4. data' = [i \in 0 .. s - 1 |-> IF i \in off .. off + n - 1 THEN b[i - off]
                                    ELSE IF z /\ i = off + n THEN Nul ELSE d[i]]
  BY <1>3 DEF Put
<1>5. ASSUME NEW i \in off .. off + n - 1 PROVE b[i - off] \in Bytes
  BY <1>1
<1>6. data' \in [0 .. allocated' - 1 -> Bytes \cup {Junk}]
  BY <1>1, <1>3, <1>4, <1>5
<1>7. NoJunk'
  <2>1. ASSUME NEW i \in 0 .. size' - 1 PROVE data'[i] \in Bytes
    <3>1. i \in 0 .. s - 1
      BY <1>1, <1>2, <1>3
    <3>2. CASE i \in off .. off + n - 1
      BY <1>4, <1>5, <3>1, <3>2
    <3>3. CASE i \notin off .. off + n - 1
      <4>1. i \in 0 .. size - 1 /\ i \in 0 .. allocated - 1
        BY <1>1, <1>2, <3>3
      <4>2. d[i] \in Bytes
        BY <1>3, <4>1 DEF IndInv, NoJunk
      <4>. QED  BY <1>1, <1>4, <3>1, <3>3, <4>2
    <3>. QED  BY <3>2, <3>3
  <2>. QED  BY <2>1 DEF NoJunk
<1>8. LongerThanText'
  BY <1>1, <1>2, <1>3 DEF IndInv, LongerThanText
<1>9. TypeOK'
  <2>1. owner' \in {"nobody", "buffer", "caller"}
    BY DEF WriteEx, IndInv, TypeOK
  <2>. QED  BY <1>1, <1>2, <1>3, <1>6, <2>1 DEF IndInv, TypeOK
<1>. QED  BY <1>7, <1>8, <1>9 DEF IndInv

LEMMA WriteFailsIndInv ==
  ASSUME IndInv, NEW n, NEW z, NEW answer, WriteFails(n, z, answer) PROVE IndInv'
<1>1. CASE Die
  BY <1>1, DieIndInv
<1>2. CASE UNCHANGED <<life, refs, memory, size, off, offs>>
  BY <1>2, MemoryStays DEF IndInv, TypeOK
<1>. QED  BY <1>1, <1>2 DEF WriteFails

LEMMA ClippedInSizes == ASSUME NEW n \in Sizes PROVE Clipped(n) \in Sizes
  BY BufAssumption DEF Clipped

LEMMA SeekIndInv ==
  ASSUME IndInv, NEW o, NEW w, Seek(o, w) \/ SeekDies(o, w) PROVE IndInv'
<1>1. CASE Seek(o, w)
  BY <1>1 DEF Seek, IndInv, TypeOK, NoJunk, LongerThanText, memory
<1>2. CASE SeekDies(o, w)
  BY <1>2, DieIndInv DEF SeekDies
<1>. QED  BY <1>1, <1>2

LEMMA ItGetsIndInv == ASSUME IndInv, NEW endl, ItGets(endl) PROVE IndInv'
<1>1. offs' \in Nat
  BY DEF ItGets, LineEnds, IndInv, TypeOK
<1>. QED  BY <1>1, MemoryStays DEF ItGets, IndInv, TypeOK

-----------------------------------------------------------------------------
LEMMA NextIndInv == ASSUME IndInv, CleansOwn, [Next]_vars PROVE IndInv'
<1>1. ASSUME NEW n \in Sizes, New(n) PROVE IndInv'
  BY <1>1, NewIndInv
<1>2. ASSUME NEW n \in Sizes, NEW whose \in {"buffer", "caller"}, InitBuf(n, whose) PROVE IndInv'
  BY <1>2, InitBufIndInv
<1>3. ASSUME Ref \/ Free \/ ItInit \/ UNCHANGED vars PROVE IndInv'
  <2>1. /\ UNCHANGED <<memory, size, off>> /\ offs' \in Nat
        /\ life' \in {"none", "live", "dead"} /\ refs' \in 0 .. MaxRefs
    BY <1>3, BufAssumption DEF Ref, Free, ItInit, IndInv, TypeOK, vars
  <2>. QED  BY <2>1, MemoryStays
<1>4. CASE Ctl
  BY <1>4 DEF Ctl, IndInv, TypeOK, NoJunk, LongerThanText
<1>5. CASE Clean
  BY <1>5, CleanIndInv
<1>6. CASE Write
  <2>1. PICK n \in Sizes, z \in BOOLEAN :
          (\E b \in Texts(n) : WriteEx(n, b, z)) \/ WriteFails(n, z, -1)
    BY <1>6 DEF Write
  <2>2. n \in Nat
    BY BufAssumption
  <2>. QED  BY <2>1, <2>2, WriteExIndInv, WriteFailsIndInv
<1>7. ASSUME NEW n \in Sizes, Printf(n) PROVE IndInv'
  <2>1. Clipped(n) \in Nat
    BY ClippedInSizes, BufAssumption
  <2>. QED  BY <1>7, <2>1, WriteExIndInv, WriteFailsIndInv DEF Printf
<1>8. ASSUME NEW n \in Sizes, ItGet(n) PROVE IndInv'
  <2>1. n \in Nat
    BY BufAssumption
  <2>2. /\ UNCHANGED <<life, refs, memory, size, off>> /\ offs' \in Nat
    BY <1>8, <2>1 DEF ItGet, IndInv, TypeOK
  <2>. QED  BY <2>2, MemoryStays DEF IndInv, TypeOK
<1>9. ASSUME NEW off1, NEW whence, Seek(off1, whence) \/ SeekDies(off1, whence) PROVE IndInv'
  BY <1>9, SeekIndInv
<1>10. ASSUME NEW endl, ItGets(endl) PROVE IndInv'
  BY <1>10, ItGetsIndInv
<1>. QED  BY <1>1, <1>2, <1>3, <1>4, <1>5, <1>6, <1>7, <1>8, <1>9, <1>10 DEF Next

\* The variables keep their types: the place of writing is within the text,
\* and the text within the memory n_buf_grow asked for.
THEOREM TypeCorrect == ASSUME CleansOwn PROVE Spec => []TypeOK
<1>1. IndInv => TypeOK
  BY DEF IndInv
<1>. QED  BY <1>1, InitIndInv, NextIndInv, PTL DEF Spec

\* However a buffer grows, is written over, sought in or cleaned, each byte
\* of its text is one that somebody wrote: realloc and n_buf_seek leave no
\* gap in it.
THEOREM WrittenThroughout == ASSUME CleansOwn PROVE Spec => []NoJunk
<1>1. IndInv => NoJunk
  BY DEF IndInv
<1>. QED  BY <1>1, InitIndInv, NextIndInv, PTL DEF Spec

\* A buffer that n_buf_write_ex grows keeps a byte behind its text, which
\* n_buf_it_gets_ext's callers rely on.
THEOREM RoomBehindText == ASSUME CleansOwn PROVE Spec => []LongerThanText
<1>1. IndInv => LongerThanText
  BY DEF IndInv
<1>. QED  BY <1>1, InitIndInv, NextIndInv, PTL DEF Spec

-----------------------------------------------------------------------------
\* What MemFile sees of a buffer.
Content == [i \in 0 .. size - 1 |-> data[i]]

LEMMA InitIsText == Init => Text!Init
<1> SUFFICES ASSUME Init PROVE Text!Init
  OBVIOUS
<1>1. [i \in 0 .. size - 1 |-> data[i]] = [i \in 0 .. -1 |-> Nul]
  BY DEF Init
<1>. QED  BY <1>1 DEF Init, Text!Init, Text!Empty, Nothing, Text!Nothing

LEMMA StaysText ==
  ASSUME UNCHANGED <<life, memory, size, off, offs>>, life = "live", res' = Nothing
  PROVE  Text!NoMore
  BY DEF Text!NoMore, Nothing, Text!Nothing, memory

LEMMA DieIsEnd == ASSUME Die, life = "live" PROVE Text!End
  BY DEF Die, Text!End, Nothing, Text!Nothing, memory

LEMMA NewIsNew ==
  ASSUME NEW n \in Sizes, New(n) \/ InitBuf(n, "buffer") \/ InitBuf(n, "caller")
  PROVE  Text!New
<1>1. n \in Nat
  BY BufAssumption
<1>2. /\ life = "none" /\ life' = "live" /\ off' = 0 /\ offs' = 0 /\ res' = Nothing
      /\ size' \in Nat /\ \A i \in 0 .. size' - 1 : data'[i] \in Bytes
  BY <1>1 DEF New, InitBuf, Texts
<1>3. [i \in 0 .. size' - 1 |-> data'[i]] \in [0 .. size' - 1 -> Bytes]
  BY <1>2
<1>. QED  BY <1>2, <1>3 DEF Text!New, Nothing, Text!Nothing

LEMMA CleanIsClean == ASSUME IndInv, CleansOwn, Clean PROVE Text!Clean \/ Text!End
<1>1. owner # "caller" /\ life = "live"
  BY DEF Clean, CleansOwn
<1>2. CASE allocated = 0
  BY <1>1, <1>2, DieIsEnd DEF Clean
<1>3. CASE allocated # 0
  <2>1. size' = 0 /\ off' = 0 /\ res' = Nothing /\ UNCHANGED <<life, offs>>
    BY <1>1, <1>3 DEF Clean
  <2>2. [i \in 0 .. size' - 1 |-> data'[i]] = [i \in 0 .. -1 |-> Nul]
    BY <2>1
  <2>. QED  BY <1>1, <2>1, <2>2 DEF Text!Clean, Text!Empty, Nothing, Text!Nothing
<1>. QED  BY <1>2, <1>3

\* What realloc returned, and what memcpy put in it, is what MemFile writes.
LEMMA WriteIsWrite ==
  ASSUME IndInv, NEW n \in Nat, NEW b \in Texts(n), NEW z \in BOOLEAN, WriteEx(n, b, z)
  PROVE  Text!Write(n, b, z)
<1> DEFINE k == Asked(n, z)
<1>1. /\ allocated \in Nat /\ size \in 0 .. allocated /\ off \in 0 .. size
      /\ k \in Nat /\ k >= n + 1 /\ size' = Larger(size, off + n) /\ off' = off + n
  BY DEF IndInv, TypeOK, Asked, WriteEx, Grown
<1>2. PICK d, s : /\ s \in Nat /\ s >= off + n + 1 /\ s >= allocated
                  /\ data' = Put(d, n, b, z) /\ DOMAIN d = 0 .. s - 1
                  /\ \A i \in 0 .. allocated - 1 : d[i] = data[i]
  <2>1. CASE HasRoom(k)
    <3>1. data' = Put(data, n, b, z) /\ DOMAIN data = 0 .. allocated - 1
      BY <2>1 DEF WriteEx, IndInv, TypeOK
    <3>2. allocated >= off + n + 1
      BY <1>1, <2>1 DEF HasRoom
    <3>3. /\ allocated \in Nat /\ allocated >= off + n + 1 /\ allocated >= allocated
          /\ \A i \in 0 .. allocated - 1 : data[i] = data[i]
      BY <1>1, <3>2
    <3>. QED  BY <3>1, <3>3, Zenon
  <2>2. CASE ~HasRoom(k)
    <3>1. PICK s \in Doubled(k) : data' = Put(Realloced(s), n, b, z)
      BY <2>2 DEF WriteEx
    <3>2. s \in Nat /\ s > allocated + k
      BY <1>1 DEF Doubled
    <3>3. DOMAIN Realloced(s) = 0 .. s - 1
      BY DEF Realloced
    <3>4. \A i \in 0 .. allocated - 1 : Realloced(s)[i] = data[i]
      BY <1>1, <3>2 DEF Realloced
    <3>5. s \in Nat /\ s >= off + n + 1 /\ s >= allocated
      BY <1>1, <3>2
    <3>. QED  BY <3>1, <3>3, <3>4, <3>5, Zenon
  <2>. QED  BY <2>1, <2>2
<1> DEFINE L == Larger(size, off + n)
           W(f) == [i \in 0 .. L - 1 |-> IF i \in off .. off + n - 1 THEN b[i - off]
                                         ELSE IF z /\ i = off + n THEN Nul ELSE f[i]]
<1>3. ASSUME NEW i \in 0 .. L - 1
      PROVE  data'[i] = (IF i \in off .. off + n - 1 THEN b[i - off]
                         ELSE IF z /\ i = off + n THEN Nul ELSE Content[i])
  <2>1. i \in 0 .. s - 1
    BY <1>1, <1>2 DEF Larger
  <2>2. data'[i] = (IF i \in off .. off + n - 1 THEN b[i - off]
                    ELSE IF z /\ i = off + n THEN Nul ELSE d[i])
    BY <1>2, <2>1 DEF Put
  <2>3. i \notin off .. off + n - 1 => d[i] = Content[i]
    <3>1. i \notin off .. off + n - 1 => i \in 0 .. size - 1 /\ i \in 0 .. allocated - 1
      BY <1>1 DEF Larger
    <3>2. i \in 0 .. size - 1 => Content[i] = data[i]
      BY DEF Content
    <3>3. i \in 0 .. allocated - 1 => d[i] = data[i]
      BY <1>2
    <3>. QED  BY <3>1, <3>2, <3>3
  <2>. QED  BY <2>2, <2>3
<1>4. Content' = W(Content)
  BY <1>1, <1>3 DEF Content
<1>5. life = "live" /\ res' = Count(n) /\ UNCHANGED <<life, offs>>
  BY DEF WriteEx
<1>. QED  BY <1>1, <1>4, <1>5
          DEF Text!Write, Text!Written, Text!Larger, Larger, Content, Count, Text!Count

\* A write that fails would have ended behind the text.
LEMMA WriteFailsIsRefuse ==
  ASSUME IndInv, NEW n \in Nat, NEW z \in BOOLEAN, NEW answer, answer = -1 \/ (z /\ answer = n),
         WriteFails(n, z, answer)
  PROVE  Text!Refuse(n, z) \/ Text!End
<1>1. life = "live" /\ ~HasRoom(Asked(n, z))
  BY DEF WriteFails
<1>2. off + n + (IF z THEN 1 ELSE 0) >= size
  <2>1. allocated \in Nat /\ size \in 0 .. allocated /\ off \in 0 .. size
    BY DEF IndInv, TypeOK
  <2>. QED  BY <1>1, <2>1 DEF HasRoom, Asked
<1>3. CASE Die
  BY <1>1, <1>3, DieIsEnd
<1>4. CASE res' = Count(answer) /\ UNCHANGED <<life, refs, memory, size, off, offs>>
  BY <1>1, <1>2, <1>4 DEF Text!Refuse, Count, Text!Count, memory
<1>. QED  BY <1>3, <1>4 DEF WriteFails

LEMMA SeekIsSeek ==
  ASSUME NEW o, NEW w, Seek(o, w) \/ SeekDies(o, w) PROVE Text!Seek \/ Text!End
<1>1. CASE Seek(o, w)
  BY <1>1 DEF Seek, Text!Seek, memory, Count, Text!Count
<1>2. CASE SeekDies(o, w)
  BY <1>2, DieIsEnd DEF SeekDies
<1>. QED  BY <1>1, <1>2

\* The iterator reads bytes of the text: what it gets lies before size.
LEMMA PartIsPart ==
  ASSUME NEW n \in Int, offs \in Nat, size \in Nat, offs + n <= size
  PROVE  Part(offs, n) = Text!Part(offs, n)
<1>1. ASSUME NEW i \in 0 .. n - 1 PROVE data[offs + i] = Content[offs + i]
  BY DEF Content
<1>2. [i \in 0 .. n - 1 |-> data[offs + i]] = [i \in 0 .. n - 1 |-> Content[offs + i]]
  BY <1>1
<1>. QED  BY <1>2 DEF Part, Text!Part, Piece, Text!Piece, Content

LEMMA ItGetIsGet ==
  ASSUME IndInv, NEW n \in Sizes, ItGet(n) PROVE Text!Get(n) \/ Text!NoMore
<1>1. n \in Nat /\ offs \in Nat /\ size \in Nat
  BY BufAssumption DEF IndInv, TypeOK
<1>2. CASE offs + n > size
  BY <1>2, StaysText DEF ItGet
<1>3. CASE ~(offs + n > size)
  <2>1. Part(offs, n) = Text!Part(offs, n) /\ offs + n <= size
    BY <1>1, <1>3, PartIsPart
  <2>. QED  BY <1>3, <2>1 DEF ItGet, Text!Get, memory
<1>. QED  BY <1>2, <1>3

LEMMA ItGetsIsGets ==
  ASSUME IndInv, NEW endl \in {Nul, NewLine}, ItGets(endl) PROVE Text!Gets(endl) \/ Text!NoMore
<1>1. offs \in Nat /\ size \in Nat
  BY DEF IndInv, TypeOK
<1>2. CASE offs + 1 > size
  BY <1>2, StaysText DEF ItGets
<1>3. CASE ~(offs + 1 > size)
  <2>1. PICK e \in LineEnds(endl) : /\ \A f \in LineEnds(endl) : e <= f
                                   /\ res' = Part(offs, e - offs) /\ offs' = e + 1
    BY <1>3 DEF ItGets
  <2>2. e \in offs .. size /\ (e < size => data[e] = endl)
    BY <2>1 DEF LineEnds
  <2>3. ASSUME NEW i \in offs .. e - 1 PROVE Content[i] # endl
    <3>1. i \in offs .. size /\ i < e /\ i \in 0 .. size - 1
      BY <1>1, <2>2
    <3>2. i \notin LineEnds(endl)
      BY <1>1, <2>1, <2>2, <3>1
    <3>. QED  BY <3>1, <3>2 DEF LineEnds, Content
  <2>4. Part(offs, e - offs) = Text!Part(offs, e - offs)
    <3>1. e - offs \in Int /\ offs + (e - offs) <= size
      BY <1>1, <2>2
    <3>. QED  BY <1>1, <3>1, PartIsPart
  <2>5. offs < size /\ (e < size => Content[e] = endl)
    BY <1>1, <1>3, <2>2 DEF Content
  <2>6. life = "live" /\ UNCHANGED <<life, refs, memory, size, off>>
    BY DEF ItGets
  <2>. QED  BY <2>1, <2>2, <2>3, <2>4, <2>5, <2>6 DEF Text!Gets, Content, memory
<1>. QED  BY <1>2, <1>3

\* Every call of n_buf and of its iterator does to the text what MemFile
\* says, and answers what it says.
LEMMA StepIsStep ==
  ASSUME IndInv, CleansOwn, [Next]_vars PROVE [Text!Next]_(Text!vars)
<1>1. ASSUME NEW n \in Sizes, New(n) PROVE Text!Next
  BY <1>1, NewIsNew DEF Text!Next
<1>2. ASSUME NEW n \in Sizes, NEW whose \in {"buffer", "caller"}, InitBuf(n, whose) PROVE Text!Next
  BY <1>2, NewIsNew DEF Text!Next
<1>3. ASSUME Ref \/ Ctl PROVE Text!Next
  BY <1>3 DEF Ref, Ctl, memory, Text!Next, Text!NoMore, Nothing, Text!Nothing
<1>4. CASE Free
  BY <1>4 DEF Free, memory, Text!Next, Text!NoMore, Text!End, Nothing, Text!Nothing
<1>5. CASE Clean
  BY <1>5, CleanIsClean DEF Text!Next
<1>6. CASE Write
  <2>1. PICK n \in Sizes, z \in BOOLEAN :
          (\E b \in Texts(n) : WriteEx(n, b, z)) \/ WriteFails(n, z, -1)
    BY <1>6 DEF Write
  <2>2. n \in Nat
    BY BufAssumption
  <2>3. ASSUME NEW b \in Texts(n), WriteEx(n, b, z) PROVE Text!Next
    <3>1. Text!Write(n, b, z)
      BY <2>2, <2>3, WriteIsWrite
    <3>. QED  BY <3>1 DEF Texts, Text!Next
  <2>4. WriteFails(n, z, -1) => Text!Next
    BY <2>2, WriteFailsIsRefuse, Zenon DEF Text!Next
  <2>. QED  BY <2>1, <2>3, <2>4
<1>7. ASSUME NEW n \in Sizes, Printf(n) PROVE Text!Next
  <2> DEFINE c == Clipped(n)
  <2>1. c \in Sizes /\ c \in Nat
    BY ClippedInSizes, BufAssumption
  <2>2. ASSUME NEW b \in Texts(c), WriteEx(c, b, TRUE) PROVE Text!Next
    <3>1. Text!Write(c, b, TRUE)
      BY <2>1, <2>2, WriteIsWrite
    <3>. QED  BY <2>1, <3>1 DEF Texts, Text!Next
  <2>3. WriteFails(c, TRUE, c) => Text!Next
    BY <2>1, WriteFailsIsRefuse DEF Text!Next
  <2>. QED  BY <1>7, <2>2, <2>3 DEF Printf
<1>8. CASE ItInit
  BY <1>8 DEF ItInit, memory, Text!Next, Text!Rewind, Nothing, Text!Nothing
<1>9. ASSUME NEW n \in Sizes, ItGet(n) PROVE Text!Next
  BY <1>9, ItGetIsGet DEF Text!Next
<1>10. ASSUME NEW o, NEW w, Seek(o, w) \/ SeekDies(o, w) PROVE Text!Next
  BY <1>10, SeekIsSeek DEF Text!Next
<1>11. ASSUME NEW endl \in {Nul, NewLine}, ItGets(endl) PROVE Text!Next
  BY <1>11, ItGetsIsGets, BufAssumption DEF Text!Next
<1>12. CASE UNCHANGED vars
  BY <1>12 DEF vars, memory, Text!vars
<1>. QED  BY <1>1, <1>2, <1>3, <1>4, <1>5, <1>6, <1>7, <1>8, <1>9, <1>10, <1>11, <1>12 DEF Next

\* nbuf.c implements MemFile: nothing of the text is lost or made up when a
\* buffer grows, is written over in the middle, ends a string or is read by
\* its iterator.
THEOREM BufferIsAText == ASSUME CleansOwn PROVE Spec => IsAText
  BY InitIndInv, NextIndInv, InitIsText, StepIsStep, PTL DEF Spec, IsAText, Text!Spec
=============================================================================
