---------------------------- MODULE NIobufProofs ----------------------------
(***************************************************************************)
(* What is proved of NIobuf, for buffers, files, reads and writes of any   *)
(* size, and whatever the compressor and the decompressor hold back: the   *)
(* iobuf knows its place, and is the stream over a file of IoFile.  And of *)
(* NStream, above it: what is read is what was written, for a byte of any  *)
(* width above 2, texts and lines of any length and a cut at any place.    *)
(***************************************************************************)
EXTENDS NIobuf, NStream, TLAPS

InWriter == {"write", "writing", "flushing", "flushed"}

\* A writer is where the compressor is, or a write before.
Writer ==
  pc \in InWriter =>
    /\ ~ended /\ seek = 0 /\ fpos = 0 /\ taken = 0 /\ out = 0
    /\ pc # "writing" => acc = pos
    /\ pc = "writing" => acc + left = pos + req.n
    /\ pc = "flushed" => file = acc

\* Out of a writer's hands, all of a file is on the disk; the decompressor
\* has put out a complete one when it has taken it.
Settled ==
  /\ file <= acc
  /\ pc \notin InWriter => file = acc /\ disk = file
  /\ pc \notin InWriter /\ ended /\ taken = file => out = taken

\* A pending seek goes to a place of the file.
Seeking ==
  /\ pc = "read" => pos + seek \in 0 .. acc /\ (~ended => seek = 0)
  /\ pc = "skipping" => ended /\ pos + left <= acc /\ want > 0 /\ count = 0
  /\ pc = "reading" => seek = 0

InCall ==
  /\ pc \in {"closed", "write", "read"} => req = NoCall
  /\ pc = "writing" => req.op = "write"
  /\ pc \in {"flushing", "flushed"} => req.op \in {"flush", "close"}
  /\ pc \in {"skipping", "reading"} => req.op \in {"read", "gets"}

\* n_iobuf_getx goes on in a line.
InLine ==
  pc = "reading" =>
    /\ req.op = "read" => count = 0 /\ want = req.n
    /\ req.op = "gets" =>
         /\ want = Min2(1, req.n) /\ count + want <= req.n
         /\ \A i \in pos - count .. pos - 1 : i \notin EndOfLine

IndInv == TypeOK /\ AtItsPlace /\ Writer /\ Settled /\ Seeking /\ InCall /\ InLine

-----------------------------------------------------------------------------
LEMMA MinIsMin == ASSUME NEW a \in Int, NEW b \in Int
                  PROVE Min2(a, b) \in {a, b} /\ Min2(a, b) <= a /\ Min2(a, b) <= b
  BY DEF Min2

LEMMA InitIndInv == Init => IndInv
<1> SUFFICES ASSUME Init PROVE IndInv
  OBVIOUS
<1>1. TypeOK
  <2>1. NoCall \in [op : {"none", "write", "flush", "close", "read", "gets"}, n : Nat]
    BY DEF NoCall
  <2>2. file \in Nat /\ disk \in 0 .. file /\ fpos \in 0 .. file /\ taken \in 0 .. fpos /\ out \in 0 .. taken
    BY DEF Init
  <2>4. ended \in BOOLEAN
    BY DEF Init
  <2>3. got \in 0 .. want /\ want \in Nat /\ pos \in Nat /\ seek \in Int
    BY DEF Init
  <2>. QED  BY <2>1, <2>2, <2>3, <2>4 DEF Init, TypeOK
<1>2. AtItsPlace /\ Writer /\ Settled /\ Seeking /\ InCall /\ InLine
  BY DEF Init, AtItsPlace, Writer, Settled, Seeking, InCall, InLine, InWriter
<1>. QED  BY <1>1, <1>2 DEF IndInv

LEMMA OpenIndInv == ASSUME IndInv, NEW m \in {"write", "read"}, Open(m) PROVE IndInv'
<1> USE IobufAssumption DEF IndInv, TypeOK, InWriter, Min2, Loops, Open, NewState, Return, NoCall
<1>1. TypeOK'
  <2>1. file' \in Nat /\ disk' \in 0 .. file' /\ fpos' \in 0 .. file' /\ taken' \in 0 .. fpos' /\ out' \in 0 .. taken'
    OBVIOUS
  <2>2. req' = req /\ pc' \in {"write", "read"}
    BY DEF InCall
  <2>3. acc' \in Nat
    OBVIOUS
  <2>5. ended' \in BOOLEAN
    <3>1. ended \in BOOLEAN /\ (ended' = FALSE \/ ended' = ended)
      OBVIOUS
    <3>. QED  BY <3>1
  <2>4. pos' \in Nat /\ seek' \in Int /\ UNCHANGED loop
    OBVIOUS
  <2>. QED  BY <2>1, <2>2, <2>3, <2>4, <2>5 DEF loop
<1>2. AtItsPlace'
  BY DEF AtItsPlace
<1>3. Writer'
  BY DEF Writer
<1>4. Settled'
  BY DEF Settled
<1>5. Seeking'
  BY DEF Seeking
<1>6. InCall'
  BY DEF InCall
<1>7. InLine'
  BY DEF InLine
<1>. QED  BY <1>1, <1>2, <1>3, <1>4, <1>5, <1>6, <1>7

LEMMA WriteIndInv == ASSUME IndInv, NEW n \in Sizes, Write(n) PROVE IndInv'
<1> USE IobufAssumption DEF IndInv, TypeOK, InWriter, Min2, Loops, Write, reader
<1>a. n \in Nat /\ req' = [op |-> "write", n |-> n] /\ left' = n /\ pc' = "writing" /\ pc = "write"
  OBVIOUS
<1>b. req'.n = n /\ req' \in [op : {"none", "write", "flush", "close", "read", "gets"}, n : Nat]
  BY <1>a
<1>c. UNCHANGED <<file, disk, ended, acc, fpos, taken, out, pos, seek, want, got, count, res>>
  OBVIOUS
<1>1. TypeOK'
  BY <1>a, <1>b, <1>c
<1>2. AtItsPlace'
  BY DEF AtItsPlace
<1>3. Writer'
  BY <1>a, <1>b, <1>c DEF Writer
<1>4. Settled'
  BY DEF Settled
<1>5. Seeking'
  BY DEF Seeking
<1>6. InCall'
  BY DEF InCall
<1>7. InLine'
  BY DEF InLine
<1>. QED  BY <1>1, <1>2, <1>3, <1>4, <1>5, <1>6, <1>7

LEMMA CompressIndInv == ASSUME IndInv, Compress PROVE IndInv'
<1> USE IobufAssumption DEF IndInv, TypeOK, InWriter, Min2, Loops, Compress, Output, reader
<1>1. TypeOK'
  OBVIOUS
<1>2. AtItsPlace'
  BY DEF AtItsPlace
<1>3. Writer'
  BY DEF Writer
<1>4. Settled'
  BY DEF Settled
<1>5. Seeking'
  BY DEF Seeking
<1>6. InCall'
  BY DEF InCall
<1>7. InLine'
  BY DEF InLine
<1>. QED  BY <1>1, <1>2, <1>3, <1>4, <1>5, <1>6, <1>7

LEMMA WriteReturnsIndInv == ASSUME IndInv, WriteReturns PROVE IndInv'
<1> USE IobufAssumption DEF IndInv, TypeOK, InWriter, Min2, Loops, WriteReturns, Return, NoCall, reader, loop
<1>1. TypeOK'
  OBVIOUS
<1>2. AtItsPlace'
  BY DEF AtItsPlace
<1>3. Writer'
  BY DEF Writer
<1>4. Settled'
  BY DEF Settled
<1>5. Seeking'
  BY DEF Seeking
<1>6. InCall'
  BY DEF InCall
<1>7. InLine'
  BY DEF InLine
<1>. QED  BY <1>1, <1>2, <1>3, <1>4, <1>5, <1>6, <1>7

LEMMA BeginFlushIndInv == ASSUME IndInv, NEW op \in {"flush", "close"}, BeginFlush(op) PROVE IndInv'
<1> USE IobufAssumption DEF IndInv, TypeOK, InWriter, Min2, Loops, BeginFlush, reader
<1>1. TypeOK'
  OBVIOUS
<1>2. AtItsPlace'
  BY DEF AtItsPlace
<1>3. Writer'
  BY DEF Writer
<1>4. Settled'
  BY DEF Settled
<1>5. Seeking'
  BY DEF Seeking
<1>6. InCall'
  BY DEF InCall
<1>7. InLine'
  BY DEF InLine
<1>. QED  BY <1>1, <1>2, <1>3, <1>4, <1>5, <1>6, <1>7

LEMMA FlushStreamIndInv == ASSUME IndInv, FlushStream PROVE IndInv'
<1> USE IobufAssumption DEF IndInv, TypeOK, InWriter, Min2, Loops, FlushStream, Output, reader, FlushedAll
<1>1. TypeOK'
  <2>1. Min2(BufSize, acc - file) \in Nat
    BY DEF Settled
  <2>2. file' \in Nat /\ count' \in Nat /\ disk' \in 0 .. file' /\ fpos' \in 0 .. file'
    BY <2>1
  <2>3. pc' \in {"flushing", "flushed"}
    OBVIOUS
  <2>. QED  BY <2>2, <2>3
<1>2. AtItsPlace'
  BY DEF AtItsPlace
<1>3. Writer'
  BY DEF Writer
<1>4. Settled'
  BY DEF Settled
<1>5. Seeking'
  BY DEF Seeking
<1>6. InCall'
  BY DEF InCall
<1>7. InLine'
  BY DEF InLine
<1>. QED  BY <1>1, <1>2, <1>3, <1>4, <1>5, <1>6, <1>7

LEMMA FlushReturnsIndInv == ASSUME IndInv, FlushReturns PROVE IndInv'
<1> USE IobufAssumption DEF IndInv, TypeOK, InWriter, Min2, Loops, FlushReturns, Return, NoCall, reader, loop
<1>1. TypeOK'
  OBVIOUS
<1>2. AtItsPlace'
  BY DEF AtItsPlace
<1>3. Writer'
  BY DEF Writer
<1>4. Settled'
  BY DEF Settled
<1>5. Seeking'
  BY DEF Seeking
<1>6. InCall'
  BY DEF InCall
<1>7. InLine'
  BY DEF InLine
<1>. QED  BY <1>1, <1>2, <1>3, <1>4, <1>5, <1>6, <1>7

LEMMA CloseWriterIndInv == ASSUME IndInv, CloseWriter PROVE IndInv'
<1> USE IobufAssumption DEF IndInv, TypeOK, InWriter, Min2, Loops, CloseWriter, Return, NoCall, reader, loop
<1>1. TypeOK'
  <2>1. Min2(BufSize, acc - file) \in Nat
    BY DEF Settled
  <2>2. file' \in Nat /\ disk' = file' /\ ended' \in BOOLEAN /\ fpos' \in 0 .. file'
    BY <2>1
  <2>3. NoCall \in [op : {"none", "write", "flush", "close", "read", "gets"}, n : Nat]
    OBVIOUS
  <2>. QED  BY <2>2, <2>3
<1>2. AtItsPlace'
  BY DEF AtItsPlace
<1>3. Writer'
  BY DEF Writer
<1>4. Settled'
  BY DEF Writer, Settled
<1>5. Seeking'
  BY DEF Seeking
<1>6. InCall'
  BY DEF InCall
<1>7. InLine'
  BY DEF InLine
<1>. QED  BY <1>1, <1>2, <1>3, <1>4, <1>5, <1>6, <1>7

LEMMA CrashIndInv == ASSUME IndInv, Crash PROVE IndInv'
<1> USE IobufAssumption DEF IndInv, TypeOK, InWriter, Min2, Loops, Crash, Return, NoCall, reader, loop
<1>1. TypeOK'
  <2>1. file' \in Nat /\ disk' = file' /\ acc' \in Nat
    OBVIOUS
  <2>2. fpos' \in 0 .. file' /\ taken' \in 0 .. fpos' /\ out' \in 0 .. taken'
    BY <2>1 DEF Writer
  <2>3. NoCall \in [op : {"none", "write", "flush", "close", "read", "gets"}, n : Nat]
    OBVIOUS
  <2>. QED  BY <2>1, <2>2, <2>3
<1>2. AtItsPlace'
  BY DEF AtItsPlace
<1>3. Writer'
  BY DEF Writer
<1>4. Settled'
  BY DEF Writer, Settled
<1>5. Seeking'
  BY DEF Seeking
<1>6. InCall'
  BY DEF InCall
<1>7. InLine'
  BY DEF InLine
<1>. QED  BY <1>1, <1>2, <1>3, <1>4, <1>5, <1>6, <1>7

LEMMA SeekIndInv == ASSUME IndInv, NEW off \in Int, NEW whence, Seek(off, whence) PROVE IndInv'
<1> USE IobufAssumption DEF IndInv, TypeOK, InWriter, Min2, Loops, Seek, Return, NoCall, reader, loop, Target
<1>1. TypeOK'
  OBVIOUS
<1>2. AtItsPlace'
  BY DEF AtItsPlace
<1>3. Writer'
  BY DEF Writer
<1>4. Settled'
  BY DEF Settled
<1>5. Seeking'
  BY DEF Seeking
<1>6. InCall'
  BY DEF InCall
<1>7. InLine'
  BY DEF InLine
<1>. QED  BY <1>1, <1>2, <1>3, <1>4, <1>5, <1>6, <1>7

LEMMA TellIndInv == ASSUME IndInv, Tell PROVE IndInv'
<1> USE IobufAssumption DEF IndInv, TypeOK, InWriter, Min2, Loops, Tell, Return, NoCall, reader, loop
<1>1. TypeOK'
  OBVIOUS
<1>2. AtItsPlace'
  BY DEF AtItsPlace
<1>3. Writer'
  BY DEF Writer
<1>4. Settled'
  BY DEF Settled
<1>5. Seeking'
  BY DEF Seeking
<1>6. InCall'
  BY DEF InCall
<1>7. InLine'
  BY DEF InLine
<1>. QED  BY <1>1, <1>2, <1>3, <1>4, <1>5, <1>6, <1>7

LEMMA BeginReadIndInv == ASSUME IndInv, NEW op \in {"read", "gets"}, NEW n \in Sizes, BeginRead(op, n) PROVE IndInv'
<1> USE IobufAssumption DEF IndInv, TypeOK, InWriter, Min2, Loops, BeginRead, reader, Rewind, Rewound, StartRead, OneRead
<1>1. TypeOK'
  <2>1. n \in Nat /\ req' = [op |-> op, n |-> n] /\ req' \in [op : {"none", "write", "flush", "close", "read", "gets"}, n : Nat]
    OBVIOUS
  <2>2. /\ pos' \in Nat /\ seek' \in Nat /\ left' = seek' /\ count' = 0
        /\ fpos' \in 0 .. file /\ taken' \in 0 .. fpos' /\ out' \in 0 .. taken'
    BY DEF Seeking
  <2>3. want' \in Nat /\ got' = 0 /\ pc' \in {"skipping", "reading"}
    BY <2>1, <2>2
  <2>4. UNCHANGED <<file, disk, ended, acc, res>>
    OBVIOUS
  <2>. QED  BY <2>1, <2>2, <2>3, <2>4
<1>2. AtItsPlace'
  BY DEF AtItsPlace
<1>3. Writer'
  BY DEF Writer
<1>4. Settled'
  BY DEF Settled
<1>5. Seeking'
  BY DEF Seeking
<1>6. InCall'
  BY DEF InCall
<1>7. InLine'
  BY DEF InLine
<1>. QED  BY <1>1, <1>2, <1>3, <1>4, <1>5, <1>6, <1>7

LEMMA DecompressIndInv == ASSUME IndInv, Decompress PROVE IndInv'
<1> USE IobufAssumption DEF IndInv, TypeOK, InWriter, Min2, Loops, Decompress, Filled, AtEOF
<1>1. TypeOK'
  OBVIOUS
<1>2. AtItsPlace'
  BY DEF AtItsPlace
<1>3. Writer'
  BY DEF Writer
<1>4. Settled'
  BY DEF Settled
<1>5. Seeking'
  BY DEF Seeking
<1>6. InCall'
  BY DEF InCall
<1>7. InLine'
  BY DEF InLine
<1>. QED  BY <1>1, <1>2, <1>3, <1>4, <1>5, <1>6, <1>7

LEMMA SkipReturnsIndInv == ASSUME IndInv, SkipReturns PROVE IndInv'
<1> USE IobufAssumption DEF IndInv, TypeOK, InWriter, Min2, Loops, SkipReturns, ReadEnds, SkipsOn, AtEOF, StartRead, OneRead, reader
<1>1. TypeOK'
  <2>1. got \in 0 .. want /\ want <= left
    BY DEF AtItsPlace
  <2>2. pos' \in Nat /\ left' \in Nat /\ seek' \in Int
    BY <2>1
  <2>3. want' \in Nat /\ got' = 0 /\ pc' \in {"skipping", "reading"}
    BY <2>1
  <2>4. UNCHANGED <<file, disk, ended, acc, reader, count, req, res>>
    OBVIOUS
  <2>. QED  BY <2>2, <2>3, <2>4
<1>2. AtItsPlace'
  BY DEF AtItsPlace, Seeking
<1>3. Writer'
  BY DEF Writer
<1>4. Settled'
  BY DEF Settled
<1>5. Seeking'
  BY DEF AtItsPlace, Settled, Seeking
<1>6. InCall'
  BY DEF InCall
<1>7. InLine'
  BY DEF Seeking, InLine
<1>. QED  BY <1>1, <1>2, <1>3, <1>4, <1>5, <1>6, <1>7

LEMMA ReadReturnsIndInv == ASSUME IndInv, ReadReturns PROVE IndInv'
<1> USE IobufAssumption DEF IndInv, TypeOK, InWriter, Min2, Loops, ReadReturns, ReadEnds, AtEOF, LineGoesOn, StartRead, Return, NoCall, reader
<1>1. TypeOK'
  OBVIOUS
<1>2. AtItsPlace'
  BY DEF AtItsPlace
<1>3. Writer'
  BY DEF Writer
<1>4. Settled'
  BY DEF Settled
<1>5. Seeking'
  BY DEF AtItsPlace, Settled, Seeking
<1>6. InCall'
  BY DEF InCall
<1>7. InLine'
  BY DEF InLine
<1>. QED  BY <1>1, <1>2, <1>3, <1>4, <1>5, <1>6, <1>7

LEMMA CloseReaderIndInv == ASSUME IndInv, CloseReader PROVE IndInv'
<1> USE IobufAssumption DEF IndInv, TypeOK, InWriter, Min2, Loops, CloseReader, Return, NoCall, reader, loop
<1>1. TypeOK'
  OBVIOUS
<1>2. AtItsPlace'
  BY DEF AtItsPlace
<1>3. Writer'
  BY DEF Writer
<1>4. Settled'
  BY DEF Settled
<1>5. Seeking'
  BY DEF Seeking
<1>6. InCall'
  BY DEF InCall
<1>7. InLine'
  BY DEF InLine
<1>. QED  BY <1>1, <1>2, <1>3, <1>4, <1>5, <1>6, <1>7


(***************************************************************************)
(* The iobuf implements IoFile: in a call, the place of the file is the    *)
(* one before what is left to skip, or before what was read so far.        *)
(***************************************************************************)
View ==
  /\ pc = "closed" => Mode = "closed"
  /\ pc \in InWriter => Mode = "write"
  /\ pc \in {"read", "skipping", "reading"} => Mode = "read"
  /\ pc = "skipping" => Place = pos + left
  /\ pc = "reading" => Place = pos - count
  /\ pc \notin {"skipping", "reading"} => Place = pos + seek

LEMMA ViewOf == View /\ View'
  BY DEF View, Mode, Place, InWriter

LEMMA OpenRefines == ASSUME IndInv, IndInv', NEW m \in {"write", "read"}, Open(m) PROVE File!Open(m)
  BY ViewOf, IobufAssumption
  DEF View, IndInv, InCall, InWriter, Open, NewState, Return, File!Open, Nothing, File!Nothing

LEMMA WriteRefines == ASSUME IndInv, IndInv', NEW n \in Sizes, Write(n) PROVE File!Call
  BY ViewOf, IobufAssumption
  DEF View, IndInv, InCall, InWriter, Write, File!Call, NoCall, File!NoCall

LEMMA CompressRefines == ASSUME IndInv, IndInv', Compress PROVE File!Accept \/ UNCHANGED File!vars
  BY ViewOf, IobufAssumption
  DEF View, IndInv, TypeOK, Writer, InCall, InWriter, File!vars, Compress, Output,
      File!Accept

LEMMA WriteReturnsRefines == ASSUME IndInv, IndInv', WriteReturns PROVE File!Write
  BY ViewOf, IobufAssumption
  DEF View, IndInv, TypeOK, Writer, InCall, InWriter, WriteReturns, Return,
      File!Return, Count, File!Count, NoCall, File!NoCall, File!Write

LEMMA BeginFlushRefines == ASSUME IndInv, IndInv', NEW op \in {"flush", "close"}, BeginFlush(op) PROVE File!Call
  BY ViewOf, IobufAssumption
  DEF View, IndInv, InCall, InWriter, BeginFlush, File!Call, NoCall, File!NoCall

LEMMA FlushStreamRefines == ASSUME IndInv, IndInv', FlushStream PROVE UNCHANGED File!vars
  BY ViewOf, IobufAssumption
  DEF View, InWriter, File!vars, FlushStream, Output

LEMMA FlushReturnsRefines == ASSUME IndInv, IndInv', FlushReturns PROVE File!Flush
  BY ViewOf, IobufAssumption
  DEF View, IndInv, Writer, InWriter, FlushReturns, Return, EOF, File!Flush, Count,
      File!Count, NoCall, File!NoCall, File!Return

LEMMA CloseWriterRefines == ASSUME IndInv, IndInv', CloseWriter PROVE File!Close
  BY ViewOf, IobufAssumption
  DEF View, IndInv, Settled, InWriter, CloseWriter, Return, File!Close, Nothing,
      File!Nothing, NoCall, File!NoCall, File!Return

LEMMA CrashRefines == ASSUME IndInv, IndInv', Crash PROVE File!Crash
  BY ViewOf, IobufAssumption
  DEF View, IndInv, TypeOK, Writer, Settled, InWriter, Crash, Return, File!Crash,
      Nothing, File!Nothing, NoCall, File!NoCall, File!Return

LEMMA SeekRefines == ASSUME IndInv, IndInv', NEW off \in Int, NEW whence, Seek(off, whence) PROVE File!Seek(off, whence) /\ off \in -acc .. acc
  BY ViewOf, IobufAssumption
  DEF View, IndInv, TypeOK, Seeking, InCall, Seek, Return, Target, File!Seek, NoCall,
      File!NoCall, File!Return, Sought, File!Sought

LEMMA TellRefines == ASSUME IndInv, IndInv', Tell PROVE File!Tell
  BY ViewOf, IobufAssumption
  DEF View, IndInv, InCall, InWriter, Tell, Return, File!Tell, Count, File!Count,
      NoCall, File!NoCall, File!Return

LEMMA BeginReadRefines == ASSUME IndInv, IndInv', NEW op \in {"read", "gets"}, NEW n \in Sizes, BeginRead(op, n) PROVE File!Call
  BY ViewOf, IobufAssumption
  DEF View, IndInv, TypeOK, InCall, BeginRead, Rewind, StartRead, File!Call, NoCall,
      File!NoCall

LEMMA DecompressRefines == ASSUME IndInv, IndInv', Decompress PROVE UNCHANGED File!vars
  BY ViewOf, IobufAssumption
  DEF View, File!vars, Decompress

LEMMA SkipReturnsRefines == ASSUME IndInv, IndInv', SkipReturns PROVE UNCHANGED File!vars
  BY ViewOf, IobufAssumption
  DEF View, IndInv, TypeOK, AtItsPlace, Seeking, File!vars, SkipReturns, SkipsOn,
      StartRead

\* What n_iobuf_read and gets return starts where the call began, and is
\* short only at the end of the line or of the file.
LEMMA ReadReturnsRefines ==
  ASSUME IndInv, IndInv', ReadReturns PROVE File!Read \/ UNCHANGED File!vars
<1> DEFINE p == pos - count  k == count'
<1>1. /\ Mode = "read" /\ Mode' = "read" /\ Place = p
      /\ pc = "reading" /\ seek = 0 /\ seek' = 0 /\ pos + got = out /\ count <= req.n
      /\ count' = count + got /\ pos' = pos + got /\ file = acc /\ disk = file
      /\ UNCHANGED <<file, disk, ended, acc>>
  <2>1. /\ pc = "reading" /\ count' = count + got /\ pos' = pos + got
        /\ UNCHANGED <<file, disk, ended, acc, seek>>
    BY DEF ReadReturns
  <2>2. pc' \in {"read", "reading"}
    BY <2>1 DEF ReadReturns, StartRead, Return
  <2>3. seek = 0 /\ pos + got = out /\ count <= req.n /\ file = acc /\ disk = file
    BY <2>1 DEF IndInv, AtItsPlace, Settled, Seeking, InWriter
  <2>. QED  BY <2>1, <2>2, <2>3, ViewOf DEF View
<1>2. /\ pos \in Nat /\ count \in Nat /\ got \in 0 .. want /\ want \in Nat /\ req.n \in Nat
      /\ out \in 0 .. taken /\ taken \in 0 .. fpos /\ fpos \in 0 .. file /\ file \in Nat
      /\ req.op \in {"read", "gets"}
  BY <1>1 DEF IndInv, TypeOK, InCall
<1>3. CASE LineGoesOn
  <2>1. pc' = "reading" /\ UNCHANGED <<req, res>>
    BY <1>1, <1>3 DEF ReadReturns, StartRead
  <2>2. Place' = Place
    BY <1>1, <1>2, <2>1, ViewOf DEF View
  <2>. QED  BY <1>1, <2>1, <2>2 DEF File!vars
<1>4. CASE ~LineGoesOn
  <2>1. pc' = "read" /\ req' = NoCall /\ res' = Bytes(out - k, k)
    BY <1>4 DEF ReadReturns, Return
  <2>2. Place' = p + k /\ out - k = p
    BY <1>1, <1>2, <2>1, ViewOf DEF View
  <2>3. k \in 0 .. req.n /\ p + k <= acc
    <3>1. count + want <= req.n
      BY <1>1, <1>2 DEF IndInv, InLine
    <3>. QED  BY <1>1, <1>2, <3>1
  <2>4. ended /\ got # want => p + k = acc
    <3>1. got # want => taken = fpos /\ fpos = file
      BY DEF ReadReturns, ReadEnds, AtEOF
    <3>2. ended /\ taken = file => out = taken
      BY <1>1 DEF IndInv, Settled, InWriter
    <3>. QED  BY <1>1, <1>2, <3>1, <3>2
  <2>5. CASE req.op = "read"
    <3>1. ended => k = req.n \/ p + k = acc
      BY <1>1, <1>2, <2>4, <2>5 DEF IndInv, InLine
    <3>. QED  BY <1>1, <1>2, <2>1, <2>2, <2>3, <2>5, <3>1
              DEF File!Read, File!Whole, File!Return, NoCall, File!NoCall, Bytes, File!Bytes
  <2>6. CASE req.op = "gets"
    <3>1. /\ want = Min2(1, req.n) /\ count + want <= req.n
          /\ \A i \in p .. pos - 1 : i \notin EndOfLine
      BY <1>1, <2>6 DEF IndInv, InLine
    <3>2. \A i \in p .. p + k - 2 : i \notin EndOfLine
      BY <1>1, <1>2, <3>1 DEF Min2
    <3>3. (ended => k = req.n \/ p + k = acc) \/ (k > 0 /\ p + k - 1 \in EndOfLine)
      <4>1. CASE got = 1
        BY <1>1, <1>2, <1>4, <2>3, <2>6, <4>1 DEF LineGoesOn
      <4>2. CASE got # 1
        BY <1>1, <1>2, <2>4, <3>1, <4>2 DEF Min2
      <4>. QED  BY <4>1, <4>2
    <3>4. File!ALine(req.n, k)
      BY <1>1, <3>2, <3>3 DEF File!ALine, File!Whole
    <3>. QED  BY <1>1, <1>2, <2>1, <2>2, <2>3, <2>6, <3>4
              DEF File!Read, File!Return, NoCall, File!NoCall, Bytes, File!Bytes
  <2>. QED  BY <1>2, <2>5, <2>6
<1>. QED  BY <1>3, <1>4

LEMMA CloseReaderRefines == ASSUME IndInv, IndInv', CloseReader PROVE File!Close
  BY ViewOf, IobufAssumption
  DEF View, IndInv, InCall, CloseReader, Return, File!Close, Nothing, File!Nothing,
      NoCall, File!NoCall, File!Return

-----------------------------------------------------------------------------
\* Every call, and every iteration of a loop in it, does what a call on the
\* file does or nothing that its users see.
LEMMA NextIndInv == ASSUME IndInv, [Next]_vars PROVE IndInv'
<1>1. ASSUME NEW m \in {"write", "read"}, Open(m) PROVE IndInv'
  BY <1>1, OpenIndInv
<1>2. ASSUME NEW n \in Sizes, Write(n) PROVE IndInv'
  BY <1>2, WriteIndInv
<1>3. CASE Compress
  BY <1>3, CompressIndInv
<1>4. CASE WriteReturns
  BY <1>4, WriteReturnsIndInv
<1>5. ASSUME NEW op \in {"flush", "close"}, BeginFlush(op) PROVE IndInv'
  BY <1>5, BeginFlushIndInv
<1>6. CASE FlushStream
  BY <1>6, FlushStreamIndInv
<1>7. CASE FlushReturns
  BY <1>7, FlushReturnsIndInv
<1>8. CASE CloseWriter
  BY <1>8, CloseWriterIndInv
<1>9. CASE Crash
  BY <1>9, CrashIndInv
<1>10. ASSUME NEW off \in -2 .. MaxFile, NEW whence \in {"set", "cur"}, Seek(off, whence) PROVE IndInv'
  BY <1>10, SeekIndInv, IobufAssumption
<1>11. CASE Tell
  BY <1>11, TellIndInv
<1>12. ASSUME NEW op \in {"read", "gets"}, NEW n \in Sizes, BeginRead(op, n) PROVE IndInv'
  BY <1>12, BeginReadIndInv
<1>13. CASE Decompress
  BY <1>13, DecompressIndInv
<1>14. CASE SkipReturns
  BY <1>14, SkipReturnsIndInv
<1>15. CASE ReadReturns
  BY <1>15, ReadReturnsIndInv
<1>16. CASE CloseReader
  BY <1>16, CloseReaderIndInv
<1>17. CASE UNCHANGED vars
  BY <1>17 DEF vars, reader, loop, IndInv, TypeOK, AtItsPlace, Writer, Settled, Seeking, InCall, InLine
<1>. QED  BY <1>1, <1>2, <1>3, <1>4, <1>5, <1>6, <1>7, <1>8, <1>9, <1>10,
             <1>11, <1>12, <1>13, <1>14, <1>15, <1>16, <1>17 DEF Next, Calls, Work

LEMMA StepIsStep == ASSUME IndInv, IndInv', [Next]_vars PROVE [File!Next]_(File!vars)
<1>1. ASSUME NEW m \in {"write", "read"}, Open(m) PROVE [File!Next]_(File!vars)
  BY <1>1, OpenRefines DEF File!Next
<1>2. ASSUME NEW n \in Sizes, Write(n) PROVE [File!Next]_(File!vars)
  BY <1>2, WriteRefines DEF File!Next
<1>3. CASE Compress
  BY <1>3, CompressRefines DEF File!Next
<1>4. CASE WriteReturns
  BY <1>4, WriteReturnsRefines DEF File!Next
<1>5. ASSUME NEW op \in {"flush", "close"}, BeginFlush(op) PROVE [File!Next]_(File!vars)
  BY <1>5, BeginFlushRefines DEF File!Next
<1>6. CASE FlushStream
  BY <1>6, FlushStreamRefines DEF File!Next
<1>7. CASE FlushReturns
  BY <1>7, FlushReturnsRefines DEF File!Next
<1>8. CASE CloseWriter
  BY <1>8, CloseWriterRefines DEF File!Next
<1>9. CASE Crash
  BY <1>9, CrashRefines DEF File!Next
<1>10. ASSUME NEW off \in -2 .. MaxFile, NEW whence \in {"set", "cur"}, Seek(off, whence) PROVE [File!Next]_(File!vars)
  BY <1>10, SeekRefines, IobufAssumption DEF File!Next
<1>11. CASE Tell
  BY <1>11, TellRefines DEF File!Next
<1>12. ASSUME NEW op \in {"read", "gets"}, NEW n \in Sizes, BeginRead(op, n) PROVE [File!Next]_(File!vars)
  BY <1>12, BeginReadRefines DEF File!Next
<1>13. CASE Decompress
  BY <1>13, DecompressRefines DEF File!Next
<1>14. CASE SkipReturns
  BY <1>14, SkipReturnsRefines DEF File!Next
<1>15. CASE ReadReturns
  BY <1>15, ReadReturnsRefines DEF File!Next
<1>16. CASE CloseReader
  BY <1>16, CloseReaderRefines DEF File!Next
<1>17. CASE UNCHANGED vars
  BY <1>17 DEF vars, reader, loop, Mode, Place, File!vars
<1>. QED  BY <1>1, <1>2, <1>3, <1>4, <1>5, <1>6, <1>7, <1>8, <1>9, <1>10,
             <1>11, <1>12, <1>13, <1>14, <1>15, <1>16, <1>17 DEF Next, Calls, Work

LEMMA InitIsFile == Init => File!Init
  BY DEF Init, Mode, Place, File!Init, NoCall, File!NoCall, Nothing, File!Nothing

-----------------------------------------------------------------------------
\* The variables keep their types: what was read, taken and put out are in
\* that order, and none is more than there is.
THEOREM TypeCorrect == Spec => []TypeOK
<1>1. IndInv => TypeOK
  BY DEF IndInv
<1>. QED  BY <1>1, InitIndInv, NextIndInv, PTL DEF Spec

\* iobuf->pos is the place of the decompressor, even between the reads of a
\* pending seek (n_iobuf_real_seek) or of a line (n_iobuf_getx), whatever
\* these reads delivered.
THEOREM PlaceCorrect == Spec => []AtItsPlace
<1>1. IndInv => AtItsPlace
  BY DEF IndInv
<1>. QED  BY <1>1, InitIndInv, NextIndInv, PTL DEF Spec

\* niobuf.c over niobuf_zstd.c implements IoFile: what n_iobuf_read and gets
\* return is what was written at the place n_iobuf_tell says, in full up to
\* the end of the line or of the file; and a crash leaves what was flushed.
THEOREM IobufIsAFile == Spec => IsAFile
  BY InitIndInv, NextIndInv, InitIsFile, StepIsStep, PTL DEF Spec, IsAFile, File!Spec

(***************************************************************************)
(* Streams                                                                 *)
(***************************************************************************)
\* The bytes of a record.
Code(r) ==
  CASE r.kind = "int"    -> Encode(r.value, r.width)
    [] r.kind = "uint32" -> Uint32(r.value)
    [] r.kind = "buf"    -> SizeBytes(Len(r.value), r.width) \o r.value
    [] r.kind = "line"   -> r.value

IsLine(t) ==
  /\ t # <<>> /\ t[Len(t)] = NewLine
  /\ \A i \in 1 .. Len(t) - 1 : t[i] # NewLine

Storable(r) ==
  CASE r.kind = "int"    -> r.width \in {1, 2, 4} /\ r.value \in 0 .. MaxOf(r.width)
    [] r.kind = "uint32" -> r.value \in 0 .. Uint32Max
    [] r.kind = "buf"    -> r.width \in SizeBits /\ r.value \in Texts /\ Fits(Len(r.value), r.width)
    [] r.kind = "line"   -> r.value \in Seq(0 .. B - 1) /\ IsLine(r.value)

\* The bytes t lie at a place, as far as the stream goes.
Lies(t, from) == \A j \in 1 .. Len(t) : from + j <= Len(bytes) => bytes[from + j] = t[j]

\* What was written lies in the stream, record after record.
Stored ==
  /\ \A i \in 1 .. Len(records) :
       /\ Storable(records[i]) /\ PlaceOf(i) \in Nat
       /\ ends[i] = PlaceOf(i) + Len(Code(records[i]))
       /\ Lies(Code(records[i]), PlaceOf(i))

  /\ Len(bytes) <= PlaceOf(Len(records) + 1)
  /\ mode = "write" =>
       Len(bytes) = PlaceOf(Len(records) + 1) /\ \A i \in 1 .. Len(records) : Whole(i)

\* Nothing is read before the stream is reopened.
Unread ==
  /\ mode = "write" => place = 0 /\ next = 1 /\ phase = "idle" /\ line = <<>>
  /\ mode # "read" => answer = None /\ phase = "idle"

\* A reader is where its next record begins, or past the end of a stream that
\* was cut.
OnBorder ==
  mode = "read" /\ phase = "idle" =>
    IF PlaceOf(next) <= Len(bytes) THEN place = PlaceOf(next)
                                   ELSE place \in Len(bytes) .. PlaceOf(next)

\* In n_stream_getline, line is what lies before the place; it goes on past
\* a line only if that just filled the buffer, and then into a line.  (Over an
\* n_iobuf it does not go on.)
InALine ==
  phase = "getc" =>
    /\ next <= Len(records) /\ records[next].kind = "line" /\ line # <<>> /\ mode = "read"
    /\ place = PlaceOf(next) + Len(line) /\ place <= Len(bytes)
    /\ \A i \in 1 .. Len(line) : line[i] = bytes[PlaceOf(next) + i]
    /\ st.getc /\ place >= ends[next] =>
         /\ \E sz \in LineSizes : JustFilled(sz)
         /\ next < Len(records) => records[next + 1].kind = "line" /\ place < ends[next + 1]

Recorded == [kind : Kinds, width : Nat, value : Nat \cup Seq(0 .. B - 1)]

StreamInv ==
  /\ StreamTypeOK /\ records \in Seq(Recorded) /\ ends \in Seq(Nat)
  /\ Stored /\ Unread /\ OnBorder /\ InALine /\ Restored /\ LineFits
-----------------------------------------------------------------------------
(* Numbers in bytes *)

LEMMA DivisionIs ==
  ASSUME NEW A \in Nat \ {0}, NEW a \in Nat
  PROVE  a = A * (a \div A) + (a % A) /\ a \div A \in Int /\ a % A \in 0 .. A - 1
  OBVIOUS

LEMMA SmallIs == ASSUME NEW A \in Nat \ {0}, NEW a \in 0 .. A - 1 PROVE a % A = a
  OBVIOUS

LEMMA Joined ==
  ASSUME NEW S, NEW a \in Seq(S), NEW b \in Seq(S)
  PROVE  /\ a \o b \in Seq(S) /\ Len(a \o b) = Len(a) + Len(b)
         /\ \A i \in 1 .. Len(a) : (a \o b)[i] = a[i]
         /\ \A i \in 1 .. Len(b) : (a \o b)[Len(a) + i] = b[i]
  OBVIOUS

LEMMA SameSeq ==
  ASSUME NEW S, NEW a \in Seq(S), NEW b \in Seq(S), Len(a) = Len(b),
         \A i \in 1 .. Len(a) : a[i] = b[i]
  PROVE  a = b
  OBVIOUS

LEMMA Halved ==
  ASSUME NEW v \in Nat
  PROVE  /\ v \div B \in Nat /\ v % B \in 0 .. B - 1 /\ v = (v \div B) * B + (v % B)
         /\ \A m \in Nat : v < m * B => v \div B < m
<1>1. B \in Nat /\ B > 2
  BY StreamAssumption
<1>2. v \div B \in Nat /\ v % B \in 0 .. B - 1 /\ v = (v \div B) * B + (v % B)
  <2>1. v \div B \in Int /\ v % B \in 0 .. B - 1
    BY <1>1, DivisionIs
  <2>2. v = B * (v \div B) + (v % B)
    BY <1>1, DivisionIs
  <2>3. PICK q \in Int : q = v \div B
    BY <2>1
  <2>4. PICK m \in 0 .. B - 1 : m = v % B
    BY <2>1
  <2>5. v = B * q + m
    BY <2>2, <2>3, <2>4
  <2>6. B * q = q * B
    BY <1>1
  <2>7. q >= 0
    <3>1. q <= -1 => q * B <= -B
      BY <1>1
    <3>. QED  BY <1>1, <2>5, <2>6, <3>1
  <2>8. v = q * B + m
    BY <2>5, <2>6
  <2>. QED  BY <2>3, <2>4, <2>7, <2>8
<1>3. ASSUME NEW m \in Nat, v < m * B PROVE v \div B < m
  <2>1. PICK q \in Nat : q = v \div B
    BY <1>2
  <2>2. q * B <= v
    BY <1>1, <1>2, <2>1
  <2>3. q >= m => q * B >= m * B
    BY <1>1
  <2>4. q * B \in Nat /\ m * B \in Nat
    BY <1>1
  <2>. QED  BY <1>3, <2>1, <2>2, <2>3, <2>4
<1>. QED  BY <1>2, <1>3

\* htons keeps 16 bits of a number, and ntohs undoes it.
LEMMA HtonNtoh16 ==
  ASSUME NEW v \in Nat
  PROVE  /\ Hton16(v) \in Seq(0 .. B - 1) /\ Len(Hton16(v)) = 2
         /\ v < B * B => Hton16(v)[1] * B + Hton16(v)[2] = v
<1>1. B \in Nat /\ B > 2
  BY StreamAssumption
<1>2. PICK q \in Nat : q = v \div B
  BY Halved
<1>3. q % B \in 0 .. B - 1 /\ v % B \in 0 .. B - 1 /\ v = q * B + (v % B)
  BY <1>2, Halved
<1>4. Hton16(v) = <<q % B, v % B>>
  BY <1>2 DEF Hton16
<1>5. v < B * B => q % B = q
  <2>1. v < B * B => q < B
    BY <1>1, <1>2, Halved
  <2>2. q \in 0 .. B - 1 => q % B = q
    BY <1>1, SmallIs
  <2>. QED  BY <1>1, <2>1, <2>2
<1>. QED  BY <1>3, <1>4, <1>5

LEMMA TwoAndTwo ==
  ASSUME NEW S, NEW a \in Seq(S), NEW b \in Seq(S)
  PROVE  Len(a) = 2 /\ Len(b) = 2 =>
           /\ a \o b \in Seq(S) /\ Len(a \o b) = 4
           /\ (a \o b)[1] = a[1] /\ (a \o b)[2] = a[2]
           /\ (a \o b)[3] = b[1] /\ (a \o b)[4] = b[2]
<1>1. PICK c : c = a \o b
  OBVIOUS
<1>2. c \in Seq(S) /\ Len(c) = Len(a) + Len(b)
  BY <1>1
<1>3. \A i \in 1 .. Len(a) : c[i] = a[i]
  BY <1>1
<1>4. \A i \in 1 .. Len(b) : c[Len(a) + i] = b[i]
  BY <1>1
<1>5. ASSUME Len(a) = 2, Len(b) = 2
      PROVE  c \in Seq(S) /\ Len(c) = 4 /\ c[1] = a[1] /\ c[2] = a[2] /\ c[3] = b[1] /\ c[4] = b[2]
  <2>1. 1 \in 1 .. Len(a) /\ 2 \in 1 .. Len(a) /\ 1 \in 1 .. Len(b) /\ 2 \in 1 .. Len(b)
    BY <1>5
  <2>2. Len(a) + 1 = 3 /\ Len(a) + 2 = 4 /\ Len(a) + Len(b) = 4
    BY <1>5
  <2>3. c[1] = a[1] /\ c[2] = a[2]
    BY <1>3, <2>1, Zenon
  <2>4. c[Len(a) + 1] = b[1] /\ c[Len(a) + 2] = b[2]
    BY <1>4, <2>1, Zenon
  <2>. QED  BY <1>2, <2>2, <2>3, <2>4, Zenon
<1>. QED  BY <1>1, <1>5

LEMMA HtonNtoh32 ==
  ASSUME NEW v \in Nat
  PROVE  /\ Hton32(v) \in Seq(0 .. B - 1) /\ Len(Hton32(v)) = 4
         /\ v < B * B * B * B => Ntoh32(Hton32(v)) = v
<1>1. B \in Nat /\ B > 2
  BY StreamAssumption
<1>2. PICK q \in Nat : q = v \div B
  BY Halved
<1>3. PICK h \in Nat : h = q \div B
  BY <1>2, Halved
<1>4. PICK a, b : a = Hton16(h) /\ b = Hton16(v)
  OBVIOUS
<1>5. /\ a \in Seq(0 .. B - 1) /\ Len(a) = 2 /\ b \in Seq(0 .. B - 1) /\ Len(b) = 2
      /\ h < B * B => a[1] * B + a[2] = h
  BY <1>4, HtonNtoh16
<1>6. Hton32(v) = a \o b
  BY <1>2, <1>3, <1>4 DEF Hton32
<1>7. /\ Hton32(v) \in Seq(0 .. B - 1) /\ Len(Hton32(v)) = 4
      /\ Hton32(v)[1] = a[1] /\ Hton32(v)[2] = a[2] /\ Hton32(v)[3] = b[1] /\ Hton32(v)[4] = b[2]
  <2>1. /\ a \o b \in Seq(0 .. B - 1) /\ Len(a \o b) = 4
        /\ (a \o b)[1] = a[1] /\ (a \o b)[2] = a[2]
        /\ (a \o b)[3] = b[1] /\ (a \o b)[4] = b[2]
    BY <1>5, TwoAndTwo
  <2>. QED  BY <1>6, <2>1, Zenon
<1>8. ASSUME v < B * B * B * B PROVE Ntoh32(Hton32(v)) = v
  <2>1. B * B \in Nat /\ B * B * B \in Nat /\ B * B * B * B = (B * B * B) * B
    BY <1>1
  <2>2. q < B * B * B
    BY <1>2, <1>8, <2>1, Halved
  <2>3. h < B * B
    BY <1>3, <2>1, <2>2, Halved
  <2>4. b[1] = q % B /\ b[2] = v % B
    BY <1>2, <1>4 DEF Hton16
  <2>5. q = h * B + (q % B) /\ v = q * B + (v % B) /\ q % B \in 0 .. B - 1 /\ v % B \in 0 .. B - 1
    BY <1>2, <1>3, Halved
  <2>6. Ntoh32(Hton32(v)) = (h * B + (q % B)) * B + (v % B)
    <3>1. PICK t : t = Hton32(v)
      OBVIOUS
    <3>2. t[1] = a[1] /\ t[2] = a[2] /\ t[3] = q % B /\ t[4] = v % B
      BY <1>7, <2>4, <3>1
    <3>3. Ntoh16(t) = h
      <4>1. a[1] * B + a[2] = h
        BY <1>5, <2>3
      <4>. QED  BY <3>2, <4>1 DEF Ntoh16
    <3>. QED  BY <3>1, <3>2, <3>3 DEF Ntoh32
  <2>. QED  BY <2>5, <2>6
<1>. QED  BY <1>7, <1>8

LEMMA MaxIs ==
  ASSUME NEW k \in {1, 2, 4}
  PROVE  /\ MaxOf(k) \in Nat
         /\ MaxOf(k) = IF k = 1 THEN B - 1 ELSE IF k = 2 THEN B * B - 1 ELSE B * B * B * B - 1
<1>1. B \in Nat /\ B > 2
  BY StreamAssumption
<1>2. B * B \in Nat /\ B * B > 0
  BY <1>1
<1>3. B * B * B * B \in Nat /\ B * B * B * B > 0
  BY <1>1, <1>2
<1>. QED  BY <1>1, <1>2, <1>3 DEF MaxOf, Uint8Max, Uint16Max, Uint32Max

\* A number of k bytes is what its bytes are read as.
LEMMA NumberInBytes ==
  ASSUME NEW v \in Nat, NEW k \in {1, 2, 4}
  PROVE  /\ Encode(v, k) \in Seq(0 .. B - 1) /\ Len(Encode(v, k)) = k
         /\ v <= MaxOf(k) => Decode(Encode(v, k)) = v
<1>1. B \in Nat /\ B > 2
  BY StreamAssumption
<1>2. CASE k = 1
  <2>1. Encode(v, k) = <<v % B>> /\ v % B \in 0 .. B - 1
    BY <1>2, Halved DEF Encode
  <2>2. v <= MaxOf(k) => v % B = v
    BY <1>1, <1>2, MaxIs
  <2>3. PICK t : t = Encode(v, k)
    OBVIOUS
  <2>4. t \in Seq(0 .. B - 1) /\ Len(t) = 1 /\ t[1] = v % B
    BY <2>1, <2>3
  <2>5. Decode(t) = t[1]
    BY <2>4 DEF Decode
  <2>. QED  BY <1>2, <2>2, <2>3, <2>4, <2>5
<1>3. CASE k = 2
  <2>1. PICK t : t = Hton16(v)
    OBVIOUS
  <2>2. t \in Seq(0 .. B - 1) /\ Len(t) = 2 /\ (v < B * B => t[1] * B + t[2] = v)
    BY <2>1, HtonNtoh16
  <2>3. Encode(v, k) = t /\ Decode(t) = Ntoh16(t)
    BY <1>3, <2>1, <2>2 DEF Encode, Decode
  <2>4. v <= MaxOf(k) => v < B * B
    BY <1>1, <1>3, MaxIs
  <2>. QED  BY <1>3, <2>2, <2>3, <2>4 DEF Ntoh16
<1>4. CASE k = 4
  <2>1. PICK t : t = Hton32(v)
    OBVIOUS
  <2>2. t \in Seq(0 .. B - 1) /\ Len(t) = 4 /\ (v < B * B * B * B => Ntoh32(t) = v)
    BY <2>1, HtonNtoh32
  <2>3. Encode(v, k) = t /\ Decode(t) = Ntoh32(t)
    BY <1>4, <2>1, <2>2 DEF Encode, Decode
  <2>4. v <= MaxOf(k) => v < B * B * B * B
    BY <1>1, <1>4, MaxIs
  <2>. QED  BY <1>4, <2>2, <2>3, <2>4
<1>. QED  BY <1>2, <1>3, <1>4

\* The flag of n_store_uint32 says how many bytes the number takes.
LEMMA Uint32InBytes ==
  ASSUME NEW v \in 0 .. Uint32Max
  PROVE  /\ Flag(v) \in 0 .. B - 1 /\ Width(Flag(v)) \in {1, 2, 4} /\ v <= MaxOf(Width(Flag(v)))
         /\ Uint32(v) \in Seq(0 .. B - 1) /\ Len(Uint32(v)) = 1 + Width(Flag(v))
         /\ Uint32(v)[1] = Flag(v)
         /\ \A j \in 1 .. Width(Flag(v)) : Uint32(v)[1 + j] = Encode(v, Width(Flag(v)))[j]
<1>1. B \in Nat /\ B > 2 /\ v \in Nat
  <2>1. Uint32Max \in Nat
    BY MaxIs DEF MaxOf
  <2>. QED  BY StreamAssumption, <2>1
<1>2. Flag(v) \in 0 .. B - 1 /\ Width(Flag(v)) \in {1, 2, 4}
  BY <1>1 DEF Flag, Width
<1>3. v <= MaxOf(Width(Flag(v)))
  <2>1. B * B \in Nat /\ Uint32Max \in Nat
    BY <1>1, MaxIs DEF MaxOf
  <2>. QED  BY <1>1, <2>1 DEF Flag, Width, MaxOf, Uint8Max, Uint16Max
<1>4. PICK w \in {1, 2, 4} : w = Width(Flag(v))
  BY <1>2
<1>5. PICK t : t = Encode(v, w)
  OBVIOUS
<1>6. t \in Seq(0 .. B - 1) /\ Len(t) = w
  BY <1>1, <1>5, NumberInBytes
<1>7. Uint32(v) = <<Flag(v)>> \o t
  BY <1>4, <1>5 DEF Uint32
<1>8. <<Flag(v)>> \in Seq(0 .. B - 1) /\ Len(<<Flag(v)>>) = 1 /\ <<Flag(v)>>[1] = Flag(v)
  BY <1>2
<1>9. /\ Uint32(v) \in Seq(0 .. B - 1) /\ Len(Uint32(v)) = 1 + w /\ Uint32(v)[1] = Flag(v)
      /\ \A j \in 1 .. w : Uint32(v)[1 + j] = t[j]
  BY <1>6, <1>7, <1>8
<1>. QED  BY <1>2, <1>3, <1>4, <1>5, <1>9

-----------------------------------------------------------------------------
(* What is read of the stream *)

LEMMA PartIs ==
  ASSUME NEW S, NEW s \in Seq(S), NEW m \in Nat, NEW n \in Nat, m <= n, n <= Len(s)
  PROVE  /\ SubSeq(s, m + 1, n) \in Seq(S) /\ Len(SubSeq(s, m + 1, n)) = n - m
         /\ \A i \in 1 .. n - m : SubSeq(s, m + 1, n)[i] = s[m + i]
<1>1. \A i \in m + 1 .. n : s[i] \in S
  OBVIOUS
<1>2. SubSeq(s, m + 1, n) \in Seq(S)
  BY <1>1
<1>3. Len(SubSeq(s, m + 1, n)) = n - m
  OBVIOUS
<1>4. ASSUME NEW i \in 1 .. n - m PROVE SubSeq(s, m + 1, n)[i] = s[m + i]
  <2>1. SubSeq(s, m + 1, n)[i] = s[(m + 1) + i - 1]
    OBVIOUS
  <2>2. (m + 1) + i - 1 = m + i
    OBVIOUS
  <2>. QED  BY <2>1, <2>2
<1>. QED  BY <1>2, <1>3, <1>4

LEMMA BeginningIs ==
  ASSUME NEW S, NEW s \in Seq(S), NEW n \in 0 .. Len(s)
  PROVE  SubSeq(s, 1, n) \in Seq(S)
<1>1. \A i \in 1 .. n : s[i] \in S
  OBVIOUS
<1>. QED  BY <1>1

LEMMA PartOfBytes ==
  ASSUME bytes \in Seq(0 .. B - 1), NEW m \in Nat, NEW n \in Nat, m <= n, n <= Len(bytes)
  PROVE  /\ SubSeq(bytes, m + 1, n) \in Seq(0 .. B - 1) /\ Len(SubSeq(bytes, m + 1, n)) = n - m
         /\ \A i \in 1 .. n - m : SubSeq(bytes, m + 1, n)[i] = bytes[m + i]
BY PartIs

LEMMA DeliveredIs ==
  ASSUME StreamTypeOK, NEW from \in Nat, NEW k \in Nat
  PROVE  /\ Delivered(from, k) \in Seq(0 .. B - 1)
         /\ Len(Delivered(from, k)) = IF from + k <= Len(bytes) THEN k
                                      ELSE IF from <= Len(bytes) THEN Len(bytes) - from ELSE 0
         /\ \A i \in 1 .. Len(Delivered(from, k)) : Delivered(from, k)[i] = bytes[from + i]
<1>1. bytes \in Seq(0 .. B - 1) /\ Len(bytes) \in Nat
  BY DEF StreamTypeOK
<1>2. PICK to \in Nat : to = Smaller(from + k, Len(bytes))
  BY <1>1 DEF Smaller
<1>3. to = IF from + k <= Len(bytes) THEN from + k ELSE Len(bytes)
  BY <1>2 DEF Smaller
<1>4. Delivered(from, k) = SubSeq(bytes, from + 1, to)
  BY <1>2 DEF Delivered
<1>5. to <= Len(bytes)
  BY <1>1, <1>3
<1>6. /\ SubSeq(bytes, from + 1, to) \in Seq(0 .. B - 1)
      /\ Len(SubSeq(bytes, from + 1, to)) = IF from + 1 <= to THEN to - from ELSE 0
      /\ \A i \in 1 .. to - from : SubSeq(bytes, from + 1, to)[i] = bytes[from + i]
  <2>1. CASE from + 1 <= to
    <3>1. from <= to /\ from \in Nat
      BY <2>1
    <3>2. /\ SubSeq(bytes, from + 1, to) \in Seq(0 .. B - 1)
          /\ Len(SubSeq(bytes, from + 1, to)) = to - from
          /\ \A i \in 1 .. to - from : SubSeq(bytes, from + 1, to)[i] = bytes[from + i]
      BY <1>1, <1>5, <3>1, PartOfBytes
    <3>. QED  BY <2>1, <3>2
  <2>2. CASE ~(from + 1 <= to)
    BY <1>1, <1>5, <2>2
  <2>. QED  BY <2>1, <2>2
<1>7. Len(SubSeq(bytes, from + 1, to)) = IF from + k <= Len(bytes) THEN k
                                         ELSE IF from <= Len(bytes) THEN Len(bytes) - from ELSE 0
  BY <1>1, <1>3, <1>6
<1>8. \A i \in 1 .. Len(SubSeq(bytes, from + 1, to)) : SubSeq(bytes, from + 1, to)[i] = bytes[from + i]
  BY <1>6
<1>. QED  BY <1>4, <1>6, <1>7, <1>8

\* A number n that takes len bytes is read, and what follows it is read next,
\* or nothing more.
Reads(num, n, from, len) ==
  /\ num.value \in Nat /\ num.place \in Nat
  /\ IF from + len <= Len(bytes) THEN num.value = n /\ num.place = from + len
     ELSE num.value = 0 /\ num.place = IF from <= Len(bytes) THEN Len(bytes) ELSE from

LEMMA NumberRead ==
  ASSUME StreamTypeOK, NEW from \in Nat, NEW k \in {1, 2, 4}, NEW v \in Nat, v <= MaxOf(k),
         \A j \in 1 .. k : from + j <= Len(bytes) => bytes[from + j] = Encode(v, k)[j]
  PROVE  Reads(Number(from, k), v, from, k) /\ (Full(from, k) <=> from + k <= Len(bytes))
<1>1. PICK t : t = Delivered(from, k)
  OBVIOUS
<1>2. /\ t \in Seq(0 .. B - 1) /\ Len(bytes) \in Nat
      /\ Len(t) = IF from + k <= Len(bytes) THEN k
                  ELSE IF from <= Len(bytes) THEN Len(bytes) - from ELSE 0
      /\ \A i \in 1 .. Len(t) : t[i] = bytes[from + i]
  <2>1. k \in Nat
    OBVIOUS
  <2>2. Len(bytes) \in Nat
    BY DEF StreamTypeOK
  <2>3. /\ Delivered(from, k) \in Seq(0 .. B - 1)
        /\ Len(Delivered(from, k)) = IF from + k <= Len(bytes) THEN k
                                     ELSE IF from <= Len(bytes) THEN Len(bytes) - from ELSE 0
        /\ \A i \in 1 .. Len(Delivered(from, k)) : Delivered(from, k)[i] = bytes[from + i]
    BY <2>1, DeliveredIs
  <2>. QED  BY <1>1, <2>2, <2>3
<1>3. Full(from, k) <=> Len(t) = k
  BY <1>1 DEF Full
<1>4. Full(from, k) <=> from + k <= Len(bytes)
  BY <1>2, <1>3
<1>5. After(from, k) = from + Len(t)
  BY <1>1 DEF After
<1>6. PICK num : num = Number(from, k)
  OBVIOUS
<1>7. num.value = (IF Full(from, k) THEN Decode(t) ELSE 0) /\ num.place = from + Len(t)
  BY <1>1, <1>5, <1>6 DEF Number
<1>8. CASE from + k <= Len(bytes)
  <2>1. Encode(v, k) \in Seq(0 .. B - 1) /\ Len(Encode(v, k)) = k /\ Decode(Encode(v, k)) = v
    BY NumberInBytes
  <2>2. \A i \in 1 .. k : t[i] = Encode(v, k)[i]
    BY <1>2, <1>8
  <2>3. t = Encode(v, k)
    BY <1>2, <1>8, <2>1, <2>2
  <2>4. num.value = v /\ num.place = from + k
    BY <1>2, <1>4, <1>7, <1>8, <2>1, <2>3
  <2>. QED  BY <1>4, <1>6, <1>8, <2>4 DEF Reads
<1>9. CASE ~(from + k <= Len(bytes))
  <2>1. /\ num.value = 0 /\ num.place \in Nat
        /\ num.place = IF from <= Len(bytes) THEN Len(bytes) ELSE from
    BY <1>2, <1>4, <1>7, <1>9
  <2>. QED  BY <1>4, <1>6, <1>9, <2>1 DEF Reads
<1>. QED  BY <1>8, <1>9

\* n_restore_uint32 undoes n_store_uint32.
LEMMA Uint32Read ==
  ASSUME StreamTypeOK, NEW from \in Nat, NEW v \in 0 .. Uint32Max, Lies(Uint32(v), from)
  PROVE  Reads(RestoredUint32(from), v, from, Len(Uint32(v)))
<1>1. PICK k \in {1, 2, 4} : k = Width(Flag(v))
  BY Uint32InBytes
<1>2. PICK t : t = Uint32(v)
  OBVIOUS
<1>3. /\ Flag(v) \in 0 .. B - 1 /\ v <= MaxOf(k) /\ v \in Nat /\ Len(t) = 1 + k /\ t[1] = Flag(v)
      /\ \A j \in 1 .. k : t[1 + j] = Encode(v, k)[j]
  BY <1>1, <1>2, Uint32InBytes
<1>4. \A j \in 1 .. Len(t) : from + j <= Len(bytes) => bytes[from + j] = t[j]
  BY <1>2 DEF Lies
<1>5. Len(bytes) \in Nat
  BY DEF StreamTypeOK
<1>6. /\ Len(Delivered(from, 1)) \in Nat /\ (Full(from, 1) <=> from + 1 <= Len(bytes))
      /\ ~Full(from, 1) => from + Len(Delivered(from, 1)) = IF from <= Len(bytes) THEN Len(bytes) ELSE from
  <2>1. Len(Delivered(from, 1)) = IF from + 1 <= Len(bytes) THEN 1
                                  ELSE IF from <= Len(bytes) THEN Len(bytes) - from ELSE 0
    BY DeliveredIs
  <2>2. Full(from, 1) <=> Len(Delivered(from, 1)) = 1
    BY DEF Full
  <2>. QED  BY <1>5, <2>1, <2>2
<1>7. CASE from + 1 <= Len(bytes)
  <2>1. bytes[from + 1] = Flag(v)
    BY <1>3, <1>4, <1>7
  <2>2. RestoredUint32(from) = Number(from + 1, k)
    BY <1>1, <1>6, <1>7, <2>1 DEF RestoredUint32
  <2>3. PICK start \in Nat : start = from + 1
    OBVIOUS
  <2>4. ASSUME NEW j \in 1 .. k, start + j <= Len(bytes) PROVE bytes[start + j] = Encode(v, k)[j]
    <3>1. 1 + j \in 1 .. Len(t) /\ from + (1 + j) <= Len(bytes) /\ from + (1 + j) = start + j
      BY <1>3, <2>3, <2>4
    <3>2. bytes[from + (1 + j)] = t[1 + j] /\ t[1 + j] = Encode(v, k)[j]
      BY <1>3, <1>4, <3>1
    <3>. QED  BY <3>1, <3>2
  <2>5. Reads(Number(start, k), v, start, k)
    BY <1>3, <2>4, NumberRead
  <2>6. start + k = from + Len(t)
    BY <1>3, <2>3
  <2>7. start <= Len(bytes) /\ from <= Len(bytes)
    BY <1>5, <1>7, <2>3
  <2>. QED  BY <1>2, <2>2, <2>3, <2>5, <2>6, <2>7 DEF Reads
<1>8. CASE ~(from + 1 <= Len(bytes))
  <2>1. RestoredUint32(from).value = 0 /\ RestoredUint32(from).place = from + Len(Delivered(from, 1))
    BY <1>6, <1>8 DEF RestoredUint32, After
  <2>2. ~(from + Len(t) <= Len(bytes))
    BY <1>3, <1>5, <1>8
  <2>. QED  BY <1>2, <1>6, <1>8, <2>1, <2>2 DEF Reads
<1>. QED  BY <1>7, <1>8

LEMMA TextLengths ==
  ASSUME NEW n \in Nat, n < (B * B * B * B) \div 2, NEW bits \in SizeBits, Fits(n, bits)
  PROVE  n \in 0 .. Uint32Max /\ bits \in {0, 16, 32} /\ (bits = 16 => n <= MaxOf(2)) /\ n <= MaxOf(4)
<1>1. PICK b4 \in Nat : b4 = B * B * B * B
  BY MaxIs, StreamAssumption
<1>2. PICK b2 \in Nat : b2 = B * B
  BY StreamAssumption
<1>3. Uint32Max = b4 - 1 /\ MaxOf(4) = b4 - 1 /\ MaxOf(2) = b2 - 1 /\ b4 - 1 \in Nat
  BY <1>1, <1>2, MaxIs DEF Uint32Max
<1>4. n < b4
  BY <1>1
<1>5. bits = 16 => n < b2
  BY <1>2 DEF Fits, Int16Max
<1>. QED  BY <1>3, <1>4, <1>5 DEF Fits, SizeBits

LEMMA SizeBytesIs ==
  ASSUME NEW n \in Nat, n < (B * B * B * B) \div 2, NEW bits \in SizeBits, Fits(n, bits)
  PROVE  SizeBytes(n, bits) \in Seq(0 .. B - 1) /\ Len(SizeBytes(n, bits)) \in Nat \ {0}
<1>1. n \in 0 .. Uint32Max /\ bits \in {0, 16, 32}
  BY TextLengths
<1>2. CASE bits = 0
  <2>1. /\ Uint32(n) \in Seq(0 .. B - 1) /\ Len(Uint32(n)) = 1 + Width(Flag(n))
        /\ Width(Flag(n)) \in {1, 2, 4}
    BY <1>1, Uint32InBytes
  <2>2. SizeBytes(n, bits) = Uint32(n)
    BY <1>2 DEF SizeBytes
  <2>. QED  BY <2>1, <2>2
<1>3. CASE bits = 16
  <2>1. SizeBytes(n, bits) = Encode(n, 2)
    BY <1>3 DEF SizeBytes
  <2>2. Encode(n, 2) \in Seq(0 .. B - 1) /\ Len(Encode(n, 2)) = 2
    BY NumberInBytes
  <2>. QED  BY <2>1, <2>2
<1>4. CASE bits = 32
  <2>1. SizeBytes(n, bits) = Encode(n, 4)
    BY <1>4 DEF SizeBytes
  <2>2. Encode(n, 4) \in Seq(0 .. B - 1) /\ Len(Encode(n, 4)) = 4
    BY NumberInBytes
  <2>. QED  BY <2>1, <2>2
<1>. QED  BY <1>1, <1>2, <1>3, <1>4

\* The size of a buffer is read as it was stored.
LEMMA SizeRead ==
  ASSUME StreamTypeOK, NEW from \in Nat, NEW n \in Nat, n < (B * B * B * B) \div 2,
         NEW bits \in SizeBits, Fits(n, bits), Lies(SizeBytes(n, bits), from)
  PROVE  Reads(RestoredSize(from, bits), n, from, Len(SizeBytes(n, bits)))
<1>1. n \in 0 .. Uint32Max /\ bits \in {0, 16, 32} /\ (bits = 16 => n <= MaxOf(2)) /\ n <= MaxOf(4)
  BY TextLengths
<1>2. CASE bits = 0
  <2>1. SizeBytes(n, bits) = Uint32(n) /\ RestoredSize(from, bits) = RestoredUint32(from)
    BY <1>2 DEF SizeBytes, RestoredSize
  <2>. QED  BY <1>1, <2>1, Uint32Read
<1>3. ASSUME NEW k \in {2, 4}, n <= MaxOf(k), SizeBytes(n, bits) = Encode(n, k),
             RestoredSize(from, bits) = Number(from, k)
      PROVE  Reads(RestoredSize(from, bits), n, from, Len(SizeBytes(n, bits)))
  <2>1. Len(Encode(n, k)) = k
    BY NumberInBytes
  <2>2. \A j \in 1 .. k : from + j <= Len(bytes) => bytes[from + j] = Encode(n, k)[j]
    BY <1>3, <2>1 DEF Lies
  <2>3. Reads(Number(from, k), n, from, k)
    BY <1>3, <2>2, NumberRead
  <2>. QED  BY <1>3, <2>1, <2>3
<1>4. CASE bits = 16
  BY <1>1, <1>3, <1>4 DEF SizeBytes, RestoredSize
<1>5. CASE bits = 32
  BY <1>1, <1>3, <1>5 DEF SizeBytes, RestoredSize
<1>. QED  BY <1>1, <1>2, <1>4, <1>5

-----------------------------------------------------------------------------
(* Where a reader stands *)

LEMMA StreamTypes ==
  ASSUME StreamInv
  PROVE  /\ bytes \in Seq(0 .. B - 1) /\ Len(bytes) \in Nat /\ Len(records) \in Nat
         /\ records \in Seq(Recorded) /\ ends \in Seq(Nat) /\ Len(ends) = Len(records)
         /\ place \in Nat /\ next \in 1 .. Len(records) + 1
         /\ line \in Seq(0 .. B - 1) /\ Len(line) \in Nat /\ size \in Nat
         /\ \A i \in 1 .. Len(records) + 1 : PlaceOf(i) \in Nat
         /\ \A i \in 1 .. Len(records) : ends[i] \in Nat /\ PlaceOf(i + 1) = ends[i]
<1>1. records \in Seq(Recorded) /\ ends \in Seq(Nat) /\ Len(ends) = Len(records)
  BY DEF StreamInv, StreamTypeOK
<1>2. \A i \in 1 .. Len(records) : ends[i] \in Nat
  BY <1>1
<1>3. \A i \in 1 .. Len(records) + 1 : PlaceOf(i) \in Nat
  <2> TAKE i \in 1 .. Len(records) + 1
  <2>1. i # 1 => i - 1 \in 1 .. Len(records)
    BY <1>1
  <2>. QED  BY <1>2, <2>1 DEF PlaceOf
<1>4. \A i \in 1 .. Len(records) : PlaceOf(i + 1) = ends[i]
  BY <1>1 DEF PlaceOf
<1>. QED  BY <1>1, <1>2, <1>3, <1>4 DEF StreamInv, StreamTypeOK

LEMMA CodeIs ==
  ASSUME NEW r, Storable(r), r.kind \in Kinds
  PROVE  Code(r) \in Seq(0 .. B - 1) /\ Len(Code(r)) \in Nat \ {0}
<1>1. CASE r.kind = "int"
  <2>1. PICK v \in Nat : v = r.value
    BY <1>1, MaxIs DEF Storable
  <2>2. PICK k \in {1, 2, 4} : k = r.width
    BY <1>1 DEF Storable
  <2>3. Code(r) = Encode(v, k)
    BY <1>1, <2>1, <2>2 DEF Code
  <2>4. Encode(v, k) \in Seq(0 .. B - 1) /\ Len(Encode(v, k)) = k
    BY NumberInBytes
  <2>. QED  BY <2>3, <2>4
<1>2. CASE r.kind = "uint32"
  <2>1. PICK v \in 0 .. Uint32Max : v = r.value
    BY <1>2 DEF Storable
  <2>2. Code(r) = Uint32(v)
    BY <1>2, <2>1 DEF Code
  <2>3. Uint32(v) \in Seq(0 .. B - 1) /\ Len(Uint32(v)) = 1 + Width(Flag(v)) /\ Width(Flag(v)) \in {1, 2, 4}
    BY Uint32InBytes
  <2>. QED  BY <2>2, <2>3
<1>3. CASE r.kind = "buf"
  <2>1. PICK t \in Texts : t = r.value
    BY <1>3 DEF Storable
  <2>2. PICK bits \in SizeBits : bits = r.width
    BY <1>3 DEF Storable
  <2>3. t \in Seq(0 .. B - 1) /\ Len(t) \in Nat /\ Len(t) < (B * B * B * B) \div 2
    BY StreamAssumption
  <2>4. Fits(Len(t), bits)
    BY <1>3, <2>1, <2>2 DEF Storable
  <2>5. SizeBytes(Len(t), bits) \in Seq(0 .. B - 1) /\ Len(SizeBytes(Len(t), bits)) \in Nat \ {0}
    BY <2>3, <2>4, SizeBytesIs
  <2>6. Code(r) = SizeBytes(Len(t), bits) \o t
    BY <1>3, <2>1, <2>2 DEF Code
  <2>7. /\ SizeBytes(Len(t), bits) \o t \in Seq(0 .. B - 1)
        /\ Len(SizeBytes(Len(t), bits) \o t) = Len(SizeBytes(Len(t), bits)) + Len(t)
    BY <2>3, <2>5, Joined
  <2>. QED  BY <2>3, <2>5, <2>6, <2>7
<1>4. CASE r.kind = "line"
  <2>1. Code(r) = r.value /\ r.value \in Seq(0 .. B - 1) /\ r.value # <<>>
    BY <1>4 DEF Code, Storable, IsLine
  <2>. QED  BY <2>1
<1>. QED  BY <1>1, <1>2, <1>3, <1>4 DEF Kinds

\* A record is written where it can be read.
LEMMA RecordAt ==
  ASSUME StreamInv, NEW i \in 1 .. Len(records)
  PROVE  /\ records[i] \in Recorded /\ Storable(records[i]) /\ Code(records[i]) \in Seq(0 .. B - 1)
         /\ Len(Code(records[i])) \in Nat \ {0} /\ PlaceOf(i) \in Nat
         /\ ends[i] = PlaceOf(i) + Len(Code(records[i])) /\ PlaceOf(i + 1) = ends[i]
         /\ Lies(Code(records[i]), PlaceOf(i))
<1>1. records[i] \in Recorded
  BY StreamTypes
<1>2. PICK r \in Recorded : r = records[i]
  BY <1>1
<1>3. r.kind \in Kinds
  BY DEF Recorded
<1>4. /\ Storable(r) /\ PlaceOf(i) \in Nat /\ ends[i] = PlaceOf(i) + Len(Code(r))
      /\ Lies(Code(r), PlaceOf(i))
  BY <1>2 DEF StreamInv, Stored
<1>5. Code(r) \in Seq(0 .. B - 1) /\ Len(Code(r)) \in Nat \ {0}
  BY <1>3, <1>4, CodeIs
<1>. QED  BY <1>1, <1>2, <1>4, <1>5, StreamTypes

LEMMA ReaderAt ==
  ASSUME StreamInv, mode = "read", phase = "idle", next <= Len(records)
  PROVE  /\ next \in 1 .. Len(records) /\ Lies(Code(records[next]), place)
         /\ Whole(next) => place = PlaceOf(next)
         /\ Whole(next) <=> place + Len(Code(records[next])) <= Len(bytes)
         /\ place \in Nat /\ place <= PlaceOf(next)
         /\ place < Len(bytes) => place = PlaceOf(next)
<1>1. next \in 1 .. Len(records) /\ place \in Nat /\ Len(bytes) \in Nat
  BY StreamTypes
<1>2. /\ Len(Code(records[next])) \in Nat \ {0} /\ PlaceOf(next) \in Nat
      /\ ends[next] = PlaceOf(next) + Len(Code(records[next]))
      /\ Lies(Code(records[next]), PlaceOf(next))
  BY <1>1, RecordAt
<1>3. IF PlaceOf(next) <= Len(bytes) THEN place = PlaceOf(next)
                                     ELSE place >= Len(bytes) /\ place <= PlaceOf(next)
  BY <1>1, <1>2 DEF StreamInv, OnBorder
<1>4. CASE PlaceOf(next) <= Len(bytes)
  <2>1. Lies(Code(records[next]), place) /\ place = PlaceOf(next)
    BY <1>2, <1>3, <1>4
  <2>2. Whole(next) <=> place + Len(Code(records[next])) <= Len(bytes)
    BY <1>2, <2>1 DEF Whole
  <2>. QED  BY <1>1, <2>1, <2>2
<1>5. CASE ~(PlaceOf(next) <= Len(bytes))
  <2>1. ~Whole(next)
    BY <1>1, <1>2, <1>5 DEF Whole
  <2>2. ~(place + Len(Code(records[next])) <= Len(bytes))
    BY <1>1, <1>2, <1>3, <1>5
  <2>3. Lies(Code(records[next]), place)
    BY <1>1, <1>3, <1>5 DEF Lies
  <2>4. place <= PlaceOf(next) /\ ~(place < Len(bytes))
    BY <1>1, <1>2, <1>3, <1>5
  <2>. QED  BY <1>1, <2>1, <2>2, <2>3, <2>4
<1>. QED  BY <1>4, <1>5

\* A record is left behind, and its answer is right.
LEMMA ReadOn ==
  ASSUME StreamInv, mode = "read", phase = "idle", next <= Len(records),
         UNCHANGED <<mode, st, written, getline>>, next' = next + 1, place' \in Nat,
         IF Whole(next) THEN place' = ends[next] ELSE place' \in Len(bytes) .. ends[next],
         Restored', answer'.of = 0 \/ records[answer'.of].kind # "line"
  PROVE  StreamInv'
<1>1. /\ hook' = hook /\ bytes' = bytes /\ records' = records /\ ends' = ends /\ phase' = phase
      /\ line' = line /\ size' = size /\ mode' = mode /\ st' = st
  BY DEF written, getline
<1>2. next \in 1 .. Len(records) /\ next' \in 1 .. Len(records) + 1
  BY StreamTypes
<1>3. StreamTypeOK'
  BY <1>1, <1>2 DEF StreamInv, StreamTypeOK
<1>4. \A i : PlaceOf(i)' = PlaceOf(i)
  BY <1>1 DEF PlaceOf
<1>5. Stored'
  BY <1>1, <1>4 DEF StreamInv, Stored, Lies
<1>6. Unread'
  BY <1>1 DEF Unread
<1>7. OnBorder'
  <2>1. PlaceOf(next + 1) = ends[next]
    BY <1>2, StreamTypes
  <2>2. PlaceOf(next)' = ends[next]
    BY <1>1, <1>2, <2>1 DEF PlaceOf
  <2>. QED  BY <1>1, <2>2 DEF OnBorder, Whole
<1>8. InALine'
  BY <1>1 DEF InALine
<1>9. LineFits'
  BY <1>1 DEF StreamInv, LineFits
<1>. QED  BY <1>1, <1>3, <1>5, <1>6, <1>7, <1>8, <1>9 DEF StreamInv

-----------------------------------------------------------------------------
(* Reading keeps the invariant *)

\* Where a number is all of a record, it is read up to the end of that.
LEMMA ReadsUpTo ==
  ASSUME StreamInv, mode = "read", phase = "idle", next <= Len(records),
         NEW num, NEW v, Reads(num, v, place, Len(Code(records[next])))
  PROVE  num.place \in Nat /\ IF Whole(next) THEN num.place = ends[next]
                              ELSE num.place \in Len(bytes) .. ends[next]
<1>1. /\ next \in 1 .. Len(records) /\ place \in Nat /\ place <= PlaceOf(next)
      /\ Whole(next) <=> place + Len(Code(records[next])) <= Len(bytes)
      /\ Whole(next) => place = PlaceOf(next)
  BY ReaderAt
<1>2. PICK c \in Nat : c = Len(Code(records[next]))
  BY <1>1, RecordAt
<1>3. PICK p \in Nat : p = PlaceOf(next)
  BY <1>1, RecordAt
<1>4. ends[next] = p + c
  BY <1>1, <1>2, <1>3, RecordAt
<1>5. Len(bytes) \in Nat
  BY StreamTypes
<1>6. CASE Whole(next)
  BY <1>1, <1>2, <1>3, <1>4, <1>6 DEF Reads
<1>7. CASE ~Whole(next)
  <2>1. num.place = IF place <= Len(bytes) THEN Len(bytes) ELSE place
    BY <1>1, <1>7 DEF Reads
  <2>2. ends[next] > Len(bytes)
    BY <1>4, <1>5, <1>7 DEF Whole
  <2>. QED  BY <1>1, <1>3, <1>4, <1>5, <1>7, <2>1, <2>2
<1>. QED  BY <1>6, <1>7

LEMMA ReadIntKeeps == ASSUME StreamInv, ReadInt PROVE StreamInv'
<1>1. mode = "read" /\ phase = "idle" /\ next <= Len(records) /\ records[next].kind = "int"
  BY DEF ReadInt, Expects
<1>2. /\ next \in 1 .. Len(records) /\ Lies(Code(records[next]), place) /\ place \in Nat
      /\ Whole(next) <=> place + Len(Code(records[next])) <= Len(bytes)
      /\ Whole(next) => place = PlaceOf(next)
      /\ place <= PlaceOf(next)
  BY <1>1, ReaderAt
<1>3. /\ Storable(records[next]) /\ ends[next] = PlaceOf(next) + Len(Code(records[next]))
      /\ PlaceOf(next) \in Nat
  BY <1>2, RecordAt
<1>4. PICK k \in {1, 2, 4} : k = records[next].width
  BY <1>1, <1>3 DEF Storable
<1>5. PICK v \in 0 .. MaxOf(k) : v = records[next].value
  BY <1>1, <1>3, <1>4 DEF Storable
<1>6. MaxOf(k) \in Nat /\ v \in Nat /\ v <= MaxOf(k)
  BY MaxIs
<1>7. Code(records[next]) = Encode(v, k) /\ Len(Encode(v, k)) = k
  BY <1>1, <1>4, <1>5, <1>6, NumberInBytes DEF Code
<1>8. \A j \in 1 .. k : place + j <= Len(bytes) => bytes[place + j] = Encode(v, k)[j]
  BY <1>2, <1>7 DEF Lies
<1>9. Reads(Number(place, k), v, place, k) /\ (Full(place, k) <=> place + k <= Len(bytes))
  <2>1. StreamTypeOK
    BY DEF StreamInv
  <2>. QED  BY <1>2, <1>6, <1>8, <2>1, NumberRead
<1>10. /\ place' = After(place, k) /\ next' = next + 1
       /\ answer' = Answered(next, Full(place, k), Number(place, k).value)
       /\ UNCHANGED <<mode, st, written, getline>>
  BY <1>4 DEF ReadInt, Advance, Answer
<1>11. Number(place, k).place = After(place, k)
  BY DEF Number
<1>12. place' \in Nat /\ IF Whole(next) THEN place' = ends[next] ELSE place' \in Len(bytes) .. ends[next]
  BY <1>1, <1>2, <1>7, <1>9, <1>10, <1>11, ReadsUpTo
<1>13. records' = records /\ bytes' = bytes /\ ends' = ends
  BY <1>10 DEF written
<1>14. answer'.of = next /\ answer'.ok = Full(place, k) /\ answer'.value = Number(place, k).value
  BY <1>10 DEF Answered
<1>15. Whole(next) => answer'.ok /\ answer'.value = records[next].value
  BY <1>2, <1>5, <1>7, <1>9, <1>14 DEF Reads
<1>16. ~Whole(next) => ~answer'.ok
  BY <1>2, <1>7, <1>9, <1>14
<1>17. Restored'
  BY <1>1, <1>13, <1>14, <1>15, <1>16 DEF Restored, Whole
<1>. QED  BY <1>1, <1>10, <1>12, <1>14, <1>17, ReadOn

LEMMA RestoreUint32Keeps == ASSUME StreamInv, RestoreUint32 PROVE StreamInv'
<1>1. mode = "read" /\ phase = "idle" /\ next <= Len(records) /\ records[next].kind = "uint32"
  BY DEF RestoreUint32, Expects
<1>2. /\ next \in 1 .. Len(records) /\ Lies(Code(records[next]), place) /\ place \in Nat
      /\ Whole(next) <=> place + Len(Code(records[next])) <= Len(bytes)
  BY <1>1, ReaderAt
<1>3. Storable(records[next])
  BY <1>2, RecordAt
<1>4. PICK v \in 0 .. Uint32Max : v = records[next].value
  BY <1>1, <1>3 DEF Storable
<1>5. Code(records[next]) = Uint32(v)
  BY <1>1, <1>4 DEF Code
<1>6. Reads(RestoredUint32(place), v, place, Len(Uint32(v)))
  <2>1. StreamTypeOK
    BY DEF StreamInv
  <2>. QED  BY <1>2, <1>5, <2>1, Uint32Read
<1>7. /\ place' = RestoredUint32(place).place /\ next' = next + 1
      /\ answer' = Answered(next, TRUE, RestoredUint32(place).value)
      /\ UNCHANGED <<mode, st, written, getline>>
  BY DEF RestoreUint32, Advance, Answer
<1>8. place' \in Nat /\ IF Whole(next) THEN place' = ends[next] ELSE place' \in Len(bytes) .. ends[next]
  BY <1>1, <1>5, <1>6, <1>7, ReadsUpTo
<1>9. records' = records /\ bytes' = bytes /\ ends' = ends
  BY <1>7 DEF written
<1>10. answer'.of = next /\ answer'.ok = TRUE /\ answer'.value = RestoredUint32(place).value
  BY <1>7 DEF Answered
<1>11. answer'.value = IF Whole(next) THEN records[next].value ELSE 0
  BY <1>2, <1>4, <1>5, <1>6, <1>10 DEF Reads
<1>12. Restored'
  BY <1>1, <1>9, <1>10, <1>11 DEF Restored, Whole
<1>. QED  BY <1>1, <1>7, <1>8, <1>10, <1>12, ReadOn

\* Of a buffer, first its size lies at a place, then its text.
LEMMA BufferAt ==
  ASSUME StreamInv, mode = "read", phase = "idle", next <= Len(records), records[next].kind = "buf",
         NEW sz, sz = RestoredSize(place, records[next].width)
  PROVE  /\ records[next].value \in Seq(0 .. B - 1) /\ sz.place \in Nat /\ sz.value \in Nat
         /\ \/ /\ sz.value = Len(records[next].value)
               /\ Lies(records[next].value, sz.place)
               /\ sz.place <= Len(bytes)
               /\ Whole(next) <=> sz.place + sz.value <= Len(bytes)
               /\ sz.place + sz.value = ends[next]
            \/ ~Whole(next) /\ sz.value = 0 /\ sz.place \in Len(bytes) .. ends[next]
         /\ ends[next] \in Nat
<1>1. /\ next \in 1 .. Len(records) /\ Lies(Code(records[next]), place) /\ place \in Nat
      /\ Whole(next) <=> place + Len(Code(records[next])) <= Len(bytes)
      /\ place < Len(bytes) => place = PlaceOf(next)
      /\ place <= PlaceOf(next)
  BY ReaderAt
<1>2. /\ Storable(records[next]) /\ ends[next] = PlaceOf(next) + Len(Code(records[next]))
      /\ PlaceOf(next) \in Nat
  BY <1>1, RecordAt
<1>3. PICK t \in Texts : t = records[next].value
  BY <1>2 DEF Storable
<1>4. PICK bits \in SizeBits : bits = records[next].width
  BY <1>2 DEF Storable
<1>5. Fits(Len(t), bits)
  BY <1>2, <1>3, <1>4 DEF Storable
<1>6. t \in Seq(0 .. B - 1) /\ Len(t) \in Nat /\ Len(t) < (B * B * B * B) \div 2
  BY StreamAssumption
<1>7. PICK s : s = SizeBytes(Len(t), bits)
  OBVIOUS
<1>8. s \in Seq(0 .. B - 1) /\ Len(s) \in Nat \ {0}
  BY <1>5, <1>6, <1>7, SizeBytesIs
<1>9. Code(records[next]) = s \o t
  BY <1>3, <1>4, <1>7 DEF Code
<1>10. /\ Len(s \o t) = Len(s) + Len(t)
       /\ \A i \in 1 .. Len(s) : (s \o t)[i] = s[i]
       /\ \A i \in 1 .. Len(t) : (s \o t)[Len(s) + i] = t[i]
  BY <1>6, <1>8, Joined
<1>11. \A j \in 1 .. Len(s) + Len(t) : place + j <= Len(bytes) => bytes[place + j] = (s \o t)[j]
  BY <1>1, <1>9, <1>10 DEF Lies
<1>12. Lies(s, place)
  <2> SUFFICES ASSUME NEW j \in 1 .. Len(s), place + j <= Len(bytes) PROVE bytes[place + j] = s[j]
    BY DEF Lies
  <2>1. j \in 1 .. Len(s) + Len(t)
    BY <1>6, <1>8
  <2>. QED  BY <1>10, <1>11, <2>1
<1>13. Reads(sz, Len(t), place, Len(s))
  <2>1. Reads(RestoredSize(place, bits), Len(t), place, Len(SizeBytes(Len(t), bits)))
    BY <1>1, <1>5, <1>6, <1>7, <1>12, SizeRead DEF StreamInv
  <2>. QED  BY <1>4, <1>7, <2>1
<1>14. PICK p \in Nat : p = sz.place
  BY <1>13 DEF Reads
<1>15. PICK n \in Nat : n = sz.value
  BY <1>13 DEF Reads
<1>16. Len(bytes) \in Nat
  BY StreamTypes
<1>17. CASE place + Len(s) <= Len(bytes)
  <2>1. n = Len(t) /\ p = place + Len(s)
    BY <1>13, <1>14, <1>15, <1>17 DEF Reads
  <2>2. Lies(t, p)
    <3> SUFFICES ASSUME NEW j \in 1 .. Len(t), p + j <= Len(bytes) PROVE bytes[p + j] = t[j]
      BY DEF Lies
    <3>1. Len(s) + j \in 1 .. Len(s) + Len(t) /\ place + (Len(s) + j) = p + j
      BY <1>1, <1>6, <1>8, <2>1
    <3>. QED  BY <1>10, <1>11, <3>1
  <2>3. Whole(next) <=> p + n <= Len(bytes)
    BY <1>1, <1>6, <1>8, <1>9, <1>10, <2>1
  <2>4. p + n = ends[next]
    <3>1. Len(Code(records[next])) = Len(s) + Len(t)
      BY <1>9, <1>10
    <3>2. place < Len(bytes)
      BY <1>1, <1>8, <1>16, <1>17
    <3>3. ends[next] = place + (Len(s) + Len(t))
      BY <1>1, <1>2, <3>1, <3>2
    <3>4. place \in Nat /\ p + n = place + (Len(s) + Len(t))
      BY <1>1, <1>6, <1>8, <2>1
    <3>. QED  BY <3>3, <3>4
  <2>5. ends[next] \in Nat
    BY <2>4
  <2>. QED  BY <1>3, <1>6, <1>14, <1>15, <1>17, <2>1, <2>2, <2>3, <2>4, <2>5
<1>18. CASE ~(place + Len(s) <= Len(bytes))
  <2>1. n = 0 /\ p = IF place <= Len(bytes) THEN Len(bytes) ELSE place
    BY <1>13, <1>14, <1>15, <1>18 DEF Reads
  <2>2. ~Whole(next)
    BY <1>1, <1>6, <1>8, <1>9, <1>10, <1>16, <1>18
  <2>3. Len(bytes) < ends[next] /\ ends[next] \in Nat
    BY <1>1, <1>2, <1>16, <2>2 DEF Whole
  <2>4. p \in Len(bytes) .. ends[next]
    BY <1>1, <1>2, <1>6, <1>8, <1>9, <1>10, <1>16, <2>1, <2>3
  <2>. QED  BY <1>3, <1>6, <1>14, <1>15, <2>1, <2>2, <2>3, <2>4
<1>. QED  BY <1>17, <1>18

LEMMA RestoreBufKeeps == ASSUME StreamInv, RestoreBuf PROVE StreamInv'
<1>1. mode = "read" /\ phase = "idle" /\ next <= Len(records) /\ records[next].kind = "buf"
  BY DEF RestoreBuf, Expects
<1>2. PICK sz : sz = RestoredSize(place, records[next].width)
  OBVIOUS
<1>3. /\ records[next].value \in Seq(0 .. B - 1) /\ sz.place \in Nat /\ sz.value \in Nat
      /\ \/ /\ sz.value = Len(records[next].value)
            /\ Lies(records[next].value, sz.place)
            /\ sz.place <= Len(bytes)
            /\ Whole(next) <=> sz.place + sz.value <= Len(bytes)
            /\ sz.place + sz.value = ends[next]
         \/ ~Whole(next) /\ sz.value = 0 /\ sz.place \in Len(bytes) .. ends[next]
      /\ ends[next] \in Nat
  BY <1>1, <1>2, BufferAt
<1>4. PICK t : t = Delivered(sz.place, sz.value)
  OBVIOUS
<1>5. /\ place' = After(sz.place, sz.value) /\ next' = next + 1
      /\ answer' = Answered(next, Full(sz.place, sz.value), t)
      /\ UNCHANGED <<mode, st, written, getline>>
  BY <1>2, <1>4 DEF RestoreBuf, Advance, Answer
<1>6. PICK p \in Nat, n \in Nat : p = sz.place /\ n = sz.value
  BY <1>3
<1>7. /\ t \in Seq(0 .. B - 1) /\ Len(t) \in Nat
      /\ Len(t) = IF p + n <= Len(bytes) THEN n ELSE IF p <= Len(bytes) THEN Len(bytes) - p ELSE 0
      /\ \A i \in 1 .. Len(t) : t[i] = bytes[p + i]
  <2>1. StreamTypeOK
    BY DEF StreamInv
  <2>2. /\ Delivered(p, n) \in Seq(0 .. B - 1)
        /\ Len(Delivered(p, n)) = IF p + n <= Len(bytes) THEN n
                                  ELSE IF p <= Len(bytes) THEN Len(bytes) - p ELSE 0
        /\ \A i \in 1 .. Len(Delivered(p, n)) : Delivered(p, n)[i] = bytes[p + i]
    BY <2>1, DeliveredIs
  <2>3. t = Delivered(p, n)
    BY <1>4, <1>6
  <2>. QED  BY <2>2, <2>3
<1>8. Len(bytes) \in Nat
  BY StreamTypes
<1>9. place' = p + Len(t) /\ (Full(p, n) <=> Len(t) = n)
  BY <1>4, <1>5, <1>6 DEF After, Full
<1>10. answer'.of = next /\ answer'.ok = Full(p, n) /\ answer'.value = t
  BY <1>5, <1>6 DEF Answered
<1>11. place' \in Nat /\ IF Whole(next) THEN place' = ends[next] ELSE place' \in Len(bytes) .. ends[next]
  <2>1. CASE n = Len(records[next].value) /\ p <= Len(bytes) /\ p + n = ends[next]
    <3>1. Whole(next) <=> p + n <= Len(bytes)
      BY <2>1 DEF Whole
    <3>. QED  BY <1>7, <1>8, <1>9, <2>1, <3>1
  <2>2. CASE ~Whole(next) /\ n = 0 /\ p \in Len(bytes) .. ends[next]
    <3>1. Len(t) = 0 /\ ends[next] \in Nat
      BY <1>3, <1>7, <1>8, <2>2
    <3>. QED  BY <1>8, <1>9, <2>2, <3>1
  <2>. QED  BY <1>3, <1>6, <2>1, <2>2
<1>12. Whole(next) => answer'.ok /\ answer'.value = records[next].value
  <2> SUFFICES ASSUME Whole(next) PROVE Full(p, n) /\ t = records[next].value
    BY <1>10
  <2>1. Lies(records[next].value, p) /\ p + n <= Len(bytes) /\ n = Len(records[next].value)
    BY <1>3, <1>6
  <2>2. Len(t) = n
    BY <1>7, <2>1
  <2>3. PICK u \in Seq(0 .. B - 1) : u = records[next].value
    BY <1>3
  <2>4. \A i \in 1 .. n : p + i <= Len(bytes) => bytes[p + i] = u[i]
    BY <2>1, <2>3 DEF Lies
  <2>5. \A i \in 1 .. n : t[i] = u[i]
    BY <1>7, <1>8, <2>1, <2>2, <2>4
  <2>6. Len(u) = Len(t)
    BY <2>1, <2>2, <2>3
  <2>7. \A i \in 1 .. Len(t) : t[i] = u[i]
    BY <2>2, <2>5
  <2>8. t = u
    BY <1>7, <2>3, <2>6, <2>7, SameSeq
  <2>. QED  BY <1>9, <2>2, <2>3, <2>8
<1>13. ~Whole(next) /\ answer'.ok => answer'.value = <<>>
  <2> SUFFICES ASSUME ~Whole(next), Full(p, n) PROVE t = <<>>
    BY <1>10
  <2>1. Len(t) = 0
    BY <1>3, <1>6, <1>7, <1>8, <1>9
  <2>. QED  BY <1>7, <2>1
<1>14. records' = records /\ bytes' = bytes /\ ends' = ends
  BY <1>5 DEF written
<1>15. Restored'
  BY <1>1, <1>10, <1>12, <1>13, <1>14 DEF Restored, Whole
<1>. QED  BY <1>1, <1>5, <1>10, <1>11, <1>15, ReadOn

\* n_buf_restore_skip goes where n_buf_restore would have gone, or further.
LEMMA RestoreSkipKeeps == ASSUME StreamInv, RestoreSkip PROVE StreamInv'
<1>1. mode = "read" /\ phase = "idle" /\ next <= Len(records) /\ records[next].kind = "buf"
  BY DEF RestoreSkip, Expects
<1>2. PICK sz : sz = RestoredSize(place, records[next].width)
  OBVIOUS
<1>3. /\ sz.place \in Nat /\ sz.value \in Nat
      /\ \/ /\ Whole(next) <=> sz.place + sz.value <= Len(bytes)
            /\ sz.place + sz.value = ends[next]
         \/ ~Whole(next) /\ sz.value = 0 /\ sz.place \in Len(bytes) .. ends[next]
      /\ ends[next] \in Nat
  BY <1>1, <1>2, BufferAt
<1>4. /\ place' = sz.place + sz.value /\ next' = next + 1
      /\ answer' = Answered(0, TRUE, st.seek)
      /\ UNCHANGED <<mode, st, written, getline>>
  BY <1>2 DEF RestoreSkip, Advance, Skipped, SeekAnswer
<1>5. Len(bytes) \in Nat
  BY StreamTypes
<1>6. place' \in Nat /\ IF Whole(next) THEN place' = ends[next] ELSE place' \in Len(bytes) .. ends[next]
  BY <1>3, <1>4, <1>5
<1>7. answer'.of = 0
  BY <1>4 DEF Answered
<1>8. Restored'
  BY <1>7 DEF Restored
<1>. QED  BY <1>1, <1>4, <1>6, <1>7, <1>8, ReadOn

-----------------------------------------------------------------------------
(* Writing keeps the invariant *)

\* A writer may stop.
LEMMA StoppedKeeps ==
  ASSUME StreamInv, mode = "write" \/ mode' = mode, mode' \in {mode, "closed", "died"},
         hook' \in BOOLEAN, UNCHANGED <<st, bytes, records, ends, place, next, answer, getline>>
  PROVE  StreamInv'
<1>1. /\ bytes' = bytes /\ records' = records /\ ends' = ends /\ phase' = phase /\ line' = line
      /\ size' = size /\ st' = st /\ place' = place /\ next' = next /\ answer' = answer
  BY DEF getline
<1>2. StreamTypeOK'
  BY <1>1 DEF StreamInv, StreamTypeOK
<1>3. \A i : PlaceOf(i)' = PlaceOf(i)
  BY <1>1 DEF PlaceOf
<1>4. mode' = mode \/ (mode' # "write" /\ mode' # "read" /\ mode = "write")
  OBVIOUS
<1>5. Stored'
  BY <1>1, <1>3, <1>4 DEF StreamInv, Stored, Lies, Whole
<1>6. Unread'
  BY <1>1, <1>4 DEF StreamInv, Unread
<1>7. OnBorder'
  BY <1>1, <1>4 DEF StreamInv, OnBorder, PlaceOf
<1>8. InALine'
  BY <1>1 DEF StreamInv, InALine, PlaceOf, JustFilled
<1>9. Restored' /\ LineFits'
  BY <1>1 DEF StreamInv, Restored, Whole, Prefixes, LineFits
<1>. QED  BY <1>1, <1>2, <1>5, <1>6, <1>7, <1>8, <1>9 DEF StreamInv

\* A record is added behind the others.
LEMMA AppendKeeps ==
  ASSUME StreamInv, mode = "write", NEW r \in Recorded, Storable(r), Append1(r, Code(r)),
         UNCHANGED <<mode, st, hook, place, next, answer, getline>>
  PROVE  StreamInv'
<1>1. PICK c : c = Code(r)
  OBVIOUS
<1>2. c \in Seq(0 .. B - 1) /\ Len(c) \in Nat
  BY <1>1, CodeIs DEF Recorded
<1>3. /\ bytes' = bytes \o c /\ records' = Append(records, r) /\ ends' = Append(ends, Len(bytes) + Len(c))
      /\ phase' = phase /\ line' = line /\ size' = size /\ mode' = mode /\ hook' = hook
      /\ st' = st /\ place' = place /\ next' = next /\ answer' = answer
  BY <1>1 DEF Append1, getline
<1>4. PICK n \in Nat : n = Len(records)
  BY StreamTypes
<1>5. PICK len \in Nat : len = Len(bytes)
  BY StreamTypes
<1>6. /\ records \in Seq(Recorded) /\ ends \in Seq(Nat) /\ bytes \in Seq(0 .. B - 1)
      /\ Len(ends) = n
  BY <1>4, StreamTypes
<1>7. /\ records' \in Seq(Recorded) /\ Len(records') = n + 1 /\ records'[n + 1] = r
      /\ \A i \in 1 .. n : records'[i] = records[i]
  BY <1>3, <1>4, <1>6
<1>8. /\ ends' \in Seq(Nat) /\ Len(ends') = n + 1 /\ ends'[n + 1] = len + Len(c)
      /\ \A i \in 1 .. n : ends'[i] = ends[i]
  BY <1>2, <1>3, <1>5, <1>6
<1>9. /\ bytes' \in Seq(0 .. B - 1) /\ Len(bytes') = len + Len(c)
      /\ \A i \in 1 .. len : bytes'[i] = bytes[i]
      /\ \A i \in 1 .. Len(c) : bytes'[len + i] = c[i]
  BY <1>2, <1>3, <1>5, <1>6, Joined
<1>10. /\ place = 0 /\ next = 1 /\ phase = "idle" /\ line = <<>> /\ len = PlaceOf(n + 1)
  BY <1>4, <1>5 DEF StreamInv, Unread, Stored
<1>11. answer = None
  BY DEF StreamInv, Unread
<1>12. /\ \A i \in 1 .. n + 1 : PlaceOf(i)' = PlaceOf(i)
       /\ PlaceOf(n + 2)' = len + Len(c)
  <2>1. ASSUME NEW i \in 1 .. n + 1 PROVE PlaceOf(i)' = PlaceOf(i)
    <3>1. i # 1 => i - 1 \in 1 .. n
      BY <1>4
    <3>. QED  BY <1>8, <3>1 DEF PlaceOf
  <2>2. PlaceOf(n + 2)' = ends'[n + 1]
    BY <1>4 DEF PlaceOf
  <2>. QED  BY <1>8, <2>1, <2>2
<1>13. Stored'
  <2>1. ASSUME NEW i \in 1 .. n
        PROVE  /\ Storable(records'[i]) /\ PlaceOf(i)' \in Nat
               /\ ends'[i] = PlaceOf(i)' + Len(Code(records'[i]))
               /\ Lies(Code(records[i]), PlaceOf(i))'
    <3>1. i \in 1 .. Len(records) /\ i \in 1 .. n + 1
      BY <1>4
    <3>2. PICK d : d = Code(records[i])
      OBVIOUS
    <3>3. /\ Storable(records[i]) /\ PlaceOf(i) \in Nat /\ Len(d) \in Nat
          /\ ends[i] = PlaceOf(i) + Len(d)
          /\ \A j \in 1 .. Len(d) : PlaceOf(i) + j <= len => bytes[PlaceOf(i) + j] = d[j]
      BY <1>5, <3>1, <3>2, RecordAt DEF Lies
    <3>4. PICK p \in Nat : p = PlaceOf(i)
      BY <3>3
    <3>5. ends[i] <= len
      BY <1>4, <1>5, <3>1 DEF StreamInv, Stored, Whole
    <3>6. \A j \in 1 .. Len(d) : bytes'[p + j] = d[j]
      <4> TAKE j \in 1 .. Len(d)
      <4>1. p + j \in 1 .. len
        BY <3>3, <3>4, <3>5
      <4>2. p + j <= len
        BY <4>1
      <4>. QED  BY <1>9, <3>3, <3>4, <4>1, <4>2
    <3>7. Lies(Code(records[i]), PlaceOf(i))'
      BY <1>7, <1>12, <3>1, <3>2, <3>4, <3>6 DEF Lies
    <3>. QED  BY <1>7, <1>8, <1>12, <3>1, <3>2, <3>3, <3>7
  <2>2. /\ Storable(records'[n + 1]) /\ PlaceOf(n + 1)' \in Nat
        /\ ends'[n + 1] = PlaceOf(n + 1)' + Len(Code(records'[n + 1]))
        /\ Lies(Code(records[n + 1]), PlaceOf(n + 1))'
    <3>1. PlaceOf(n + 1)' = len
      BY <1>10, <1>12
    <3>2. Lies(Code(records[n + 1]), PlaceOf(n + 1))'
      BY <1>1, <1>7, <1>9, <3>1 DEF Lies
    <3>. QED  BY <1>1, <1>5, <1>7, <1>8, <3>1, <3>2
  <2>3. ASSUME NEW i \in 1 .. n + 1
        PROVE  /\ Storable(records'[i]) /\ PlaceOf(i)' \in Nat
               /\ ends'[i] = PlaceOf(i)' + Len(Code(records'[i]))
               /\ Lies(Code(records[i]), PlaceOf(i))'
    <3>1. CASE i = n + 1
      BY <2>2, <3>1
    <3>2. CASE i # n + 1
      <4>1. i \in 1 .. n
        BY <3>2
      <4>. QED  BY <2>1, <4>1
    <3>. QED  BY <3>1, <3>2
  <2>4. \A i \in 1 .. n + 1 : ends'[i] <= len + Len(c)
    <3> TAKE i \in 1 .. n + 1
    <3>1. CASE i = n + 1
      BY <1>2, <1>5, <1>8, <3>1
    <3>2. CASE i # n + 1
      <4>1. i \in 1 .. n /\ i \in 1 .. Len(records)
        BY <1>4, <3>2
      <4>2. ends[i] <= len
        BY <1>5, <4>1 DEF StreamInv, Stored, Whole
      <4>3. ends[i] \in Nat /\ ends'[i] = ends[i]
        BY <1>8, <4>1, StreamTypes
      <4>. QED  BY <1>2, <4>2, <4>3
    <3>. QED  BY <3>1, <3>2
  <2>5. Len(bytes') = PlaceOf(n + 2)' /\ (n + 1) + 1 = n + 2
    BY <1>9, <1>12
  <2>6. PlaceOf(Len(records) + 1)' = len + Len(c)
    BY <1>7, <1>12 DEF PlaceOf
  <2>7. \A i \in 1 .. Len(records') : Whole(i)'
    BY <1>7, <1>9, <2>4 DEF Whole
  <2>8. Len(bytes') <= PlaceOf(Len(records) + 1)' /\ Len(bytes') = PlaceOf(Len(records) + 1)'
    BY <1>2, <1>5, <1>9, <2>6
  <2>9. \A i \in 1 .. Len(records') :
          /\ Storable(records'[i]) /\ PlaceOf(i)' \in Nat
          /\ ends'[i] = PlaceOf(i)' + Len(Code(records'[i]))
          /\ Lies(Code(records[i]), PlaceOf(i))'
    BY <1>7, <2>3
  <2>. QED  BY <2>7, <2>8, <2>9 DEF Stored
<1>14. StreamTypeOK'
  <2>1. \A i \in DOMAIN records' : records'[i].kind \in Kinds
    <3>1. \A i \in DOMAIN records' : records'[i] \in Recorded
      BY <1>7
    <3>. QED  BY <3>1 DEF Recorded
  <2>. QED  BY <1>3, <1>7, <1>8, <1>9, <1>10, <2>1 DEF StreamInv, StreamTypeOK
<1>15. Unread'
  BY <1>3, <1>10, <1>11 DEF Unread
<1>16. OnBorder' /\ InALine'
  BY <1>3, <1>10 DEF OnBorder, InALine
<1>17. Restored' /\ LineFits'
  <2>1. answer'.of = 0 /\ line' = <<>>
    BY <1>3, <1>10, <1>11 DEF None, Answered
  <2>. QED  BY <2>1 DEF Restored, LineFits
<1>. QED  BY <1>7, <1>8, <1>13, <1>14, <1>15, <1>16, <1>17 DEF StreamInv

\* n_stream_write writes a record, or nothing if the hook has it so.
LEMMA PutKeeps ==
  ASSUME StreamInv, mode = "write", NEW r \in Recorded, Storable(r), Put(r, Code(r)),
         UNCHANGED <<mode, st, hook, place, next, answer, getline>>
  PROVE  StreamInv'
<1>1. CASE hook
  <2>1. UNCHANGED <<bytes, records, ends>>
    BY <1>1 DEF Put
  <2>2. hook' \in BOOLEAN /\ mode' = mode
    BY DEF StreamInv, StreamTypeOK
  <2>. QED  BY <2>1, <2>2, StoppedKeeps
<1>2. CASE ~hook
  <2>1. Append1(r, Code(r))
    BY <1>2 DEF Put
  <2>. QED  BY <2>1, AppendKeeps
<1>. QED  BY <1>1, <1>2

LEMMA WriteIntKeeps ==
  ASSUME StreamInv, NEW v \in Ints, NEW k \in {1, 2, 4}, WriteInt(v, k) PROVE StreamInv'
<1>1. PICK r : r = Item("int", k, v)
  OBVIOUS
<1>2. r.kind = "int" /\ r.width = k /\ r.value = v
  BY <1>1 DEF Item
<1>3. v \in Nat /\ MaxOf(k) \in Nat
  <2>1. B * B * B * B - 1 \in Int
    BY StreamAssumption
  <2>. QED  BY <2>1, StreamAssumption, MaxIs
<1>4. mode = "write" /\ v <= MaxOf(k) /\ UNCHANGED <<mode, st, hook, place, next, answer, getline>>
  BY DEF WriteInt, CanWrite
<1>5. r \in Recorded
  BY <1>1, <1>3 DEF Recorded, Item, Kinds
<1>6. Storable(r) /\ Code(r) = Encode(v, k)
  BY <1>2, <1>3, <1>4 DEF Storable, Code
<1>7. Put(r, Code(r))
  BY <1>1, <1>6 DEF WriteInt
<1>. QED  BY <1>4, <1>5, <1>6, <1>7, PutKeeps

LEMMA StoreUint32Keeps == ASSUME StreamInv, NEW v \in Ints, StoreUint32(v) PROVE StreamInv'
<1>1. PICK r : r = Item("uint32", 0, v)
  OBVIOUS
<1>2. r.kind = "uint32" /\ r.value = v
  BY <1>1 DEF Item
<1>3. v \in 0 .. Uint32Max /\ v \in Nat
  <2>1. Uint32Max = B * B * B * B - 1 /\ Uint32Max \in Nat
    BY MaxIs DEF MaxOf, Uint32Max
  <2>. QED  BY <2>1, StreamAssumption
<1>4. mode = "write" /\ UNCHANGED <<mode, st, hook, place, next, answer, getline>>
  BY DEF StoreUint32, CanWrite
<1>5. r \in Recorded
  BY <1>1, <1>3 DEF Recorded, Item, Kinds
<1>6. Storable(r) /\ Code(r) = Uint32(v)
  BY <1>2, <1>3 DEF Storable, Code
<1>7. Put(r, Code(r))
  BY <1>1, <1>6 DEF StoreUint32
<1>. QED  BY <1>4, <1>5, <1>6, <1>7, PutKeeps

LEMMA StoreBufKeeps ==
  ASSUME StreamInv, NEW t \in Texts, NEW bits \in SizeBits,
         StoreBuf(t, bits) \/ StoreBufInBuf(t, bits)
  PROVE  StreamInv'
<1>1. PICK r : r = Item("buf", bits, t)
  OBVIOUS
<1>2. r.kind = "buf" /\ r.width = bits /\ r.value = t
  BY <1>1 DEF Item
<1>3. mode = "write" /\ UNCHANGED <<st, hook, place, next, answer, getline>>
  BY DEF StoreBuf, StoreBufInBuf, CanWrite
<1>4. \/ Fits(Len(t), bits) /\ Put(r, SizeBytes(Len(t), bits) \o t) /\ UNCHANGED mode
      \/ mode' = "died" /\ UNCHANGED <<bytes, records, ends>>
  BY <1>1 DEF StoreBuf, StoreBufInBuf
<1>5. CASE Fits(Len(t), bits) /\ Put(r, SizeBytes(Len(t), bits) \o t) /\ UNCHANGED mode
  <2>1. t \in Seq(0 .. B - 1) /\ bits \in Nat
    BY StreamAssumption DEF SizeBits
  <2>2. r \in Recorded
    BY <1>1, <2>1 DEF Recorded, Item, Kinds
  <2>3. Storable(r) /\ Code(r) = SizeBytes(Len(t), bits) \o t
    BY <1>2, <1>5 DEF Storable, Code
  <2>. QED  BY <1>3, <1>5, <2>2, <2>3, PutKeeps
<1>6. CASE mode' = "died" /\ UNCHANGED <<bytes, records, ends>>
  <2>1. hook' \in BOOLEAN
    BY <1>3 DEF StreamInv, StreamTypeOK
  <2>. QED  BY <1>3, <1>6, <2>1, StoppedKeeps
<1>. QED  BY <1>4, <1>5, <1>6

\* n_stream_printf of a line that fits its buffer writes the line.
LEMMA PrintLineKeeps == ASSUME ~LongPrints, StreamInv, NEW t \in Texts, PrintLine(t) PROVE StreamInv'
<1>1. PICK u : u = Append(t, NewLine)
  OBVIOUS
<1>2. t \in Seq(0 .. B - 1) /\ Len(t) \in Nat /\ NewLine \in 0 .. B - 1
  BY StreamAssumption
<1>3. /\ u \in Seq(0 .. B - 1) /\ Len(u) = Len(t) + 1 /\ u[Len(t) + 1] = NewLine
      /\ \A i \in 1 .. Len(t) : u[i] = t[i]
  BY <1>1, <1>2
<1>4. \A i \in 1 .. Len(t) : t[i] # NewLine
  BY <1>2 DEF PrintLine
<1>5. IsLine(u)
  <2>1. u # <<>> /\ u[Len(u)] = NewLine
    BY <1>2, <1>3
  <2>2. \A i \in 1 .. Len(u) - 1 : u[i] # NewLine
    BY <1>2, <1>3, <1>4
  <2>. QED  BY <2>1, <2>2 DEF IsLine
<1>6. PICK r : r = Item("line", 0, u)
  OBVIOUS
<1>7. r.kind = "line" /\ r.value = u
  BY <1>6 DEF Item
<1>8. r \in Recorded
  BY <1>3, <1>6 DEF Recorded, Item, Kinds
<1>9. Storable(r) /\ Code(r) = u
  BY <1>3, <1>5, <1>7 DEF Storable, Code
<1>10. /\ mode = "write" /\ Append1(r, Code(r))
       /\ UNCHANGED <<mode, st, hook, place, next, answer, getline>>
  BY <1>1, <1>6, <1>9 DEF PrintLine, Printed, CanWrite
<1>. QED  BY <1>8, <1>9, <1>10, AppendKeeps

LEMMA ReopenKeeps == ASSUME StreamInv, Reopen PROVE StreamInv'
<1>1. PICK k \in 0 .. Len(bytes) : bytes' = SubSeq(bytes, 1, k)
  BY DEF Reopen
<1>2. /\ mode = "write" /\ mode' = "read" /\ records' = records /\ ends' = ends /\ phase' = phase
      /\ line' = line /\ size' = size /\ hook' = hook /\ st' = st /\ place' = place
      /\ next' = next /\ answer' = answer
  BY DEF Reopen, getline
<1>3. bytes \in Seq(0 .. B - 1) /\ Len(bytes) \in Nat
  BY StreamTypes
<1>4. /\ bytes' \in Seq(0 .. B - 1) /\ Len(bytes') = k /\ k <= Len(bytes)
      /\ \A i \in 1 .. k : bytes'[i] = bytes[i]
  <2>1. k \in Nat /\ k <= Len(bytes)
    BY <1>3
  <2>2. SubSeq(bytes, 1, k) \in Seq(0 .. B - 1)
    <3>1. bytes \in Seq(0 .. B - 1) /\ k \in 0 .. Len(bytes)
      BY <1>3
    <3>. QED  BY <3>1, BeginningIs
  <2>3. Len(SubSeq(bytes, 1, k)) = k
    BY <1>3, <2>1
  <2>4. \A i \in 1 .. k : SubSeq(bytes, 1, k)[i] = bytes[i]
    BY <1>3, <2>1
  <2>. QED  BY <1>1, <2>1, <2>2, <2>3, <2>4
<1>5. place = 0 /\ next = 1 /\ phase = "idle" /\ line = <<>> /\ answer = None
  BY <1>2 DEF StreamInv, Unread
<1>6. \A i : PlaceOf(i)' = PlaceOf(i)
  BY <1>2 DEF PlaceOf
<1>7. Stored'
  <2>1. ASSUME NEW i \in 1 .. Len(records)
        PROVE  /\ Storable(records[i]) /\ PlaceOf(i) \in Nat
               /\ ends[i] = PlaceOf(i) + Len(Code(records[i]))
               /\ Lies(Code(records[i]), PlaceOf(i))'
    <3>1. PICK d : d = Code(records[i])
      OBVIOUS
    <3>2. /\ Storable(records[i]) /\ PlaceOf(i) \in Nat /\ Len(d) \in Nat
          /\ ends[i] = PlaceOf(i) + Len(d)
          /\ \A j \in 1 .. Len(d) : PlaceOf(i) + j <= Len(bytes) => bytes[PlaceOf(i) + j] = d[j]
      BY <3>1, RecordAt DEF Lies
    <3>3. PICK p \in Nat : p = PlaceOf(i)
      BY <3>2
    <3>4. ASSUME NEW j \in 1 .. Len(d), p + j <= k PROVE bytes'[p + j] = d[j]
      <4>1. p + j \in 1 .. k /\ p + j <= Len(bytes)
        BY <1>3, <1>4, <3>2, <3>3, <3>4
      <4>. QED  BY <1>4, <3>2, <3>3, <4>1
    <3>5. Lies(Code(records[i]), PlaceOf(i))'
      BY <1>2, <1>4, <1>6, <3>1, <3>3, <3>4 DEF Lies
    <3>. QED  BY <3>1, <3>2, <3>5
  <2>2. Len(bytes) <= PlaceOf(Len(records) + 1) /\ PlaceOf(Len(records) + 1) \in Nat
    BY StreamTypes DEF StreamInv, Stored
  <2>3. Len(bytes') <= PlaceOf(Len(records) + 1)
    BY <1>3, <1>4, <2>2
  <2>. QED  BY <1>2, <1>6, <2>1, <2>3 DEF Stored
<1>8. StreamTypeOK'
  BY <1>2, <1>4 DEF StreamInv, StreamTypeOK
<1>9. Unread'
  BY <1>2, <1>5 DEF Unread
<1>10. OnBorder' /\ InALine'
  <2>1. PlaceOf(next)' = 0
    BY <1>2, <1>5 DEF PlaceOf
  <2>. QED  BY <1>2, <1>4, <1>5, <2>1 DEF OnBorder, InALine
<1>11. Restored' /\ LineFits'
  <2>1. answer'.of = 0 /\ line' = <<>>
    BY <1>2, <1>5 DEF None, Answered
  <2>. QED  BY <2>1 DEF Restored, LineFits
<1>. QED  BY <1>2, <1>7, <1>8, <1>9, <1>10, <1>11 DEF StreamInv

LEMMA SeekBackKeeps == ASSUME StreamInv, NEW i \in 1 .. MaxRecords, SeekBack(i) PROVE StreamInv'
<1>1. /\ mode = "read" /\ phase = "idle" /\ i < next /\ PlaceOf(i) <= Len(bytes)
      /\ place' = PlaceOf(i) /\ next' = i /\ answer' = Answered(0, TRUE, st.seek)
      /\ mode' = mode /\ st' = st /\ hook' = hook /\ bytes' = bytes /\ records' = records
      /\ ends' = ends /\ phase' = phase /\ line' = line /\ size' = size
  BY DEF SeekBack, SeekAnswer, written, getline
<1>2. next \in 1 .. Len(records) + 1 /\ Len(records) \in Nat /\ MaxRecords \in Nat
  BY StreamTypes, StreamAssumption
<1>3. i \in 1 .. Len(records) + 1
  BY <1>1, <1>2
<1>4. PlaceOf(i) \in Nat
  BY <1>3, StreamTypes
<1>5. \A j : PlaceOf(j)' = PlaceOf(j)
  BY <1>1 DEF PlaceOf
<1>6. StreamTypeOK'
  BY <1>1, <1>3, <1>4 DEF StreamInv, StreamTypeOK
<1>7. Stored'
  BY <1>1, <1>5 DEF StreamInv, Stored, Lies, Whole
<1>8. Unread' /\ InALine'
  BY <1>1 DEF Unread, InALine
<1>9. OnBorder'
  <2>1. PlaceOf(next)' = PlaceOf(i)
    BY <1>1 DEF PlaceOf
  <2>. QED  BY <1>1, <2>1 DEF OnBorder
<1>10. Restored' /\ LineFits'
  <2>1. answer'.of = 0
    BY <1>1 DEF Answered
  <2>. QED  BY <1>1, <2>1 DEF StreamInv, Restored, LineFits
<1>. QED  BY <1>1, <1>6, <1>7, <1>8, <1>9, <1>10 DEF StreamInv

-----------------------------------------------------------------------------
(* n_stream_getline keeps the invariant *)

\* The newline of a line is its last byte.
LEMMA LineAt ==
  ASSUME StreamInv, NEW i \in 1 .. Len(records), records[i].kind = "line"
  PROVE  /\ records[i].value \in Seq(0 .. B - 1) /\ Len(records[i].value) \in Nat \ {0}
         /\ PlaceOf(i) \in Nat /\ ends[i] = PlaceOf(i) + Len(records[i].value)
         /\ \A j \in 1 .. Len(records[i].value) :
              PlaceOf(i) + j <= Len(bytes) =>
                /\ bytes[PlaceOf(i) + j] = records[i].value[j]
                /\ bytes[PlaceOf(i) + j] = NewLine <=> j = Len(records[i].value)
<1>1. PICK t : t = records[i].value
  OBVIOUS
<1>2. /\ Storable(records[i]) /\ Code(records[i]) \in Seq(0 .. B - 1)
      /\ Len(Code(records[i])) \in Nat \ {0} /\ PlaceOf(i) \in Nat
      /\ ends[i] = PlaceOf(i) + Len(Code(records[i])) /\ Lies(Code(records[i]), PlaceOf(i))
  BY RecordAt
<1>3. Code(records[i]) = t
  BY <1>1 DEF Code
<1>4. IsLine(t)
  BY <1>1, <1>2 DEF Storable
<1>5. ASSUME NEW j \in 1 .. Len(t), PlaceOf(i) + j <= Len(bytes)
      PROVE  bytes[PlaceOf(i) + j] = t[j] /\ (bytes[PlaceOf(i) + j] = NewLine <=> j = Len(t))
  <2>1. bytes[PlaceOf(i) + j] = t[j]
    BY <1>2, <1>3, <1>5 DEF Lies
  <2>2. j # Len(t) => j \in 1 .. Len(t) - 1
    BY <1>2, <1>3
  <2>. QED  BY <1>4, <2>1, <2>2 DEF IsLine
<1>. QED  BY <1>1, <1>2, <1>3, <1>5

LEMMA PrefixIs ==
  ASSUME NEW S, NEW s \in Seq(S), NEW t \in Seq(S), Len(s) <= Len(t),
         \A j \in 1 .. Len(s) : s[j] = t[j]
  PROVE  s \in Prefixes(t)
<1>1. Len(s) \in 0 .. Len(t)
  OBVIOUS
<1>2. SubSeq(t, 1, Len(s)) \in Seq(S)
  BY <1>1, BeginningIs
<1>3. Len(SubSeq(t, 1, Len(s))) = Len(s) /\ \A j \in 1 .. Len(s) : SubSeq(t, 1, Len(s))[j] = t[j]
  BY <1>1
<1>4. s = SubSeq(t, 1, Len(s))
  BY <1>2, <1>3, SameSeq
<1>. QED  BY <1>1, <1>4 DEF Prefixes

\* A line that was read, up to a place, is one: of what was written it has
\* all, or all there is; it is more only if it just filled the buffer.
Complete(l, to) ==
  /\ to = PlaceOf(next) + Len(l) /\ to <= Len(bytes)
  /\ \A i \in 1 .. Len(l) : l[i] = bytes[PlaceOf(next) + i]
  /\ IF Whole(next) THEN to >= ends[next] ELSE to = Len(bytes)
  /\ to > ends[next] =>
       /\ \E sz \in LineSizes : JustFilled(sz)
       /\ next < Len(records) =>
            to <= ends[next + 1] /\ (IF Whole(next + 1) THEN to = ends[next + 1] ELSE to = Len(bytes))

LEMMA LineEndsKeeps ==
  ASSUME StreamInv, mode = "read", next <= Len(records), records[next].kind = "line",
         NEW l \in Seq(0 .. B - 1), NEW to \in Nat, LineEnds(l, to), place' = to, line' = l,
         size' \in Nat, Len(l) < size', UNCHANGED <<mode, st, written>>,
         Complete(l, to) \/ (l = <<>> /\ to >= Len(bytes) /\ to < ends[next] /\ ~Whole(next))
  PROVE  StreamInv'
<1>1. /\ mode' = mode /\ hook' = hook /\ bytes' = bytes /\ records' = records /\ ends' = ends /\ st' = st
      /\ phase' = "idle" /\ answer' = Answered(next, TRUE, l)
  BY DEF written, LineEnds, Answer
<1>2. PICK k \in next + 1 .. Len(records) + 1 :
        /\ next' = k /\ (k > Len(records) \/ ends[k - 1] >= to)
        /\ \A i \in next + 1 .. k - 1 : ends[i - 1] < to
  BY DEF LineEnds
<1>3. PICK n \in Nat : n = Len(records)
  BY StreamTypes
<1>4. PICK len \in Nat : len = Len(bytes)
  BY StreamTypes
<1>5. PICK p \in Nat : p = PlaceOf(next)
  BY <1>3, StreamTypes
<1>6. next \in 1 .. n /\ next \in 1 .. Len(records) /\ k \in next + 1 .. n + 1 /\ Len(l) \in Nat
  BY <1>3, StreamTypes
<1>7. /\ ends[next] \in Nat /\ (Whole(next) <=> ends[next] <= len)
      /\ \E m \in Nat \ {0} : m = Len(records[next].value) /\ ends[next] = p + m
  BY <1>4, <1>5, <1>6, LineAt, StreamTypes DEF Whole
<1>8. PICK m \in Nat \ {0} : m = Len(records[next].value) /\ ends[next] = p + m
  BY <1>7
<1>9. len <= ends[n] /\ ends[n] \in Nat
  <2>1. Len(bytes) <= PlaceOf(Len(records) + 1)
    BY DEF StreamInv, Stored
  <2>2. n \in 1 .. Len(records)
    BY <1>3, <1>6
  <2>3. PlaceOf(n + 1) = ends[n] /\ ends[n] \in Nat
    BY <2>2, StreamTypes
  <2>. QED  BY <1>3, <1>4, <2>1, <2>3
<1>10. StreamTypeOK'
  BY <1>1, <1>3, <1>6, <1>2 DEF StreamInv, StreamTypeOK
<1>11. \A i : PlaceOf(i)' = PlaceOf(i)
  BY <1>1 DEF PlaceOf
<1>12. Stored'
  BY <1>1, <1>11 DEF StreamInv, Stored, Lies, Whole
<1>13. Unread' /\ InALine'
  BY <1>1 DEF Unread, InALine
<1>14. PlaceOf(next)' = ends[k - 1] /\ k - 1 \in 1 .. n /\ ends[k - 1] \in Nat
  <2>1. k - 1 \in 1 .. n /\ k # 1
    BY <1>6
  <2>2. PlaceOf(next)' = ends[k - 1]
    BY <1>1, <1>2, <2>1 DEF PlaceOf
  <2>. QED  BY <1>3, <2>1, <2>2, StreamTypes
<1>15. OnBorder' /\ (next' = next + 1 \/ \E sz \in LineSizes : JustFilled(sz))
  <2>1. SUFFICES /\ IF ends[k - 1] <= len THEN to = ends[k - 1] ELSE to >= len /\ to <= ends[k - 1]
                 /\ k = next + 1 \/ \E sz \in LineSizes : JustFilled(sz)
    BY <1>1, <1>2, <1>4, <1>14 DEF OnBorder
  <2>2. CASE Complete(l, to)
    <3>1. /\ to <= len /\ IF Whole(next) THEN to >= ends[next] ELSE to = len
          /\ to > ends[next] =>
               /\ \E sz \in LineSizes : JustFilled(sz)
               /\ next < n =>
                    to <= ends[next + 1] /\ (IF Whole(next + 1) THEN to = ends[next + 1] ELSE to = len)
      BY <1>3, <1>4, <2>2 DEF Complete
    <3>2. CASE k = next + 1
      <4>1. k - 1 = next
        BY <1>6, <3>2
      <4>2. k > n => next = n
        BY <1>6, <3>2
      <4>3. Whole(next) => to = ends[next]
        <5>1. CASE k > n
          <6>1. Whole(next) => len <= ends[next] /\ to >= ends[next] /\ to <= len
            BY <1>9, <3>1, <4>2, <5>1
          <6>. QED  BY <1>7, <6>1
        <5>2. CASE ~(k > n)
          <6>1. ends[k - 1] >= to
            BY <1>2, <1>3, <5>2
          <6>2. ends[next] >= to
            BY <4>1, <6>1
          <6>3. Whole(next) => to >= ends[next]
            BY <3>1
          <6>4. to \in Nat /\ ends[next] \in Nat
            BY <1>7
          <6>. QED  BY <6>2, <6>3, <6>4
        <5>. QED  BY <5>1, <5>2
      <4>4. ~Whole(next) => to = len
        BY <3>1
      <4>5. ends[next] \in Nat /\ (Whole(next) <=> ends[next] <= len)
        BY <1>7
      <4>6. ~Whole(next) => to >= len /\ to <= ends[next]
        BY <4>4, <4>5
      <4>. QED  BY <3>2, <4>1, <4>3, <4>5, <4>6
    <3>3. CASE k # next + 1
      <4>1. next + 1 \in next + 1 .. k - 1 /\ (next + 1) - 1 = next
        BY <1>6, <3>3
      <4>2. ends[next] < to
        BY <1>2, <4>1
      <4>3. next < n
        <5>1. next = n => len <= ends[next]
          BY <1>9
        <5>. QED  BY <1>6, <1>7, <3>1, <4>2, <5>1
      <4>4. ends[next + 1] \in Nat
        <5>1. next + 1 \in 1 .. Len(records)
          BY <1>3, <1>6, <4>3
        <5>. QED  BY <5>1, StreamTypes
      <4>5. k = next + 2
        <5>1. k # next + 2 => next + 2 \in next + 1 .. k - 1 /\ (next + 2) - 1 = next + 1
          <6>1. next \in Int /\ k \in Int /\ k >= next + 1
            BY <1>6
          <6>2. k >= next + 2
            BY <3>3, <6>1
          <6>. QED  BY <6>1, <6>2
        <5>2. k # next + 2 => ends[next + 1] < to
          BY <1>2, <5>1
        <5>. QED  BY <3>1, <4>2, <4>3, <4>4, <5>2
      <4>6. k - 1 = next + 1
        BY <1>6, <4>5
      <4>7. Whole(next + 1) <=> ends[next + 1] <= len
        BY <1>4 DEF Whole
      <4>. QED  BY <3>1, <4>2, <4>3, <4>4, <4>6, <4>7
    <3>. QED  BY <3>2, <3>3
  <2>3. CASE l = <<>> /\ to >= Len(bytes) /\ to < ends[next] /\ ~Whole(next)
    <3>1. k = next + 1
      <4>1. k # next + 1 => next + 1 \in next + 1 .. k - 1 /\ (next + 1) - 1 = next
        BY <1>6
      <4>2. k # next + 1 => ends[next] < to
        BY <1>2, <4>1
      <4>. QED  BY <1>7, <2>3, <4>2
    <3>2. k - 1 = next
      BY <1>6, <3>1
    <3>. QED  BY <1>4, <1>7, <2>3, <3>1, <3>2
  <2>. QED  BY <2>2, <2>3
<1>16. answer'.of = next /\ answer'.value = l
  BY <1>1 DEF Answered
<1>17. Restored'
  <2>1. PICK u \in Seq(0 .. B - 1) : u = records[next].value
    BY <1>6, LineAt
  <2>2. Len(u) = m /\ \A j \in 1 .. m : p + j <= len => bytes[p + j] = u[j]
    BY <1>4, <1>5, <1>6, <1>8, <2>1, LineAt
  <2>3. IF Whole(next) THEN u \in Prefixes(l) ELSE l \in Prefixes(u)
    <3>1. CASE Complete(l, to)
      <4>1. /\ to = p + Len(l) /\ to <= len /\ IF Whole(next) THEN to >= ends[next] ELSE to = len
            /\ \A j \in 1 .. Len(l) : l[j] = bytes[p + j]
        BY <1>4, <1>5, <3>1 DEF Complete
      <4>2. \A j \in 1 .. Len(l) : j <= m => l[j] = u[j]
        <5> TAKE j \in 1 .. Len(l)
        <5>1. p + j <= len
          BY <1>6, <4>1
        <5>2. l[j] = bytes[p + j]
          BY <4>1
        <5>3. j <= m => j \in 1 .. m
          BY <1>6
        <5>4. j <= m => bytes[p + j] = u[j]
          BY <2>2, <5>1, <5>3
        <5>. QED  BY <5>2, <5>4
      <4>3. CASE Whole(next)
        <5>1. m <= Len(l)
          BY <1>6, <1>8, <4>1, <4>3
        <5>2. \A j \in 1 .. m : u[j] = l[j]
          BY <1>6, <4>2, <5>1
        <5>. QED  BY <1>6, <2>1, <2>2, <4>3, <5>1, <5>2, PrefixIs
      <4>4. CASE ~Whole(next)
        <5>1. Len(l) <= m
          BY <1>4, <1>6, <1>7, <1>8, <4>1, <4>4
        <5>2. \A j \in 1 .. Len(l) : l[j] = u[j]
          BY <1>6, <4>2, <5>1
        <5>. QED  BY <1>6, <2>1, <2>2, <4>4, <5>1, <5>2, PrefixIs
      <4>. QED  BY <4>3, <4>4
    <3>2. CASE l = <<>> /\ ~Whole(next)
      <4>1. Len(l) = 0
        BY <3>2
      <4>2. l \in Prefixes(u)
        <5>1. Len(l) <= Len(u) /\ \A j \in 1 .. Len(l) : l[j] = u[j]
          BY <2>2, <4>1
        <5>. QED  BY <2>1, <5>1, PrefixIs
      <4>. QED  BY <3>2, <4>2
    <3>. QED  BY <3>1, <3>2
  <2>. QED  BY <1>1, <1>16, <2>1, <2>3 DEF Restored, Whole, Prefixes
<1>18. LineFits'
  <2>1. Len(l) + (IF st.nul THEN 1 ELSE 0) <= size'
    OBVIOUS
  <2>2. line' = l
    OBVIOUS
  <2>. QED  BY <1>1, <1>15, <1>16, <2>1, <2>2 DEF LineFits, JustFilled
<1>. QED  BY <1>1, <1>10, <1>12, <1>13, <1>15, <1>17, <1>18 DEF StreamInv

\* Where st_getc is a function of the stream, st_gets counts the byte that ends
\* the string.
LEMMA NulCounted == ASSUME StreamInv, st.getc PROVE st.nul
<1>1. st \in {Stdio, Zlib, ZlibNg, Iobuf, Unsupported}
  BY DEF StreamInv, StreamTypeOK
<1>2. Stdio.nul /\ Zlib.nul /\ Unsupported.nul
  BY DEF Stdio, Zlib, Unsupported
<1>3. ZlibNg.nul
  BY DEF ZlibNg, Zlib
<1>4. ~Iobuf.getc
  BY DEF Iobuf
<1>. QED  BY <1>1, <1>2, <1>3, <1>4

LEMMA GetLineKeeps == ASSUME StreamInv, NEW sz \in LineSizes, GetLine(sz) PROVE StreamInv'
<1>1. /\ mode = "read" /\ phase = "idle" /\ next <= Len(records) /\ records[next].kind = "line"
      /\ JustFilled(sz) /\ next < Len(records) => records[next + 1].kind = "line"
      /\ line' \in Gets(place, Most(sz)) /\ size' = sz /\ place' = place + Len(line')
      /\ IF Len(line') < sz - 1 THEN LineEnds(line', place')
                                ELSE phase' = "getc" /\ UNCHANGED <<next, answer>>
      /\ UNCHANGED <<mode, st, written>>
  BY DEF GetLine, Expects
<1>2. PICK k \in Nat \ {0}, m \in Nat \ {0} :
        k = Most(sz) /\ m = sz - 1 /\ k = IF st.nul THEN m ELSE m + 1
  BY StreamAssumption DEF Most
<1>3. sz \in Nat /\ sz = m + 1 /\ 0 < m /\ m <= k /\ k <= m + 1 /\ (st.getc => k = m)
  BY <1>2, StreamAssumption, NulCounted
<1>4. next \in 1 .. Len(records) /\ place \in Nat /\ Len(bytes) \in Nat /\ Len(records) \in Nat
  BY <1>1, StreamTypes
<1>5. PICK p \in Nat : p = PlaceOf(next)
  BY <1>4, StreamTypes
<1>6. PICK v \in Seq(0 .. B - 1) : v = records[next].value
  BY <1>1, <1>4, LineAt
<1>7. /\ Len(v) \in Nat \ {0} /\ ends[next] = p + Len(v)
      /\ \A j \in 1 .. Len(v) :
           p + j <= Len(bytes) => bytes[p + j] = v[j] /\ (bytes[p + j] = NewLine <=> j = Len(v))
  BY <1>1, <1>4, <1>5, <1>6, LineAt
<1>8. PICK l : l = line'
  OBVIOUS
<1>9. PICK i \in 0 .. k : l = Delivered(place, i)
  BY <1>1, <1>2, <1>8 DEF Gets
<1>10. /\ l = Delivered(place, Len(l)) /\ Len(l) <= k
       /\ \A j \in 1 .. Len(l) - 1 : l[j] # NewLine
       /\ Len(l) = Len(Delivered(place, k)) \/ (l # <<>> /\ l[Len(l)] = NewLine)
  BY <1>1, <1>2, <1>8 DEF Gets, Got
<1>11. StreamTypeOK
  BY DEF StreamInv
<1>12. /\ l \in Seq(0 .. B - 1) /\ Len(l) \in Nat
       /\ \A j \in 1 .. Len(l) : l[j] = bytes[place + j]
       /\ Len(l) = IF place + i <= Len(bytes) THEN i
                   ELSE IF place <= Len(bytes) THEN Len(bytes) - place ELSE 0
  <2>1. PICK d : d = Delivered(place, i)
    OBVIOUS
  <2>2. i \in Nat
    OBVIOUS
  <2>3. /\ d \in Seq(0 .. B - 1)
        /\ Len(d) = IF place + i <= Len(bytes) THEN i
                    ELSE IF place <= Len(bytes) THEN Len(bytes) - place ELSE 0
        /\ \A j \in 1 .. Len(d) : d[j] = bytes[place + j]
    <3>1. /\ Delivered(place, i) \in Seq(0 .. B - 1)
          /\ Len(Delivered(place, i)) = IF place + i <= Len(bytes) THEN i
                                        ELSE IF place <= Len(bytes) THEN Len(bytes) - place ELSE 0
          /\ \A j \in 1 .. Len(Delivered(place, i)) : Delivered(place, i)[j] = bytes[place + j]
      BY <1>4, <1>11, <2>2, DeliveredIs
    <3>. QED  BY <2>1, <3>1
  <2>4. l = d
    BY <1>9, <2>1
  <2>5. Len(d) \in Nat
    BY <2>3
  <2>. QED  BY <2>3, <2>4, <2>5
<1>13. Len(Delivered(place, k)) = IF place + k <= Len(bytes) THEN k
                                  ELSE IF place <= Len(bytes) THEN Len(bytes) - place ELSE 0
  BY <1>4, <1>11, DeliveredIs
<1>14. IF p <= Len(bytes) THEN place = p ELSE place >= Len(bytes) /\ place <= p
  BY <1>1, <1>4, <1>5 DEF StreamInv, OnBorder
<1>15. CASE p <= Len(bytes)
  <2>1. place = p /\ p + Len(l) <= Len(bytes)
    BY <1>4, <1>12, <1>14, <1>15
  <2>2. \A j \in 1 .. Len(l) : j \in 1 .. Len(v) => l[j] = v[j] /\ (l[j] = NewLine <=> j = Len(v))
    <3> TAKE j \in 1 .. Len(l)
    <3>1. p + j <= Len(bytes)
      BY <1>4, <1>12, <2>1
    <3>. QED  BY <1>7, <1>12, <2>1, <3>1
  <2>3. Len(l) <= Len(v)
    <3> SUFFICES ASSUME Len(l) > Len(v) PROVE FALSE
      BY <1>7, <1>12
    <3>1. Len(v) \in 1 .. Len(l) - 1 /\ Len(v) \in 1 .. Len(l) /\ Len(v) \in 1 .. Len(v)
      BY <1>7, <1>12
    <3>2. l[Len(v)] = NewLine
      BY <2>2, <3>1
    <3>. QED  BY <1>10, <3>1, <3>2
  <2>4. l # <<>> /\ l[Len(l)] = NewLine => Len(l) = Len(v)
    <3> SUFFICES ASSUME l # <<>>, l[Len(l)] = NewLine PROVE Len(l) = Len(v)
      OBVIOUS
    <3>1. Len(l) \in 1 .. Len(l) /\ Len(l) \in 1 .. Len(v)
      BY <1>7, <1>12, <2>3
    <3>. QED  BY <2>2, <3>1
  <2>5. CASE Len(l) < m
    <3>1. LineEnds(l, place')
      BY <1>1, <1>2, <1>8, <2>5
    <3>2. place' = p + Len(l)
      BY <1>1, <1>8, <2>1
    <3>3. IF Whole(next) THEN place' >= ends[next] ELSE place' = Len(bytes)
      <4>1. Len(l) = Len(v) \/ p + Len(l) = Len(bytes)
        BY <1>3, <1>4, <1>7, <1>10, <1>12, <1>13, <2>1, <2>4, <2>5
      <4>2. Whole(next) <=> p + Len(v) <= Len(bytes)
        BY <1>7 DEF Whole
      <4>. QED  BY <1>4, <1>7, <1>12, <2>1, <2>3, <3>2, <4>1, <4>2
    <3>4. ~(place' > ends[next])
      BY <1>7, <1>12, <2>3, <3>2
    <3>5. Complete(l, place')
      BY <1>5, <1>12, <2>1, <3>2, <3>3, <3>4 DEF Complete
    <3>6. place' \in Nat /\ size' \in Nat /\ Len(l) < size'
      BY <1>1, <1>3, <1>12, <2>5, <3>2
    <3>. QED  BY <1>1, <1>8, <1>12, <3>1, <3>5, <3>6, LineEndsKeeps
  <2>6. CASE ~(Len(l) < m)
    <3>1. /\ phase' = "getc" /\ next' = next /\ answer' = answer /\ mode' = mode /\ hook' = hook
          /\ st' = st /\ bytes' = bytes /\ records' = records /\ ends' = ends
          /\ line' = l /\ size' = sz /\ place' = p + Len(l)
      BY <1>1, <1>2, <1>8, <2>1, <2>6 DEF written
    <3>2. Len(l) <= k /\ m <= Len(l) /\ (st.getc => Len(l) = m)
      BY <1>3, <1>10, <1>12, <2>6
    <3>3. StreamTypeOK'
      BY <1>3, <1>12, <3>1 DEF StreamInv, StreamTypeOK
    <3>4. \A j : PlaceOf(j)' = PlaceOf(j)
      BY <3>1 DEF PlaceOf
    <3>5. Stored'
      BY <3>1, <3>4 DEF StreamInv, Stored, Lies, Whole
    <3>6. Unread' /\ OnBorder'
      BY <1>1, <3>1 DEF Unread, OnBorder
    <3>7. PlaceOf(next)' = p
      BY <1>5, <3>1 DEF PlaceOf
    <3>8. l # <<>>
      BY <1>3, <3>2
    <3>9. st.getc /\ p + Len(l) >= ends[next] =>
            /\ JustFilled(sz)
            /\ next < Len(records) => records[next + 1].kind = "line" /\ p + Len(l) < ends[next + 1]
      <4> SUFFICES ASSUME st.getc, p + Len(l) >= ends[next]
                   PROVE  /\ JustFilled(sz)
                          /\ next < Len(records) =>
                               records[next + 1].kind = "line" /\ p + Len(l) < ends[next + 1]
        OBVIOUS
      <4>1. Len(l) = Len(v)
        BY <1>7, <1>12, <2>3
      <4>2. JustFilled(sz)
        BY <1>2, <1>6, <3>2, <4>1 DEF JustFilled
      <4>3. ASSUME next < Len(records) PROVE p + Len(l) < ends[next + 1]
        <5>1. next + 1 \in 1 .. Len(records)
          BY <1>4, <4>3
        <5>2. /\ Len(Code(records[next + 1])) \in Nat \ {0}
              /\ ends[next + 1] = PlaceOf(next + 1) + Len(Code(records[next + 1]))
          BY <5>1, RecordAt
        <5>3. PlaceOf(next + 1) = ends[next]
          BY <1>4, StreamTypes
        <5>. QED  BY <1>7, <4>1, <5>2, <5>3
      <4>. QED  BY <1>1, <4>2, <4>3
    <3>10. InALine'
      BY <1>1, <1>12, <2>1, <3>1, <3>7, <3>8, <3>9 DEF InALine, JustFilled
    <3>11. Restored'
      BY <3>1 DEF StreamInv, Restored, Whole
    <3>12. LineFits'
      <4>1. Len(l) + (IF st.nul THEN 1 ELSE 0) <= sz
        BY <1>2, <1>3, <1>12, <3>2
      <4>. QED  BY <3>1, <4>1 DEF LineFits
    <3>. QED  BY <3>1, <3>3, <3>5, <3>6, <3>10, <3>11, <3>12 DEF StreamInv
  <2>. QED  BY <2>5, <2>6
<1>16. CASE ~(p <= Len(bytes))
  <2>1. Len(l) = 0
    BY <1>4, <1>12, <1>14, <1>16
  <2>2. l = <<>> /\ place' = place
    <3>1. l = <<>>
      BY <1>12, <2>1
    <3>2. place' = place + Len(l)
      BY <1>1, <1>8
    <3>. QED  BY <1>4, <2>1, <3>1, <3>2
  <2>3. LineEnds(l, place')
    <3>1. Len(line') < sz - 1
      BY <1>3, <1>8, <2>1
    <3>2. LineEnds(line', place')
      BY <1>1, <3>1
    <3>. QED  BY <1>8, <3>2
  <2>4. place' >= Len(bytes) /\ place' < ends[next] /\ ~Whole(next)
    BY <1>4, <1>7, <1>14, <1>16, <2>2 DEF Whole
  <2>5. place' \in Nat /\ size' \in Nat /\ Len(l) < size'
    BY <1>1, <1>3, <1>4, <2>1, <2>2
  <2>. QED  BY <1>1, <1>8, <1>12, <2>2, <2>3, <2>4, <2>5, LineEndsKeeps
<1>. QED  BY <1>15, <1>16

LEMMA GrownIs ==
  ASSUME StreamInv, phase = "getc"
  PROVE  /\ Grown \in Nat /\ Len(line) + (IF st.nul THEN 1 ELSE 0) <= Grown
         /\ st.getc => Len(line) + 1 < Grown
<1>1. line # <<>> /\ line \in Seq(0 .. B - 1) /\ size \in Nat
  BY DEF StreamInv, InALine, StreamTypeOK
<1>2. Len(line) + (IF st.nul THEN 1 ELSE 0) <= size
  BY <1>1 DEF StreamInv, LineFits
<1>3. Len(line) \in Nat \ {0} /\ (st.getc => Len(line) < size)
  <2>1. Len(line) \in Nat \ {0}
    BY <1>1
  <2>2. st.getc => st.nul
    BY NulCounted
  <2>. QED  BY <1>1, <1>2, <2>1, <2>2
<1>. QED  BY <1>1, <1>2, <1>3 DEF Grown

LEMMA GetcKeeps == ASSUME StreamInv, Getc PROVE StreamInv'
<1>1. /\ phase = "getc" /\ st.getc /\ size' = Grown /\ UNCHANGED <<mode, st, written>>
      /\ IF AtItsEnd
         THEN LineEnds(line, place) /\ UNCHANGED <<place, line>>
         ELSE /\ place' = place + 1 /\ line' = Append(line, bytes[place + 1])
              /\ IF bytes[place + 1] = NewLine THEN LineEnds(line', place')
                                               ELSE UNCHANGED <<phase, next, answer>>
  BY DEF Getc
<1>2. /\ next <= Len(records) /\ records[next].kind = "line" /\ line # <<>> /\ mode = "read"
      /\ place = PlaceOf(next) + Len(line) /\ place <= Len(bytes)
      /\ \A j \in 1 .. Len(line) : line[j] = bytes[PlaceOf(next) + j]
      /\ place >= ends[next] =>
           /\ \E sz \in LineSizes : JustFilled(sz)
           /\ next < Len(records) => records[next + 1].kind = "line" /\ place < ends[next + 1]
  BY <1>1 DEF StreamInv, InALine
<1>3. /\ next \in 1 .. Len(records) /\ place \in Nat /\ Len(bytes) \in Nat /\ Len(records) \in Nat
      /\ line \in Seq(0 .. B - 1) /\ Len(line) \in Nat /\ bytes \in Seq(0 .. B - 1)
  BY <1>2, StreamTypes
<1>4. PICK p \in Nat : p = PlaceOf(next)
  BY <1>3, StreamTypes
<1>5. PICK v \in Seq(0 .. B - 1) : v = records[next].value
  BY <1>2, <1>3, LineAt
<1>6. /\ Len(v) \in Nat \ {0} /\ ends[next] = p + Len(v)
      /\ \A j \in 1 .. Len(v) :
           p + j <= Len(bytes) => (bytes[p + j] = NewLine <=> j = Len(v))
  BY <1>2, <1>3, <1>4, <1>5, LineAt
<1>7. Grown \in Nat /\ Len(line) + 1 < Grown
  BY <1>1, GrownIs
<1>8. place = p + Len(line)
  BY <1>2, <1>4
<1>9. next = Len(records) => Len(bytes) <= ends[next]
  <2>1. Len(bytes) <= PlaceOf(Len(records) + 1)
    BY DEF StreamInv, Stored
  <2>2. PlaceOf(next + 1) = ends[next]
    BY <1>3, StreamTypes
  <2>. QED  BY <2>1, <2>2
<1>10. ASSUME next < Len(records)
       PROVE  /\ next + 1 \in 1 .. Len(records) /\ ends[next + 1] \in Nat
              /\ records[next + 1].kind = "line" =>
                   \A a \in ends[next] + 1 .. ends[next + 1] :
                     a <= Len(bytes) => (bytes[a] = NewLine <=> a = ends[next + 1])
  <2>1. next + 1 \in 1 .. Len(records)
    BY <1>3, <1>10
  <2>2. PlaceOf(next + 1) = ends[next] /\ ends[next + 1] \in Nat
    BY <1>3, <2>1, StreamTypes
  <2>3. PICK e \in Nat : e = ends[next]
    BY <1>6
  <2>4. ASSUME records[next + 1].kind = "line", NEW a \in e + 1 .. ends[next + 1], a <= Len(bytes)
        PROVE  bytes[a] = NewLine <=> a = ends[next + 1]
    <3>1. PICK w \in Nat : w = Len(records[next + 1].value)
      BY <2>1, <2>4, LineAt
    <3>2. /\ ends[next + 1] = e + w
          /\ \A j \in 1 .. w : e + j <= Len(bytes) => (bytes[e + j] = NewLine <=> j = w)
      <4>1. /\ ends[next + 1] = PlaceOf(next + 1) + Len(records[next + 1].value)
            /\ \A j \in 1 .. Len(records[next + 1].value) :
                 PlaceOf(next + 1) + j <= Len(bytes) =>
                   (bytes[PlaceOf(next + 1) + j] = NewLine <=> j = Len(records[next + 1].value))
        BY <2>1, <2>4, LineAt
      <4>2. PlaceOf(next + 1) = e
        BY <2>2, <2>3
      <4>. QED  BY <3>1, <4>1, <4>2, Zenon
    <3>3. PICK j \in 1 .. w : a = e + j
      <4>1. PICK m \in Int : m = ends[next + 1]
        BY <2>2
      <4>2. a \in e + 1 .. m /\ m = e + w
        BY <3>2, <4>1
      <4>3. ASSUME NEW x \in Nat, NEW y \in Int, NEW z \in Nat, NEW b \in x + 1 .. y, y = x + z
            PROVE  \E j \in 1 .. z : b = x + j
        <5>1. b - x \in 1 .. z /\ b = x + (b - x)
          BY <4>3
        <5>. QED  BY <5>1
      <4>. QED  BY <4>2, <4>3
    <3>4. e + j <= Len(bytes)
      BY <2>4, <3>3
    <3>5. bytes[e + j] = NewLine <=> j = w
      BY <3>2, <3>4
    <3>6. j = w <=> a = ends[next + 1]
      BY <2>3, <3>2, <3>3
    <3>. QED  BY <3>3, <3>5, <3>6
  <2>. QED  BY <2>1, <2>2, <2>3, <2>4
<1>11. CASE AtItsEnd
  <2>1. place = Len(bytes) /\ place' = place /\ line' = line /\ LineEnds(line, place)
    BY <1>1, <1>2, <1>3, <1>11 DEF AtItsEnd
  <2>2. Whole(next) => place >= ends[next]
    BY <2>1 DEF Whole
  <2>3. place > ends[next] =>
          /\ \E sz \in LineSizes : JustFilled(sz)
          /\ next < Len(records) =>
               /\ place <= ends[next + 1]
               /\ IF Whole(next + 1) THEN place = ends[next + 1] ELSE place = Len(bytes)
    <3> SUFFICES ASSUME place > ends[next]
                 PROVE  /\ \E sz \in LineSizes : JustFilled(sz)
                        /\ next < Len(records) =>
                             /\ place <= ends[next + 1]
                             /\ IF Whole(next + 1) THEN place = ends[next + 1] ELSE place = Len(bytes)
      OBVIOUS
    <3>1. place >= ends[next]
      BY <1>3, <1>6
    <3>2. ASSUME next < Len(records) PROVE place <= ends[next + 1] /\ ~Whole(next + 1)
      BY <1>2, <1>3, <1>10, <2>1, <3>1, <3>2 DEF Whole
    <3>. QED  BY <1>2, <2>1, <3>1, <3>2
  <2>4. Complete(line, place)
    BY <1>2, <2>1, <2>2, <2>3 DEF Complete
  <2>5. size' \in Nat /\ Len(line) < size'
    BY <1>1, <1>3, <1>7
  <2>. QED  BY <1>1, <1>2, <1>3, <2>1, <2>4, <2>5, LineEndsKeeps
<1>12. CASE ~AtItsEnd
  <2>1. place + 1 <= Len(bytes) /\ place + 1 \in Nat
    BY <1>3, <1>12 DEF AtItsEnd
  <2>2. PICK c : c = bytes[place + 1]
    OBVIOUS
  <2>3. PICK l : l = Append(line, c)
    OBVIOUS
  <2>4. c \in 0 .. B - 1
    <3>1. place + 1 \in 1 .. Len(bytes)
      BY <1>3, <2>1
    <3>2. bytes[place + 1] \in 0 .. B - 1
      <4>1. ASSUME NEW S, NEW s \in Seq(S), NEW i \in 1 .. Len(s) PROVE s[i] \in S
        BY <4>1
      <4>. QED  BY <1>3, <3>1, <4>1
    <3>. QED  BY <2>2, <3>2
  <2>5. /\ l \in Seq(0 .. B - 1) /\ Len(l) = Len(line) + 1 /\ l[Len(line) + 1] = c
        /\ \A j \in 1 .. Len(line) : l[j] = line[j]
    BY <1>3, <2>3, <2>4
  <2>6. place' = place + 1 /\ line' = l /\ place + 1 = p + Len(l)
    BY <1>1, <1>3, <1>8, <1>12, <2>2, <2>3, <2>5
  <2>7. \A j \in 1 .. Len(l) : l[j] = bytes[PlaceOf(next) + j]
    <3> TAKE j \in 1 .. Len(l)
    <3>1. CASE j = Len(line) + 1
      <4>1. PlaceOf(next) + j = place + 1
        BY <1>3, <1>4, <1>8, <3>1
      <4>. QED  BY <2>2, <2>5, <3>1, <4>1
    <3>2. CASE j # Len(line) + 1
      <4>1. j \in 1 .. Len(line)
        BY <1>3, <2>5, <3>2
      <4>. QED  BY <1>2, <2>5, <4>1
    <3>. QED  BY <3>1, <3>2
  <2>8. place < ends[next] => (c = NewLine <=> place + 1 = ends[next])
    <3> SUFFICES ASSUME place < ends[next] PROVE c = NewLine <=> place + 1 = ends[next]
      OBVIOUS
    <3>1. Len(l) \in 1 .. Len(v)
      BY <1>3, <1>6, <1>8, <2>5
    <3>2. bytes[p + Len(l)] = NewLine <=> Len(l) = Len(v)
      BY <1>6, <2>1, <2>6, <3>1
    <3>3. Len(l) = Len(v) <=> place + 1 = ends[next]
      BY <1>3, <1>4, <1>6, <2>5, <2>6
    <3>4. bytes[p + Len(l)] = c
      BY <2>2, <2>6
    <3>. QED  BY <3>2, <3>3, <3>4
  <2>9. ASSUME place >= ends[next]
        PROVE  /\ \E sz \in LineSizes : JustFilled(sz)
               /\ next < Len(records) /\ records[next + 1].kind = "line"
               /\ place + 1 <= ends[next + 1] /\ (c = NewLine <=> place + 1 = ends[next + 1])
    <3>1. next < Len(records)
      BY <1>3, <1>6, <1>9, <2>1, <2>9
    <3>2. records[next + 1].kind = "line" /\ place < ends[next + 1] /\ \E sz \in LineSizes : JustFilled(sz)
      BY <1>2, <2>9, <3>1
    <3>3. place + 1 \in ends[next] + 1 .. ends[next + 1]
      BY <1>3, <1>6, <1>10, <2>9, <3>1, <3>2
    <3>4. c = NewLine <=> place + 1 = ends[next + 1]
      BY <1>10, <2>1, <2>2, <3>1, <3>2, <3>3
    <3>. QED  BY <1>3, <1>10, <3>1, <3>2, <3>4
  <2>10. CASE c = NewLine
    <3>1. LineEnds(l, place + 1)
      BY <1>1, <1>12, <2>2, <2>3, <2>6, <2>10
    <3>2. place + 1 >= ends[next]
      BY <1>3, <1>6, <2>8, <2>10
    <3>3. IF Whole(next) THEN place + 1 >= ends[next] ELSE place + 1 = Len(bytes)
      BY <1>3, <1>6, <2>1, <3>2 DEF Whole
    <3>4. ASSUME place + 1 > ends[next]
          PROVE  /\ \E sz \in LineSizes : JustFilled(sz)
                 /\ place + 1 = ends[next + 1] /\ Whole(next + 1)
      <4>1. place >= ends[next]
        BY <1>3, <1>6, <3>4
      <4>. QED  BY <2>1, <2>9, <2>10, <4>1 DEF Whole
    <3>5. Complete(l, place + 1)
      BY <1>4, <2>1, <2>6, <2>7, <3>3, <3>4 DEF Complete
    <3>6. size' \in Nat /\ Len(l) < size'
      BY <1>1, <1>7, <2>5
    <3>. QED  BY <1>1, <1>2, <2>1, <2>5, <2>6, <3>1, <3>5, <3>6, LineEndsKeeps
  <2>11. CASE c # NewLine
    <3>1. /\ phase' = "getc" /\ next' = next /\ answer' = answer /\ mode' = mode /\ hook' = hook
          /\ st' = st /\ bytes' = bytes /\ records' = records /\ ends' = ends
          /\ line' = l /\ size' = Grown /\ place' = place + 1
      BY <1>1, <1>12, <2>2, <2>6, <2>11 DEF written
    <3>2. StreamTypeOK'
      BY <1>7, <2>1, <2>5, <3>1 DEF StreamInv, StreamTypeOK
    <3>3. \A j : PlaceOf(j)' = PlaceOf(j)
      BY <3>1 DEF PlaceOf
    <3>4. Stored'
      BY <3>1, <3>3 DEF StreamInv, Stored, Lies, Whole
    <3>5. Unread' /\ OnBorder'
      BY <1>2, <3>1 DEF Unread, OnBorder
    <3>6. PlaceOf(next)' = PlaceOf(next) /\ PlaceOf(next) = p
      BY <1>4, <3>1 DEF PlaceOf
    <3>7. ASSUME place + 1 >= ends[next]
          PROVE  /\ \E sz \in LineSizes : JustFilled(sz)
                 /\ next < Len(records) =>
                      records[next + 1].kind = "line" /\ place + 1 < ends[next + 1]
      <4>1. place >= ends[next]
        BY <1>3, <1>6, <2>8, <2>11, <3>7
      <4>2. /\ \E sz \in LineSizes : JustFilled(sz)
            /\ next < Len(records) /\ records[next + 1].kind = "line"
            /\ place + 1 <= ends[next + 1] /\ place + 1 # ends[next + 1]
        BY <2>9, <2>11, <4>1
      <4>3. ends[next + 1] \in Nat
        BY <1>10, <4>2
      <4>. QED  BY <2>1, <4>2, <4>3
    <3>8. l # <<>>
      BY <1>3, <2>5
    <3>9. InALine'
      BY <1>2, <2>1, <2>6, <2>7, <3>1, <3>6, <3>7, <3>8 DEF InALine, JustFilled
    <3>10. Restored'
      BY <3>1 DEF StreamInv, Restored, Whole
    <3>11. LineFits'
      BY <1>7, <2>5, <3>1 DEF LineFits
    <3>. QED  BY <3>1, <3>2, <3>4, <3>5, <3>9, <3>10, <3>11 DEF StreamInv
  <2>. QED  BY <2>10, <2>11
<1>. QED  BY <1>11, <1>12

LEMMA GetcDiesKeeps == ASSUME StreamInv, GetcDies PROVE StreamInv'
<1>1. /\ phase = "getc" /\ mode' = "died" /\ phase' = "idle" /\ size' = Grown /\ answer' = None
      /\ st' = st /\ hook' = hook /\ bytes' = bytes /\ records' = records /\ ends' = ends
      /\ place' = place /\ next' = next /\ line' = line
  BY DEF GetcDies, written
<1>2. Grown \in Nat /\ Len(line) + (IF st.nul THEN 1 ELSE 0) <= Grown
  BY <1>1, GrownIs, StreamTypes
<1>3. StreamTypeOK'
  BY <1>1, <1>2 DEF StreamInv, StreamTypeOK
<1>4. \A j : PlaceOf(j)' = PlaceOf(j)
  BY <1>1 DEF PlaceOf
<1>5. Stored'
  BY <1>1, <1>4 DEF StreamInv, Stored, Lies, Whole
<1>6. Unread' /\ OnBorder' /\ InALine'
  BY <1>1 DEF Unread, OnBorder, InALine, None
<1>7. Restored' /\ LineFits'
  <2>1. answer'.of = 0
    BY <1>1 DEF None, Answered
  <2>. QED  BY <1>1, <1>2, <2>1 DEF Restored, LineFits
<1>. QED  BY <1>1, <1>3, <1>5, <1>6, <1>7 DEF StreamInv

-----------------------------------------------------------------------------
LEMMA StartsStreamInv == ASSUME StreamInit PROVE StreamInv
<1>1. /\ bytes = <<>> /\ records = <<>> /\ ends = <<>> /\ place = 0 /\ next = 1 /\ answer = None
      /\ phase = "idle" /\ line = <<>> /\ size = 0 /\ hook = FALSE /\ mode \in {"died", "write"}
  BY DEF StreamInit
<1>2. st \in {Stdio, Zlib, ZlibNg, Iobuf, Unsupported}
  <2>1. PICK x \in Suffixes : st = Driver(GuessType(x))
    BY DEF StreamInit
  <2>2. x \in {"gz", "zst", "ngz", "other"}
    BY StreamAssumption
  <2>3. GuessType(x) \in {"STDIO", "GZIO", "GZIO_NG", "ZSTDIO"}
    BY <2>2 DEF GuessType
  <2>4. ASSUME NEW y \in {"STDIO", "GZIO", "GZIO_NG", "ZSTDIO"}
        PROVE  Driver(y) \in {Stdio, Zlib, ZlibNg, Iobuf, Unsupported}
    BY DEF Driver
  <2>. QED  BY <2>1, <2>3, <2>4
<1>3. StreamTypeOK
  <2>1. /\ bytes \in Seq(0 .. B - 1) /\ Len(ends) = Len(records) /\ DOMAIN records = {}
        /\ line \in Seq(0 .. B - 1) /\ Len(records) = 0
    BY <1>1
  <2>2. /\ mode \in {"write", "read", "closed", "died"} /\ hook \in BOOLEAN /\ place \in Nat
        /\ phase \in {"idle", "getc"} /\ size \in Nat
    BY <1>1
  <2>3. next \in 1 .. Len(records) + 1
    BY <1>1, <2>1
  <2>. QED  BY <1>2, <2>1, <2>2, <2>3 DEF StreamTypeOK
<1>4. PlaceOf(1) = 0
  BY DEF PlaceOf
<1>5. Stored
  BY <1>1, <1>4 DEF Stored
<1>6. Unread /\ OnBorder /\ InALine
  BY <1>1 DEF Unread, OnBorder, InALine
<1>7. Restored /\ LineFits
  <2>1. answer.of = 0
    BY <1>1 DEF None, Answered
  <2>. QED  BY <1>1, <2>1 DEF Restored, LineFits
<1>. QED  BY <1>1, <1>3, <1>5, <1>6, <1>7 DEF StreamInv

LEMMA NextStreamInv == ~LongPrints /\ StreamInv /\ [StreamNext]_streamVars => StreamInv'
<1> SUFFICES ASSUME ~LongPrints, StreamInv, [StreamNext]_streamVars PROVE StreamInv'
  OBVIOUS
<1>1. ASSUME NEW b \in BOOLEAN, SetHook(b) PROVE StreamInv'
  BY <1>1, StoppedKeeps DEF SetHook
<1>2. ASSUME NEW v \in Ints, StoreUint32(v) PROVE StreamInv'
  BY <1>2, StoreUint32Keeps
<1>3. ASSUME NEW v \in Ints, NEW k \in {1, 2, 4}, WriteInt(v, k) PROVE StreamInv'
  BY <1>3, WriteIntKeeps
<1>4. ASSUME NEW t \in Texts, PrintLine(t) PROVE StreamInv'
  BY <1>4, PrintLineKeeps
<1>5. ASSUME NEW t \in Texts, NEW bits \in SizeBits, StoreBuf(t, bits) \/ StoreBufInBuf(t, bits)
      PROVE  StreamInv'
  BY <1>5, StoreBufKeeps
<1>6. CASE OpenFails
  <2>1. hook' \in BOOLEAN
    BY <1>6 DEF OpenFails, written, StreamInv, StreamTypeOK
  <2>. QED  BY <1>6, <2>1, StoppedKeeps DEF OpenFails, written
<1>7. CASE UNCHANGED streamVars
  <2>1. hook' \in BOOLEAN
    BY <1>7 DEF streamVars, written, StreamInv, StreamTypeOK
  <2>. QED  BY <1>7, <2>1, StoppedKeeps DEF streamVars, written
<1>. QED  BY <1>1, <1>2, <1>3, <1>4, <1>5, <1>6, <1>7, ReopenKeeps, ReadIntKeeps, RestoreUint32Keeps,
             RestoreBufKeeps, RestoreSkipKeeps, GetLineKeeps, GetcKeeps, GetcDiesKeeps, SeekBackKeeps
          DEF StreamNext

\* The invariant of a stream: what was written lies in it, between the borders
\* of the records, and a reader stands on such a border, or in a line; if no
\* line is too long for the buffer of n_stream_vprintf.
THEOREM StreamInvariant ==
  ASSUME ~LongPrints
  PROVE  StreamSpec => []StreamInv
<1>1. StreamInit => StreamInv
  BY StartsStreamInv
<1>2. StreamInv /\ [StreamNext]_streamVars => StreamInv'
  BY NextStreamInv
<1>. QED  BY <1>1, <1>2, PTL DEF StreamSpec

LEMMA InvRoundTrip == StreamInv => RoundTrip
<1> SUFFICES ASSUME StreamInv PROVE StreamTypeOK /\ InStep /\ Restored
  BY DEF RoundTrip
<1>1. ASSUME mode = "read", phase = "idle", next > 1, Whole(next - 1) PROVE place = ends[next - 1]
  <2>1. PlaceOf(next) = ends[next - 1]
    BY <1>1, StreamTypes DEF PlaceOf
  <2>. QED  BY <1>1, <2>1 DEF StreamInv, OnBorder, Whole
<1>. QED  BY <1>1 DEF StreamInv, InStep

\* What n_buf_store, n_store_uint32, n_stream_write_uint and n_stream_printf
\* wrote is what n_buf_restore, n_restore_uint32, n_stream_read_uint and
\* n_stream_getline answer, whatever is skipped (n_buf_restore_skip) or read
\* again between, for texts of any length, lines shorter than the buffer of
\* n_stream_vprintf and a byte of any width; of a record that was cut off they
\* answer nothing, or a beginning of it.
THEOREM StreamRoundTrip ==
  ASSUME ~LongPrints
  PROVE  StreamSpec => []RoundTrip
<1>. QED  BY StreamInvariant, InvRoundTrip, PTL

\* n_stream_getline puts no byte of a line behind its buffer, which grows while
\* st_getc delivers the rest; the byte that ends the string has room there too,
\* unless the stream is an n_iobuf and the line fills the buffer.  It reads one
\* line, but for one that just fills the buffer.
THEOREM StreamLineFits ==
  ASSUME ~LongPrints
  PROVE  StreamSpec => []LineFits
<1>1. StreamInv => LineFits
  BY DEF StreamInv
<1>. QED  BY <1>1, StreamInvariant, PTL
=============================================================================
