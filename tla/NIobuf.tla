------------------------------- MODULE NIobuf -------------------------------
(***************************************************************************)
(* niobuf.c and niobuf_zstd.c: a buffered stream over a compressed file.   *)
(*                                                                         *)
(* A byte of the stream stands for one unit of compressed data, which the  *)
(* compressor and the decompressor (external) hold back as they like, so   *)
(* that input and output of them do not move in step: that is what the     *)
(* loops here are about.  Bytes are named by their place in the stream.    *)
(*                                                                         *)
(* An operator called Bug... is the operator defined after it with a       *)
(* mistake the code might have had; no action uses it.                     *)
(***************************************************************************)
EXTENDS Integers

CONSTANTS
  BufSize,     \* st->bufsize, in units
  SkipSize,    \* sizeof(skipbuf)
  Sizes,       \* the sizes callers read and write
  EndOfLine,   \* the places at which a caller writes a newline
  MaxFile      \* bound: no call that writes more is made

ASSUME IobufAssumption ==
  /\ BufSize \in Nat \ {0} /\ SkipSize \in Nat \ {0} /\ MaxFile \in Nat
  /\ Sizes \subseteq Nat /\ EndOfLine \subseteq Nat

VARIABLES
  file, disk, ended,   \* the units given to the FILE, those on the disk, and
                       \* whether the end of the frame was written
  acc,                 \* what the compressor was given
  fpos, taken, out,    \* units read from the FILE, consumed by the
                       \* decompressor, and put out by it
  pos, seek,           \* iobuf->pos and iobuf->seek
  left, want, got,     \* seek in n_iobuf_real_seek, output.size and output.pos
  count,               \* n in n_iobuf_getx
  pc, req, res         \* the loop that runs, the call and its answer

reader == <<fpos, taken, out>>
loop   == <<left, want, got, count>>
vars   == <<file, disk, ended, acc, reader, pos, seek, loop, pc, req, res>>

NoCall      == [op |-> "none", n |-> 0]
Bytes(p, k) == <<"bytes", p, k>>
Count(k)    == <<"count", k>>
Sought(off, whence) == <<"sought", off, whence>>
Nothing     == <<"nothing">>
EOF         == -1

Min2(a, b) == IF a <= b THEN a ELSE b

Loops == {"writing", "flushing", "flushed", "skipping", "reading"}

TypeOK ==
  /\ file \in Nat /\ disk \in 0 .. file /\ ended \in BOOLEAN /\ acc \in Nat
  /\ fpos \in 0 .. file /\ taken \in 0 .. fpos /\ out \in 0 .. taken
  /\ pos \in Nat /\ seek \in Int /\ left \in Nat /\ count \in Nat
  /\ want \in Nat /\ got \in 0 .. want
  /\ pc \in {"closed", "write", "read"} \cup Loops
  /\ req \in [op : {"none", "write", "flush", "close", "read", "gets"}, n : Nat]

Init ==
  /\ file = 0 /\ disk = 0 /\ ended = FALSE /\ acc = 0
  /\ fpos = 0 /\ taken = 0 /\ out = 0 /\ pos = 0 /\ seek = 0
  /\ left = 0 /\ want = 0 /\ got = 0 /\ count = 0
  /\ pc = "closed" /\ req = NoCall /\ res = Nothing

Return(to, answer) == pc' = to /\ req' = NoCall /\ res' = answer

(***************************************************************************)
(* n_iobuf_open, n_iobuf_dopen                                             *)
(***************************************************************************)
\* zstd_new: a stream of the library, and a buffer of the size it asks for
NewState == fpos' = 0 /\ taken' = 0 /\ out' = 0

Open(m) ==
  /\ pc = "closed" /\ NewState /\ pos' = 0 /\ seek' = 0
  /\ IF m = "write" THEN file' = 0 /\ disk' = 0 /\ ended' = FALSE /\ acc' = 0
                    ELSE UNCHANGED <<file, disk, ended, acc>>
  /\ Return(m, Nothing)
  /\ UNCHANGED loop

(***************************************************************************)
(* Writing.  An iteration gives the compressor input, or asks it for what  *)
(* it holds back, and writes the output buffer to the FILE at once         *)
(* (reset_outbuf ... flush_outbuf).                                        *)
(***************************************************************************)
Output(k) == file' = file + k /\ UNCHANGED <<disk, ended, reader>>

Write(n) ==
  /\ pc = "write" /\ acc + n <= MaxFile
  /\ req' = [op |-> "write", n |-> n] /\ left' = n /\ pc' = "writing"
  /\ UNCHANGED <<file, disk, ended, acc, reader, pos, seek, want, got, count, res>>

\* ZSTD_compressStream takes some input, and puts out what it likes.
Compress ==
  /\ pc = "writing" /\ left > 0
  /\ \E c \in 0 .. left, k \in 0 .. BufSize :
       /\ c + k > 0 /\ file + k <= acc + c
       /\ acc' = acc + c /\ left' = left - c
       /\ Output(k)
  /\ UNCHANGED <<pos, seek, want, got, count, pc, req, res>>

WriteReturns ==
  /\ pc = "writing" /\ left = 0
  /\ pos' = pos + req.n
  /\ Return("write", Count(req.n))
  /\ UNCHANGED <<file, disk, ended, acc, reader, seek, loop>>

\* n_iobuf_flush and n_iobuf_close begin with zstd_flush; count is its nw.

BeginFlush(op) ==
  /\ pc = "write"
  /\ req' = [op |-> op, n |-> 0] /\ count' = 0 /\ pc' = "flushing"
  /\ UNCHANGED <<file, disk, ended, acc, reader, pos, seek, left, want, got, res>>

\* ZSTD_flushStream fills the buffer, and says whether more is held back.
FlushedAll(k) == acc = file + k

FlushStream ==
  /\ pc = "flushing"
  /\ LET k == Min2(BufSize, acc - file)
     IN  /\ Output(k) /\ count' = count + k
         /\ pc' = IF FlushedAll(k) THEN "flushed" ELSE "flushing"
  /\ UNCHANGED <<acc, pos, seek, left, want, got, req, res>>

\* fflush; the answer is 0 only if zstd_flush had nothing to write.
FlushReturns ==
  /\ pc = "flushed" /\ req.op = "flush"
  /\ disk' = file
  /\ Return("write", Count(IF count = 0 THEN 0 ELSE EOF))
  /\ UNCHANGED <<file, ended, acc, reader, pos, seek, loop>>

\* ZSTD_endStream is called once, and ends the frame if all fits.
CloseWriter ==
  /\ pc = "flushed" /\ req.op = "close"
  /\ LET k == Min2(BufSize, acc - file)
     IN  file' = file + k /\ disk' = file + k /\ ended' = (acc = file + k)
  /\ Return("closed", Nothing)
  /\ UNCHANGED <<acc, reader, pos, seek, loop>>

\* The writer crashes: what the FILE held back may be lost.
Crash ==
  /\ pc \in {"write", "writing", "flushing", "flushed"}
  /\ file' \in disk .. file /\ disk' = file' /\ acc' = file'
  /\ Return("closed", Nothing)
  /\ UNCHANGED <<ended, reader, pos, seek, loop>>

(***************************************************************************)
(* n_iobuf_seek only notes where to go; n_iobuf_tell is there already.     *)
(***************************************************************************)
\* SEEK_CUR counts from where a seek that is pending goes.
BugTarget(off, whence) == IF whence = "cur" THEN pos + off ELSE off
Target(off, whence)    == IF whence = "cur" THEN pos + seek + off ELSE off

\* A reader of a complete file goes to a place of it; n_iobuf_real_seek
\* loses its way behind the end.
Seek(off, whence) ==
  /\ pc = "read" /\ ended /\ Target(off, whence) \in 0 .. acc
  /\ seek' = Target(off, whence) - pos
  /\ Return(pc, Sought(off, whence))
  /\ UNCHANGED <<file, disk, ended, acc, reader, pos, loop>>

Tell ==
  /\ pc \in {"write", "read"}
  /\ Return(pc, Count(pos + seek))
  /\ UNCHANGED <<file, disk, ended, acc, reader, pos, seek, loop>>

(***************************************************************************)
(* n_iobuf_read, n_iobuf_gets, n_iobuf_getc: the pending seek first        *)
(* (n_iobuf_real_seek), which goes on from the start of the file when it   *)
(* has to go back.                                                         *)
(***************************************************************************)
\* n_iobuf_getx reads one byte at a time.
OneRead(r) == IF r.op = "gets" THEN Min2(1, r.n) ELSE r.n

\* io->read for k bytes.
StartRead(to, k) == pc' = to /\ want' = k /\ got' = 0

BugRewound == <<fpos, taken, out>>
Rewound    == <<0, 0, 0>>

Rewind ==
  /\ fpos' = Rewound[1] /\ taken' = Rewound[2] /\ out' = Rewound[3]
  /\ pos' = 0 /\ seek' = pos + seek

BeginRead(op, n) ==
  /\ pc = "read"
  /\ req' = [op |-> op, n |-> n] /\ count' = 0
  /\ IF seek < 0 THEN Rewind ELSE UNCHANGED <<reader, pos, seek>>
  /\ left' = seek'
  /\ IF seek' > 0 THEN StartRead("skipping", Min2(SkipSize, seek'))
                  ELSE StartRead("reading", OneRead(req'))
  /\ UNCHANGED <<file, disk, ended, acc, res>>

\* zstd_read: fill_inbuf when the input is consumed, then a call of
\* ZSTD_decompressStream, which consumes and puts out what it likes, but the
\* last unit of a complete frame only when nothing is left to put out.
AtEOF  == taken = fpos /\ fpos = file

BugFilled == IF taken = fpos THEN fpos + BufSize ELSE fpos
Filled    == IF taken = fpos THEN Min2(fpos + BufSize, file) ELSE fpos

Decompress ==
  /\ pc \in {"skipping", "reading"} /\ got < want /\ ~AtEOF
  /\ fpos' = Filled
  /\ taken' \in taken .. fpos'
  /\ \E k \in 0 .. want - got :
       /\ out + k <= taken' /\ (k > 0 \/ taken' > taken)
       /\ ended /\ taken' = file => out + k = taken'
       /\ out' = out + k /\ got' = got + k
  /\ UNCHANGED <<file, disk, ended, acc, pos, seek, left, want, count, pc, req, res>>

ReadEnds == got = want \/ AtEOF

\* A part of the way was skipped.
SkipsOn == got > 0 /\ left > got

SkipReturns ==
  /\ pc = "skipping" /\ ReadEnds
  /\ pos' = pos + got /\ left' = left - got
  /\ IF SkipsOn THEN StartRead("skipping", Min2(SkipSize, left - got)) /\ seek' = seek
     ELSE /\ StartRead("reading", OneRead(req))
          /\ seek' = IF got > 0 THEN 0 ELSE seek
  /\ UNCHANGED <<file, disk, ended, acc, reader, count, req, res>>

\* The byte that n_iobuf_getx just read does not end the line.
BugLineGoesOn == req.op = "gets" /\ pos \notin EndOfLine /\ count + got < req.n
LineGoesOn    == req.op = "gets" /\ got = 1 /\ pos \notin EndOfLine /\ count + 1 < req.n

ReadReturns ==
  /\ pc = "reading" /\ ReadEnds
  /\ pos' = pos + got /\ count' = count + got
  /\ IF LineGoesOn THEN StartRead("reading", 1) /\ UNCHANGED <<req, res>>
     ELSE /\ Return("read", Bytes(out - count', count'))
          /\ UNCHANGED <<want, got>>
  /\ UNCHANGED <<file, disk, ended, acc, reader, seek, left>>

CloseReader ==
  /\ pc = "read"
  /\ Return("closed", Nothing)
  /\ UNCHANGED <<file, disk, ended, acc, reader, pos, seek, loop>>

(***************************************************************************)
Calls ==
  \/ \E m \in {"write", "read"} : Open(m)
  \/ \E n \in Sizes : Write(n)
  \/ \E op \in {"flush", "close"} : BeginFlush(op)
  \/ \E off \in -2 .. MaxFile, whence \in {"set", "cur"} : Seek(off, whence)
  \/ Tell
  \/ \E op \in {"read", "gets"}, n \in Sizes : BeginRead(op, n)
  \/ CloseReader
  \/ Crash

Work ==
  \/ Compress \/ WriteReturns \/ FlushStream \/ FlushReturns \/ CloseWriter
  \/ Decompress \/ SkipReturns \/ ReadReturns

Next == Calls \/ Work
Spec == Init /\ [][Next]_vars

\* A call does not stop in the middle: nothing here waits.
FairSpec == Spec /\ WF_vars(Work)

(***************************************************************************)
(* What is checked                                                         *)
(***************************************************************************)
\* The iobuf implements the stream of IoFile: what is read is what was
\* written, from the place n_iobuf_tell says, in full up to the end of the
\* file or of the line, whatever the (de)compressor holds back; and a crash
\* leaves what was flushed.
Mode == CASE pc = "closed"                                       -> "closed"
          [] pc \in {"write", "writing", "flushing", "flushed"} -> "write"
          [] pc \in {"read", "skipping", "reading"}             -> "read"

Place == CASE pc = "skipping" -> pos + left
           [] pc = "reading"  -> pos - count
           [] OTHER           -> pos + seek

File == INSTANCE IoFile WITH mode <- Mode, size <- acc, safe <- disk, pos <- Place

IsAFile == File!Spec

\* The iobuf knows its place: pos is what the decompressor put out, even
\* between the reads of a seek or of a line.
AtItsPlace ==
  /\ pc = "read" => pos = out
  /\ pc \in {"skipping", "reading"} => pos + got = out
  /\ pc = "skipping" => left > 0 /\ want <= left /\ seek >= left
  /\ pc = "reading"  => count <= req.n

\* Every call comes back.
CallsReturn == []<>(pc \in {"closed", "write", "read"})
=============================================================================
