------------------------------ MODULE NStream ------------------------------
(***************************************************************************)
(* nstream.c and nstream.h, nstore.c, and the storing and restoring of     *)
(* nbuf.c: records are written to a stream one after another, the stream   *)
(* may be cut short, and its records are read or skipped in their order.   *)
(*                                                                         *)
(* A byte is a number below B, so that UINT8_MAX is B - 1 and UINT16_MAX   *)
(* is B * B - 1.  The stream below (stdio, zlib, zlib-ng, n_iobuf) is      *)
(* chosen by the name of the file; what it is called for is external: it   *)
(* delivers what was written up to its end.                                *)
(*                                                                         *)
(* An operator called Bug... is the operator defined after it with a       *)
(* mistake the code might have had; no action uses it.                     *)
(***************************************************************************)
EXTENDS Integers, Sequences

CONSTANTS
  B, NewLine,    \* bytes are below B; one ends a line
  Ints,          \* the numbers stored
  Texts,         \* the texts of buffers, and of lines: sequences of bytes, their
                 \* lengths an int
  LineSizes,     \* the sizes of the buffers given to n_stream_getline
  PrintSize,     \* the size of the buffer of n_stream_vprintf, 32768
  LongPrints,    \* callers print what does not fit that buffer
  Suffixes,      \* of the names of the files: "gz", "zst", "ngz", "other"
  Libs,          \* what the library is built with: "zlib", "zlib-ng"
  MaxRecords     \* bound: the records written

ASSUME StreamAssumption ==
  /\ B \in Nat /\ B > 2 /\ NewLine \in 1 .. B - 1 /\ Ints \subseteq 0 .. B * B * B * B - 1
  /\ Texts \subseteq Seq(0 .. B - 1) /\ \A t \in Texts : Len(t) < (B * B * B * B) \div 2
  /\ LineSizes \subseteq Nat \ {0, 1} /\ MaxRecords \in Nat
  /\ PrintSize \in Nat \ {0} /\ LongPrints \in BOOLEAN
  /\ Suffixes \subseteq {"gz", "zst", "ngz", "other"} /\ Libs \subseteq {"zlib", "zlib-ng"}

VARIABLES
  mode,          \* "write", "read", "closed" if it does not open, or "died"
  st,            \* the functions of the stream, st_getc, st_seek and others
  hook,          \* there is a _write_hook, which tells n_stream_write to fake
  bytes,         \* of the stream
  records, ends, \* what was written, and where each record ends
  place,         \* the place in the stream that is read
  next,          \* the record that a reader expects there
  answer,        \* of the last call
  phase, line, size \* where n_stream_getline is, its buf and size

written    == <<hook, bytes, records, ends>>
getline    == <<phase, line, size>>
streamVars == <<mode, st, written, place, next, answer, getline>>

\* The record an answer is about, if it is one, and what it says of it.
Answered(of, ok, value) == [of |-> of, ok |-> ok, value |-> value]
None == Answered(0, FALSE, <<>>)

Uint8Max  == B - 1
Uint16Max == B * B - 1
Uint32Max == B * B * B * B - 1
Int16Max  == (B * B) \div 2 - 1
Int32Max  == (B * B * B * B) \div 2 - 1

Smaller(a, b) == IF a <= b THEN a ELSE b

Kinds == {"int", "uint32", "buf", "line"}
Item(kind, width, value) == [kind |-> kind, width |-> width, value |-> value]

(***************************************************************************)
(* The streams below                                                       *)
(***************************************************************************)
\* n_stream_guess_type: what n_stream_open is told of the type is not used.
GuessType(suffix) ==
  CASE suffix = "gz"  -> "GZIO"
    [] suffix = "zst" -> "ZSTDIO"
    [] suffix = "ngz" -> IF "zlib-ng" \in Libs THEN "GZIO_NG" ELSE "GZIO"
    [] suffix = "other" -> "STDIO"

\* getc: whether st_getc is a function of that stream; n_iobuf has none, and
\* getc of stdio is called with it.  seek: what st_seek answers when all is
\* well; zlib's answer, a place, is made 0.  nul: whether the size given to
\* st_gets counts the byte that ends the string.
Stdio  == [name |-> "stdio", getc |-> TRUE, seek |-> 0, nul |-> TRUE]
Zlib   == [name |-> "zlib", getc |-> TRUE, seek |-> 0, nul |-> TRUE]
ZlibNg == [Zlib EXCEPT !.name = "zlib-ng"]
Iobuf  == [name |-> "iobuf", getc |-> FALSE, seek |-> 1, nul |-> FALSE]
Unsupported == [name |-> "none", getc |-> FALSE, seek |-> 0, nul |-> TRUE]

Driver(type) ==
  CASE type = "STDIO"   -> Stdio
    [] type = "GZIO"    -> IF "zlib" \in Libs THEN Zlib
                           ELSE IF "zlib-ng" \in Libs THEN ZlibNg ELSE Unsupported
    [] type = "GZIO_NG" -> ZlibNg
    [] type = "ZSTDIO"  -> Iobuf

StreamTypeOK ==
  /\ mode \in {"write", "read", "closed", "died"} /\ hook \in BOOLEAN
  /\ st \in {Stdio, Zlib, ZlibNg, Iobuf, Unsupported}
  /\ bytes \in Seq(0 .. B - 1) /\ Len(ends) = Len(records)
  /\ \A i \in DOMAIN records : records[i].kind \in Kinds
  /\ place \in Nat /\ next \in 1 .. Len(records) + 1
  /\ phase \in {"idle", "getc"} /\ line \in Seq(0 .. B - 1) /\ size \in Nat

StreamInit ==
  /\ st \in {Driver(GuessType(x)) : x \in Suffixes}
  /\ mode = IF st = Unsupported THEN "died" ELSE "write"
  /\ hook = FALSE /\ bytes = <<>> /\ records = <<>> /\ ends = <<>>
  /\ place = 0 /\ next = 1 /\ answer = None
  /\ phase = "idle" /\ line = <<>> /\ size = 0

(***************************************************************************)
(* Writing                                                                 *)
(***************************************************************************)
\* The bytes of a number of 1, 2 or 4, in network order; more of it is cut off.
BugHton16(v) == <<v % B, (v \div B) % B>>
Hton16(v)    == <<(v \div B) % B, v % B>>
Hton32(v)    == Hton16((v \div B) \div B) \o Hton16(v)

Encode(v, k) == CASE k = 1 -> <<v % B>> [] k = 2 -> Hton16(v) [] k = 4 -> Hton32(v)

Ntoh16(t) == t[1] * B + t[2]
Ntoh32(t) == (Ntoh16(t) * B + t[3]) * B + t[4]

Decode(t) == CASE Len(t) = 1 -> t[1] [] Len(t) = 2 -> Ntoh16(t) [] Len(t) = 4 -> Ntoh32(t)

\* n_store_uint32: a flag, and as many bytes as the number takes.
Flag(v)    == IF v < Uint8Max THEN 0 ELSE IF v < Uint16Max THEN 1 ELSE 2
Width(flag) == CASE flag = 0 -> 1 [] flag = 1 -> 2 [] flag = 2 -> 4

Uint32(v) == <<Flag(v)>> \o Encode(v, Width(Flag(v)))

\* The size of a buffer is stored as its sizebits say.
SizeBits == {0, 8, 16, 32}
SizeBytes(n, bits) ==
  CASE bits = 0  -> Uint32(n)
    [] bits = 16 -> Encode(n, 2)
    [] bits = 32 -> Encode(n, 4)

\* n_stream_write: a hook may have it write nothing, and succeed.  It is asked
\* at each write, the flag or size of a record and its value apart, and decides
\* alike for all of them here: nothing is left of the record then.
\* n_stream_printf does not ask the hook.
Append1(item, t) ==
  /\ bytes' = bytes \o t /\ records' = Append(records, item)
  /\ ends' = Append(ends, Len(bytes) + Len(t))

Put(item, t) == IF hook THEN UNCHANGED <<bytes, records, ends>> ELSE Append1(item, t)

CanWrite == mode = "write" /\ Len(records) < MaxRecords

SetHook(b) ==
  /\ mode = "write" /\ hook # b /\ hook' = b
  /\ UNCHANGED <<mode, st, bytes, records, ends, place, next, answer, getline>>

\* n_stream_write_uint8, _uint16, _uint32
MaxOf(k) == CASE k = 1 -> Uint8Max [] k = 2 -> Uint16Max [] k = 4 -> Uint32Max

WriteInt(v, k) ==
  /\ CanWrite /\ v <= MaxOf(k) /\ Put(Item("int", k, v), Encode(v, k))
  /\ UNCHANGED <<mode, st, hook, place, next, answer, getline>>

StoreUint32(v) ==
  /\ CanWrite /\ Put(Item("uint32", 0, v), Uint32(v))
  /\ UNCHANGED <<mode, st, hook, place, next, answer, getline>>

\* n_buf_store; a size of 8 bits is not supported, and a text may be too
\* long for 16, or for 32.
Fits(n, bits) == bits # 8 /\ (bits = 16 => n < Int16Max) /\ (bits = 32 => n < Int32Max)

StoreBuf(t, bits) ==
  /\ CanWrite
  /\ IF Fits(Len(t), bits)
     THEN Put(Item("buf", bits, t), SizeBytes(Len(t), bits) \o t) /\ UNCHANGED mode
     ELSE mode' = "died" /\ UNCHANGED <<bytes, records, ends>>
  /\ UNCHANGED <<st, hook, place, next, answer, getline>>

\* n_buf_store_buf: the same bytes are added to another buffer, which is then
\* written to the stream as it is; it has no form of its own for the size.
StoreBufInBuf(t, bits) ==
  /\ CanWrite
  /\ IF bits # 0 /\ Fits(Len(t), bits)
     THEN Put(Item("buf", bits, t), SizeBytes(Len(t), bits) \o t) /\ UNCHANGED mode
     ELSE mode' = "died" /\ UNCHANGED <<bytes, records, ends>>
  /\ UNCHANGED <<st, hook, place, next, answer, getline>>

\* n_stream_printf of a line.  Of one that does not fit, its buffer has a
\* beginning, and what lies behind the buffer is written up to the length the
\* line would have had.
Nul == 0
Printed(l) ==
  IF Len(l) < PrintSize THEN {l}
  ELSE {SubSeq(l, 1, PrintSize - 1) \o <<Nul>> \o junk :
          junk \in [1 .. Len(l) - PrintSize -> 0 .. B - 1]}

PrintLine(t) ==
  LET l == Append(t, NewLine) IN
  /\ CanWrite /\ \A i \in DOMAIN t : t[i] \notin {NewLine, Nul}
  /\ LongPrints \/ Len(l) < PrintSize
  /\ \E p \in Printed(l) : Append1(Item("line", 0, l), p)
  /\ UNCHANGED <<mode, st, hook, place, next, answer, getline>>

\* The stream is closed and opened to be read: all of it is there, or the
\* writer crashed and it was cut.
Reopen ==
  /\ mode = "write" /\ mode' = "read"
  /\ \E k \in 0 .. Len(bytes) : bytes' = SubSeq(bytes, 1, k)
  /\ UNCHANGED <<st, hook, records, ends, place, next, answer, getline>>

\* st_open answers NULL, and so does n_stream_open.
OpenFails ==
  /\ mode = "write" /\ mode' = "closed"
  /\ UNCHANGED <<st, written, place, next, answer, getline>>

(***************************************************************************)
(* Reading                                                                 *)
(***************************************************************************)
\* The bytes that st_read delivers from a place on, and the place after them.
Delivered(from, k) == SubSeq(bytes, from + 1, Smaller(from + k, Len(bytes)))
After(from, k) == from + Len(Delivered(from, k))
Full(from, k)  == Len(Delivered(from, k)) = k

\* A number of k bytes, and the place after it; it is 0 if they are not all
\* there.
Number(from, k) ==
  [value |-> IF Full(from, k) THEN Decode(Delivered(from, k)) ELSE 0, place |-> After(from, k)]

\* n_restore_uint32; it answers 0 in any case.
RestoredUint32(from) ==
  IF Full(from, 1) THEN Number(from + 1, Width(bytes[from + 1]))
                   ELSE [value |-> 0, place |-> After(from, 1)]

RestoredSize(from, bits) ==
  CASE bits = 0  -> RestoredUint32(from)
    [] bits = 16 -> Number(from, 2)
    [] bits = 32 -> Number(from, 4)

\* A reader reads the records in the order they were written.
Expects(kind) == mode = "read" /\ phase = "idle" /\ next <= Len(records) /\ records[next].kind = kind

Answer(ok, value) == answer' = Answered(next, ok, value)
Advance(to)   == place' = to /\ next' = next + 1

\* n_stream_seek to the place n_stream_tell gave when record i was next.
PlaceOf(i) == IF i = 1 THEN 0 ELSE ends[i - 1]

SeekAnswer == answer' = Answered(0, TRUE, st.seek)

SeekBack(i) ==
  /\ mode = "read" /\ phase = "idle" /\ i < next /\ PlaceOf(i) <= Len(bytes)
  /\ place' = PlaceOf(i) /\ next' = i /\ SeekAnswer
  /\ UNCHANGED <<mode, st, written, getline>>

\* n_stream_read_uint8, _uint16, _uint32
ReadInt ==
  /\ Expects("int")
  /\ LET k == records[next].width
     IN  /\ Advance(After(place, k))
         /\ Answer(Full(place, k), Number(place, k).value)
  /\ UNCHANGED <<mode, st, written, getline>>

RestoreUint32 ==
  /\ Expects("uint32")
  /\ Advance(RestoredUint32(place).place) /\ Answer(TRUE, RestoredUint32(place).value)
  /\ UNCHANGED <<mode, st, written, getline>>

\* n_buf_restore_ex
RestoreBuf ==
  /\ Expects("buf")
  /\ LET sz == RestoredSize(place, records[next].width)
     IN  /\ Advance(After(sz.place, sz.value))
         /\ Answer(Full(sz.place, sz.value), Delivered(sz.place, sz.value))
  /\ UNCHANGED <<mode, st, written, getline>>

\* n_buf_restore_skip, which goes past the end of a stream that was cut.
BugSkipped(sz) == place + sz.value
Skipped(sz)    == sz.place + sz.value

RestoreSkip ==
  /\ Expects("buf")
  /\ Advance(Skipped(RestoredSize(place, records[next].width)))
  /\ SeekAnswer
  /\ UNCHANGED <<mode, st, written, getline>>

(***************************************************************************)
(* n_stream_getline                                                        *)
(***************************************************************************)
\* What st_gets reads at most: n_iobuf_gets fills all the room it is given, and
\* ends the string behind it.
BugMost(sz) == sz
Most(sz)    == IF st.nul THEN sz - 1 ELSE sz

\* st_gets: up to a newline, or k bytes.
Got(l, from, k) ==
  /\ l = Delivered(from, Len(l)) /\ Len(l) <= k
  /\ \A i \in 1 .. Len(l) - 1 : l[i] # NewLine
  /\ Len(l) = Len(Delivered(from, k)) \/ (l # <<>> /\ l[Len(l)] = NewLine)

Gets(from, k) == {l \in {Delivered(from, i) : i \in 0 .. k} : Got(l, from, k)}

\* What is expected next is the first record that begins there or behind.
LineEnds(l, to) ==
  /\ Answer(TRUE, l) /\ phase' = "idle"
  /\ \E k \in next + 1 .. Len(records) + 1 :
       /\ k > Len(records) \/ ends[k - 1] >= to
       /\ \A i \in next + 1 .. k - 1 : ends[i - 1] < to
       /\ next' = k

\* The buffer that a line just fills is not looked at for its newline: the
\* next line, if it is one, is read as well.
JustFilled(sz) == Len(records[next].value) = sz - 1

GetLine(sz) ==
  /\ Expects("line")
  /\ JustFilled(sz) /\ next < Len(records) => records[next + 1].kind = "line"
  /\ line' \in Gets(place, Most(sz)) /\ size' = sz /\ place' = place + Len(line')
  /\ IF Len(line') < sz - 1 THEN LineEnds(line', place')
                            ELSE phase' = "getc" /\ UNCHANGED <<next, answer>>
  /\ UNCHANGED <<mode, st, written>>

\* st_getc; the buffer grows when it has room for the byte that ends the
\* string only.
BugGrown == IF Len(line) = size THEN size * 2 ELSE size
Grown    == IF Len(line) = size - 1 THEN size * 2 ELSE size

\* (What getc of stdio makes of an n_iobuf is not defined; the program is
\* taken to end.)
GetcDies ==
  /\ phase = "getc" /\ ~st.getc
  /\ mode' = "died" /\ phase' = "idle" /\ size' = Grown /\ answer' = None
  /\ UNCHANGED <<st, written, place, next, line>>

AtItsEnd == place >= Len(bytes)

Getc ==
  /\ phase = "getc" /\ st.getc /\ size' = Grown
  /\ IF AtItsEnd
     THEN LineEnds(line, place) /\ UNCHANGED <<place, line>>
     ELSE /\ place' = place + 1 /\ line' = Append(line, bytes[place + 1])
          /\ IF bytes[place + 1] = NewLine THEN LineEnds(line', place')
                                         ELSE UNCHANGED <<phase, next, answer>>
  /\ UNCHANGED <<mode, st, written>>

(***************************************************************************)
StreamNext ==
  \/ \E b \in BOOLEAN : SetHook(b)
  \/ \E v \in Ints : StoreUint32(v) \/ \E k \in {1, 2, 4} : WriteInt(v, k)
  \/ \E t \in Texts : PrintLine(t) \/ \E bits \in SizeBits : StoreBuf(t, bits) \/ StoreBufInBuf(t, bits)
  \/ Reopen \/ OpenFails \/ ReadInt \/ RestoreUint32 \/ RestoreBuf \/ RestoreSkip
  \/ \E sz \in LineSizes : GetLine(sz)
  \/ Getc \/ GetcDies
  \/ \E i \in 1 .. MaxRecords : SeekBack(i)

StreamSpec == StreamInit /\ [][StreamNext]_streamVars

(***************************************************************************)
(* What is checked                                                         *)
(***************************************************************************)
\* A reader stays in step with what was written, whether it restores or
\* skips, and gets what was stored: of a record that was cut it gets nothing,
\* or a beginning of it, and never other bytes.
Whole(i) == ends[i] <= Len(bytes)

Prefixes(t) == {SubSeq(t, 1, k) : k \in 0 .. Len(t)}

InStep == mode = "read" /\ phase = "idle" /\ next > 1 /\ Whole(next - 1) => place = ends[next - 1]

Restored ==
  answer.of # 0 =>
    LET r == records[answer.of]
        v == answer.value
    IN  CASE r.kind = "line" ->
               IF Whole(answer.of) THEN r.value \in Prefixes(v) ELSE v \in Prefixes(r.value)
          [] r.kind # "line" /\ Whole(answer.of) -> answer.ok /\ v = r.value
          [] r.kind = "buf" /\ ~Whole(answer.of) -> answer.ok => v = <<>>
          [] OTHER -> answer.ok => v = 0

RoundTrip == StreamTypeOK /\ InStep /\ Restored

\* The buffer of a line has room for it, and but for an n_iobuf, which may end
\* it one byte behind the buffer, for the byte that ends the string; more than
\* one line is read only if the first just fills the buffer.
LineFits ==
  /\ line # <<>> => Len(line) + (IF st.nul THEN 1 ELSE 0) <= size
  /\ phase = "idle" /\ answer.of # 0 /\ records[answer.of].kind = "line" =>
       next = answer.of + 1 \/ \E sz \in LineSizes : Len(records[answer.of].value) = sz - 1
=============================================================================
