# trurlib in TLA+

trurlib is the C library of poldek: containers (hash tables, arrays, lists),
buffers, buffered streams over files and compressed files, allocators and
string helpers. It is sequential: it starts no thread, and every object belongs
to its caller. What is hard in it is not concurrency but invariants that must
survive long sequences of calls, loops that are half done, limits, a
compressor that moves at its own pace, files that were cut short, and failures
that are reported by a hook which may return.

## The parts of the system

| part | state | operations | what makes it correct |
|---|---|---|---|
| `n_oash` (noash.c) | table of slots (hash, psl, klen, index), array of dentries, three counters | insert, get_insert, replace, get, remove, clean, free, ctl, rehash, store/restore, walks | lookups end early and still find everything; no entry is lost or doubled by swaps, shifts and growth |
| `n_hash` (n_hash_*.c) | array of buckets with chains | the same, older; iterator | the same |
| `n_array` (n_array_*.c, narray.h) | block of pointers, `start_index`, `items`, `allocated`, flags | push, pop, shift, unshift, set_nth, remove, concat, sort, bsearch, uniq, eq, map | a double ended queue that stays in its block; the sorted flag tells the truth |
| `n_list` (n_list_*.c) | head, tail, count, flags | push, pop, shift, unshift, remove, contains, iterate | head, tail and count describe one chain; a list that owns its data frees each datum once |
| `n_buf` (nbuf.c, nbuf.h) | block, size, allocated, offset; an iterator | write, printf, seek, clean; get, gets | nothing is read that was not written; a string can be ended in place |
| `n_iobuf` (niobuf*.c) | position, pending seek, (de)compressor, file | read, gets, getc, write, seek, tell, flush, close | what is read is what was written, from the place tell says |
| `n_stream`, `nstore.c` | the functions of the stream below, a write hook | numbers, records, getline, seek; store/restore/skip | what is restored is what was stored, also from a stream that was cut |
| `n_alloc` (nmalloc.c, n_obj_ref.h) | reference count, table of interned strings | ref, free, alloc_str | memory lives as long as it is referred to |
| obstack (lib/obstack.*) | chain of chunks, growing object | grow, finish, alloc, free | objects stay apart and whole, any one can be freed |
| `n_tuple` (ntuple.c) and its sorts | a packed array of items | new, set_nth, sort, search | the first of equal items is found |
| tokenizers (nstr_tok*.c) | a cursor, a block of tokens, a parser state | next token, list of tokens | tokens and delimiters partition the string |
| string helpers (nstr*.c) | none | strip, dirname, concat, copy | what nstr.h says, in the memory given |

The parts interact by calls, from the top down: streams use I/O buffers or
zlib, serialisation writes buffers into streams, hash tables store themselves
through streams, `n_alloc` carves memory out of an obstack and interns strings
in an `n_oash` table that lives in that memory and holds a reference to it,
everything allocates through `nmalloc.c`. The other direction are callbacks:
`free_fn`, `dup_fn`, comparison functions, the functions that store and restore
one datum, the write hook of streams, the failure hooks of `nmalloc.c`,
`ndie.c` and `nassert.c`. A hook may return (the tests install one that does),
and the library then goes on. The models have these paths for `n_die` in
`n_array` and `n_buf`, and for the allocations that "What is not modelled" does
not list; elsewhere what the hook is told of ends the program.

Which behaviours are hard, part by part (`PROJECT.json` lists them at their
lines under "hazards"): half done loops over tables and chains; positions that
are relative to a start that moves; caches of a fact (`sorted`, a hash, a
count, a tail pointer, a pending seek) that every operation must keep or drop;
growth at a limit, and growth that fails; who frees a datum, and whether once;
input and output that do not move in step; a file that ends anywhere.

## Modules

| module | models | role |
|---|---|---|
| `KeyMap` | what a hash table promises | abstract specification |
| `Oash`, `NHash` | noash.c; n_hash_*.c | detailed, each implements `KeyMap` |
| `ItemSeq` | what a list or an array promises | abstract specification |
| `Subsequence` | | the items of a sequence at some of its positions, for `ItemSeq`, `NList` and `NArray` |
| `NList`, `NArray` | n_list_*.c; n_array_*.c, narray.h, the hook of ndie.c | detailed, each implements `ItemSeq` |
| `MemFile` | a file in memory | abstract specification |
| `NBuf` | nbuf.c, nbuf.h | detailed, implements `MemFile` |
| `IoFile` | a file that is written, may be cut by a crash, and read | abstract specification |
| `NIobuf` | niobuf.c, niobuf_zstd.c | detailed, implements `IoFile` |
| `NStream` | nstream.c, nstream.h, nstore.c, storing of nbuf.c | records in a stream |
| `ObjStack` | what an obstack promises | abstract specification |
| `NObstack` | lib/obstack.c, lib/obstack.h, its use in nmalloc.c | detailed, implements `ObjStack` |
| `NAlloc` | nmalloc.c, n_obj_ref.h, ntuple.c | an allocator and its users |
| `NSort` | the sorts of tuples, trurl_cmpf.c | operators, checked in `MCNAlloc` |
| `NTok` | nstr_tok.c, nstr_tokl.c | loops over one line |
| `NStr` | nstr.c, nstr_basenam.c, nstr_concat.c, nstr_len.c, nstr_cpy.c | operators, checked in `MCNTok` |
| `MC...` | | small instances for TLC |
| `OashProofs`, `NHashProofs`, `NListProofs`, `NArrayProofs`, `NAllocProofs`, `NBufProofs`, `NIobufProofs`, `NTokProofs` | | theorems |

All models follow the same lines. Keys and data are abstract values: the code
only hashes, compares, copies and frees them, so that a key is a hash, a length
and what comparisons say, and a datum is a name with an owner. There is one
thread, so that the model takes one call at a time; a loop whose intermediate
states must already satisfy the invariants, or in which something outside of
the library decides how far it gets, is taken one iteration per step, and what
the caller cannot tell apart is one step. Error paths that go through a hook
are a choice of the model (`CallocMayFail`, `MallocMayFail`, `Hooks`). The
hooks, `free_fn` and the comparison function are the program's, not the
library's: they are modelled by what the library requires of them (a free
function ends the datum's life, a comparison is a preorder, the hook of
`n_assert` does not return).

An operator called `Bug...` stands beside the operator it spoils and is used by
no action: each property has been seen to fail when one of them takes the place
of the original.

### KeyMap, ItemSeq, MemFile, IoFile and ObjStack

`KeyMap` is a partial map with one call in progress: the call takes effect
once, its answer is fixed then, and it may go on working before it returns.
`limit` says when a new key may be refused. `ItemSeq` is a sequence of data
with calls at both ends, by position and by comparison; `uniq`, `limit` and
`frozen` say which changes are refused, and `call` and `res` record the last
call and its answer, so that a refinement checks every answer. `MemFile` is a
text with a place to write and a place to read. `IoFile` is a file whose bytes
are named by their places: a write takes them some at a time, a crash keeps at
least what was flushed, a read is short only at the end of a complete file or
of a line. `MemFile` refuses a write only if it reaches the end of the text. `ObjStack` is a stack of objects with one growing on top.

### Oash

One action per iteration of each loop that walks or moves table entries, so
that invariants are stated of the tables *inside* the operations too.

| state | code |
|---|---|
| `cap`, `table`, `size` | `ht->cap`, `ht->table`, `ht->size` |
| `data`, `dsize` | `ht->data` with the dentries, `ht->dsize`; `ht->dcap` is always `cap` |
| `grows`, `norepl` | `TN_HASH_REHASH`, `TN_HASH_NOREPLACE` |
| `pc`, `req`, `res` | the loop that runs, the call, its answer |
| `index`, `np` | the walk of `ohash_get_entry` |
| `index`, `entry`, `re` | the walk of `n_oash_put_entry`, what it carries, where the new entry went |
| `ocap`, `old`, `oi` | `oldsize`, `oldtable`, `i` of `ohash_rehash` |
| `victim`, `hole` | `ee`, `iprev` of `n_oash_remove` |

A key is an abstract value with a hash, a length and a prefix relation
(`strncmp` over one key's length), because that is all the code looks at.
Strings, the hash function and the size of a dentry are left out. Calls that
grow a table beyond `MaxCap` are not made (a bound). `dsize` wraps modulo
`DsizeMod`, `psl` modulo `PslMod`. The walks (`n_oash_map`, `keys`, `values`,
`dump`, the iterator, the statistics) change nothing: they are operators, and
`WalksAgree` compares what each of them returns with the table and with the
others between calls.

### NHash

| state | code |
|---|---|
| `size`, `table`, `items` | `ht->size`, `ht->table` with each chain as a sequence, `ht->items` |
| `grows`, `norepl`, `na`, `refcnt` | the flags, whether there is an allocator, `_refcnt` |
| `owner` | who is to free a datum |
| `khash` | the hash argument of `n_hash_put`, 0 when it is to be computed |
| `old` | what `n_hash_rehash` has not moved, or `n_hash_dup` not copied yet |
| `it`, `seen` | `pos` and `bpos` of a `tn_hash_it`, and the keys it returned |

A key has a home slot and a shift; `Above` and `Below` are the two other slots
of `n_hash_get_bucket`, `n_hash_remove` and `find_free_slot`. The shift is an
integer: a negative one (the last character of a key may be negative) acts
below home exactly as the `uint32_t` sums of the code do. `Free` and `Dup` go
on with another table, as a program does. The walks and the statistics are
operators, as in `Oash`.

### NList

| state | code |
|---|---|
| `head`, `tail`, `size`, `refs` | the fields of `tn_list` |
| `next`, `data`, `live` | the nodes in memory, and which of them are allocated |
| `owner`, `frees` | who is to free a datum, whether `free_fn` is set |
| `key`, `prev`, `node`, `removed` | the locals of `n_list_remove_ex` |
| `it`, `due`, `seen` | an iterator, what it has to return and has returned |

Nodes are given out again after they are freed, so that a stale pointer may
point to another node's life; following a pointer to a node that is not live is
`pc = "fault"`.

### NArray

| state | code |
|---|---|
| `alloc`, `start`, `size`, `data` | `allocated`, `start_index`, `items`, `data` |
| `auto`, `const`, `frozen`, `sorted` | the flags, `sorted` is `TN_ARRAY_INTERNAL_ISSORTED` |
| `cmp` | `cmp_fn`, in one direction or the other |
| `hooked` | a hook is set that lets `n_die` return |
| `owner`, `frees` | as in NList |

Several functions of the array forget `start_index`. `Misuse` names what a
caller must avoid for that and similar reasons: with `Misuse = {}` the array is
a sequence. Without a hook a refused call ends the program and is no step of
the model; with one it returns, and `Die` is what it leaves. `Nth` is both the
function `n_array_nth` and the inline one that narray.h puts in its place: that
one goes on behind `n_die` and answers with what the cell holds. `SetCmp` is
`n_array_ctl_set_cmpfn` at any time, of a sorted array with items too, which is
why it drops `sorted`. Sorting is
modelled by its result (timsort is vendored), searching by the comparisons
`bsearch` makes: `Turn` is a turn of its loop, from one pair of bounds to the
next, and `Bsearch` a recursive function of these pairs.

### NBuf

| state | code |
|---|---|
| `data`, `allocated`, `size`, `off` | the fields of `tn_buf`; a byte nobody wrote is `Junk` |
| `owner`, `fixed`, `refs` | `TN_BUF_CONSTDATA` or no data, `TN_BUF_CONSTSIZE`, `_refcnt` |
| `offs` | `it->offs` |

A buffer starts from nothing, from a size, or over memory of the caller's. The
macros that write ints and strings are `Write` with their sizes. A caller seeks
inside the text. `Cleans` says whose buffers are cleaned: see below. Where the
code calls `n_die`, for a buffer of fixed size that should grow and for seeks
it does not know, the program ends (`Die`) or, with a hook, goes on.

### NIobuf

A byte of the stream stands for one unit of compressed data. The compressor
takes input and puts out units as it likes, never more than it was given; the
decompressor consumes input and puts out units as it likes, never more than it
consumed, and the last of a complete frame only when nothing is left to put
out, which is what zstd documents. Both, and stdio, are external.

| state | code |
|---|---|
| `file`, `disk`, `ended` | units given to the `FILE`, those a crash does not touch, whether the frame was ended |
| `acc` | what the compressor was given |
| `fpos`, `taken`, `out` | units read from the `FILE`, `inbuf.pos` over all chunks, units put out |
| `pos`, `seek` | the fields of `tn_iobuf` |
| `left`, `want`, `got`, `count` | `seek` of `n_iobuf_real_seek`, `output.size`, `output.pos`, `n` of `n_iobuf_getx` |

One step is one call of the (de)compressor. `Crash` may happen in any state of
a writer and leaves any file between `disk` and `file`. Seeks are made in
complete files, to a place of them: behind the end `n_iobuf_real_seek` gives up
with the seek still pending. `n_iobuf_flush` answers `EOF` whenever bytes were
written (niobuf.c:183 takes the count of bytes for an error), which is why
`IoFile` lets a flush answer either.

### NStream

Records (a number of one, two or four bytes, a number of variable width, a
buffer with its size in one of the forms of `sizebits`, a printed line) are
written; the stream is reopened whole or cut at any byte, and each record is
read, restored or skipped. `st` is the table of functions `n_stream_new`
fills in by the file's type; `hook` the write hook that fakes writes; `line`,
`size` the loop of `n_stream_getline` and `phase` where it is; `place` is the
place in the stream, `ends` the borders of the records. A byte is below `B`, so
that with `B = 4` the borders `UINT8_MAX`, `UINT16_MAX` and `UINT32_MAX` are 3,
15 and 255; `htons` and `htonl` are arithmetic on bytes. What is modelled of the
stream below (zlib, zlib-ng, stdio, `n_iobuf`) is that it delivers the bytes that
were written, up to its end; `gets` of `n_iobuf` takes the size it is given for
bytes only, where the others leave room for the NUL (`Most`, and `nul` of `st`).
A line is printed into a buffer of `PrintSize` first: one that does not fit it is
followed, for the bytes it has too many, by whatever lies behind (`Printed`); the
callers print such lines only if `LongPrints` says so. The write hook is asked
once a record, though the code asks it for the flag, or the size, and for the
value separately: a hook that changes its mind within a record is left out.
`StreamSpec` is the specification.

### NAlloc

`life`, `kind` and `refcnt` are an allocator; `held` is which users hold a
reference, `ht` and `strs` its table of strings. `Free` is `n_alloc_free` with
what it does to the table, whose own reference makes it call itself. `Mod8`
and `Mod16` are the widths of lengths and of the count, and of the assertions on
them. `tuple`, `trefs` and
the search (`l`, `r`, `idx`) are a tuple in the allocator's memory; its owner
frees it before the allocator. `NSort` has the quicksort and the insertion sort
of n_array_sorts.c as recursive operators.

### NObstack

Memory is one range of addresses; malloc may place a chunk anywhere it fits,
next to another one too. `chunks`, `base`, `next`, `limit`, `empty`, `failed`
are the fields of `struct obstack`; `objs` are the objects that were returned
and not freed; `state` is whether the allocator lives. `FreeFrom` is
`obstack_free` of one of them, `ObstackSpec` the specification.
Memory that is given back becomes `Junk`, so that an object that
lies there after all is no longer what was put in it. This obstack is built
where the C library has none (`HAVE_OBSTACK`).

### NTok and NStr

A character stands for its class and is named by its place in the line: a token
is a sequence of places, and the properties can say what became of every
character. One step is one turn of a loop of `n_str_tok`, `n_str_tokl_n`,
`lp_parse` or `n_str_etokl_ext`. `NStr` has the helpers as operators on memory,
together with what each of them promises; `HelpersRight` checks them for every
line `NTok` starts from.

## What the runs check

| run | what it shows | bounds |
|---|---|---|
| `oash_growing` | the inductive invariant of `Oash`, its walks, and that it is a `KeyMap`: a table that grows, data and `NULL`, all modes of put, stored and restored | 3 keys, 1 datum, 4 to 8 slots |
| `oash_nomem` | no answer is wrong when growth gets no memory; the inductive invariant on a table of 4 slots that fills up | 5 keys, one a prefix of another, 4 to 8 slots |
| `oash_clash` | a violation, see below | 4 keys, 4 slots |
| `hash` | the table, the memory, the iterator and the walks of `NHash`, and that it is a `KeyMap`, with and without memory to grow | 4 keys, 1 datum, 4 to 16 slots |
| `list` | the memory, the chain and the iterator of `NList`, that it is an `ItemSeq`, that its loops end | 3 nodes, 3 data, two of them equal |
| `array` | the memory and the sorted flag of `NArray`, `cmp_fn` changed at any time, and that it is an `ItemSeq`, with and without a hook | 3 data, two of them equal, 1 to 4 cells |
| `buf` | no byte is read that was not written, there is room behind the text, and `NBuf` is a `MemFile`, which refuses no write without need | 3 bytes, pieces of 0 to 2, texts up to 3 |
| `iobuf` | `NIobuf` knows its place, is an `IoFile`, and its calls return | buffers of 2 units, pieces of 0, 1 and 3, files up to 5 |
| `stream` | what is stored is restored, skipped in step, and cut without harm; lines fit their buffer | 2 records, bytes below 4, lines shorter than the 9 bytes of `PrintSize` |
| `alloc` | an allocator lives while it is held, strings are right, the search finds the first, both sorts sort | 5 users, 2 strings, tuples up to 4, of which 3 are let through; arrays up to 7 for the sorts |
| `obstack` | objects are well placed, and `NObstack` is an `ObjStack` | 14 addresses, chunks of 4 and more, 2 objects |
| `tok` | tokens lie inside their block, are the words, keep every character, the helpers are right, the parser ends | every line up to 5 characters |

`oash_clash` lets TLC find a disagreement between the code and an assertion of
its own: noash.c:275 asserts that nothing was swapped before the key was
recognised, and the assertion fails for a key that is not there when a
displaced entry meets an entry of equal hash and length whose key is a prefix
of the new one.

The others that modelling met have no run of their own. They are kept out by a
constant of the model or by a guard with a comment, and those of a constant
appear when its value is added to a configuration:

| where | what happens |
|---|---|
| `Oash`: `CallocMayFail` | after a growth that failed a full table is grown late, and a null entry is followed (noash.c:378); a put that would die on a duplicate goes around a full table without end |
| `NArray` `Misuse`: push, concat, remove_nth, reverse, uniq, eq or map after shift | the functions count cells from 0, or room without `start_index`: items are lost, or read and written behind the array (n_array_push.c:12 and 24, n_array_remove_nth.c:27, n_array_sorts.c:184, n_array_uniq_ex.c:7, n_array_eq_ex.c:25) |
| `NArray` `Misuse`: set_nth beyond | n_array_set_nth.c:22 compares with `>`: cell `allocated` is written, and a pointer stored behind the items is not counted |
| `NArray` `Misuse`: reverse when sorted | n_array_reverse keeps the sorted flag; an autosorted array is then searched out of order |
| `NArray` `Misuse`: inline push | narray.h:172 stores although `n_array_grow` refused, when a hook lets `n_die` return |
| `NArray` `Misuse`: inline nth | when a hook lets `n_die` return, the inline `n_array_nth` reads `data[start_index + i]` all the same (narray.h:121-127): an empty cell, or memory behind the block, or before it for a negative index |
| `NHash` `Misuse`: clean | n_hash_clean.c:16 loses all but the first entry of a chain |
| `NHash` `Misuse`: na | n_hash_remove.c:26 gives `free` a bucket of the table's allocator |
| `NHash` `Misuse`: twice | with `TN_HASH_NOREPLACE`, which is to skip the check for duplicates, n_hash_put.c:232 ends the program on a duplicate whose home slot is taken |
| `NList` `UnshiftOnEmpty` | n_list_unshift.c:22 does not set the tail of a list that was empty |
| `NBuf` `Cleans`: caller | nbuf.c:81 gives up a caller's memory and keeps `size` |
| `NTok` `Fns`: tok | nstr_tok.c:36 ends a token that fills the caller's buffer one byte behind it |
| `NTok` `Skip` | nstr_tok.c:14-16 promises "the first non-breaking character after the one that stopped the scan", but behind each delimiter it skips `n_str_tok` goes on to compare with `delim + 1` (lines 44-48) and stops at a delimiter that is `delim[0]`; the next call skips the rest, but at the end of a line it makes an empty last token of it, which `TokensRight` excepts |
| `NAlloc` `Requests` | a string asked for with both widths of its length is returned with the one it was first stored with (nmalloc.c:224) |
| `NStream` `RestoreUint32` | `n_restore_uint32` answers 0 whether it succeeded or not |
| `NStream` `LongPrints` | n_stream_vprintf writes as many bytes as vsnprintf counted, beyond the 32 KB of its buffer (nstream.c:200-207): a longer line goes on with what lies behind it |
| `NStream` `Most` | over `n_iobuf` a line may fill the whole buffer of n_stream_getline, whose NUL is then written one byte behind it (niobuf.c:202-219), and the buffer does not grow because that is done at `size - 1` only (nstream.c:256); `LineFits` excepts it |
| `NStream` `GetLine` | a line that just fills the buffer is followed by the next in the same answer (nstream.c:249) |
| `NStream` `GetcDies` | nstream.c:118 sets `getc` of stdio as the getc of an `n_iobuf` |
| `NStr` | a text of blanks makes `n_str_strip_ws` look before its first byte (nstr.c:26); `n_strncpy` of 0 bytes does not stop at any (nstr_cpy.c:31) |
| `NSort` | the default comparison cuts a difference of pointers to an `int` (trurl_cmpf.c:29) |

Met while reading, and in no model: `n_array_free_na` asserts that a flag of
bit 9 equals 1 (n_array_new.c:108); `n_oash_it_get` reads the slot behind the
table before it compares with `cap` (noash.c:494). A table of `n_hash` or `n_oash` grows when two
thirds are filled, where nhash.h:34 says "if filled more than 80%"; nothing
depends on it.

Why the bounds are enough. The tables of hashes in the MC modules are chosen so
that keys share a home slot in a table of each size, have neighbouring homes,
go around the end of the table and meet in different orders; three entries in
four slots is where a table grows, so that growth happens in most behaviours,
and tables are emptied and filled again without limit. In a table of four slots
five keys are more than fit. The containers of items have room for more items
than there are data, positions in and behind the items are asked for,
and the arrays grow from one cell, where doubling, shifting and the end of the
array meet. Pieces written to a buffer are shorter, as long and longer than
what is left in it, and it grows more than once. A file of five units takes
three buffers, so that reads, skips and lines begin and end inside, at and
across their borders, and a seek of more than one skip goes back and forth. Two
records are enough for a reader to get out of step, and the numbers lie on both
sides of each border between widths. The range of addresses holds three chunks,
which may touch in either order. A line of five characters holds an escape, what
it escapes, and characters of two tokens around them. Five users of an
allocator are one more than its count of references can tell, and the longest
tuple has one item more than is let through.

`MaxCap`, `MaxSize`, `MaxAlloc`, `MaxRefs`, `MaxFile`, `MaxRecords`, `MaxLine`,
`MaxTuple`, `MaxObjs` and `Top` stop growth and counting in the guards of the
calls; `PslMod`, `DsizeMod`, `Mod8` and `Mod16` are the widths of the code's
integers, small in the runs so that they are reached.

Fairness. `FairSpec` of `Oash`, `NHash`, `NList` and `NIobuf`, and `Spec` of
`NTok`, assume weak fairness of the steps inside a call, and of nothing else:
the library never waits for anything, so that a loop which can take its next
step takes it. That a call returns is then a property of its loops
(`CallsReturn`, `Ends`, and the fairness of `KeyMap`). For `NIobuf` this rests
on the contract that each call of the (de)compressor makes some progress as
long as it has input and room. No caller is assumed to make a call.

Deadlock is checked in `oash_growing`, `oash_clash`, `hash`, `list`, `array`
and `iobuf`. The other runs stop: a line is parsed and done, a program has ended, a
bound leaves no call to make, or a table without memory is full and its put
would not return.

## What is proved

For every value of the constants, with no bound on keys, capacities, bytes,
users or the number of calls. `PROJECT.json` lists the theorems.

**OashProofs.** `IndInv` of `Oash` is inductive. The argument:

- `PslAccurate` and `RobinHood` are the heart: psl is the distance from home,
  and between an entry and its home nobody is closer to home than the walk has
  come. From both, and from the number of taken slots, follows that the early
  exits of a lookup are right and that a probe meets the key before it could
  swap.
- They are inductive only together with what the loops are doing: `Control`
  says which variables belong to which loop, `Vacating` describes the hole of
  `n_oash_remove`, `PuttingKey` that a put has not missed its key, `ProbeEnds`
  that there is an empty slot ahead, `Growing` that the new table has room for
  what is left in the old one.
- `EntriesOwnDentries` and `DentriesReached` pair entries with dentries through
  swaps, shifts and growth, which gives `KeysUnique`.

That no answer is wrong (`NeverWrong`: every step is a step of `KeyMap` or a
stutter) adds `Seeking` to it: the slots that a lookup has passed do not hold
the key, so that when `RobinHood` ends the walk no dentry has it. The map is
read off the dentries alone, so that swaps, shifts and growth, which move
entries and leave dentries where they are, are stutters; the dentry of a put is
the first free one, and no other has its key because a put has missed it; a
put is refused when every slot is taken, and then the pairing of entries with
dentries counts as many keys as there are slots.

The theorems assume `Sane`: no two keys of equal hash and length are prefixes
of a third (`oash_clash` shows what happens otherwise), and memory does not run
out (`oash_nomem` checks what remains true then, `NeverWrong` among it). Of the
data they assume what `DataAssumption` says: `NULL` is none of them, and neither
is the value by which `KeyMap` marks an absent key.

**NHashProofs.** A table is looked at in two ways: as the places of its chains,
which `items` counts, and as the set of buckets in them (`Stored`, together with
those that a rehash or a copy has not come to), which is what a step that moves
a bucket leaves alone. `StoreInv` has each bucket in one of the places where
`n_hash_get_bucket` looks for its key, no key in two of them, and none of the old
table's left behind; `Owned` makes each datum the table's exactly as long as one
bucket has it. They are inductive with `Calling`, which says what a call has
established before its loop goes on (a put with `TN_HASH_NOREPLACE` has a new
key, a hash that was handed in belongs to the size the table has, a copy has
room for what is left), and with `Ahead`: what the iterator returned is what lies
before its position. The map of `KeyMap` is read off `Stored`, so that moving
buckets is a stutter. Assumed: callers avoid what `Misuse` names.

**NListProofs.** `IndInv` says that there is one chain `q` of distinct live
nodes from `head`, as long as `size`, whose last node is `tail` (`Chained`),
that the cursors of `n_list_remove_ex` are neighbours on it with no match behind
them (`Cursors`), that the iterator is on it with what is due from there to the
end (`Ahead`), that nodes and data belong to each other (`Owned`), and what a call
in progress has done (`Calling`). Each action is a change of `q`: a node added at
an end, or one taken out, by an argument that is the same for head, tail and
middle. No step follows a pointer that is not on `q`, which is `NoFault`; the
items are the data along `q`, and what a step does to `q` is what `ItemSeq` does
to the items; a `remove_ex` takes effect when it begins, because what it will
leave on the chain does not change while it runs. Assumed: nobody
unshifts onto an empty list (`~UnshiftOnEmpty`), after which `tail` is not the end
of any chain.

**NArrayProofs.** `IndInv` strengthens `MemoryOK` and `SortedInOrder` by little:
no pointer is in two cells (`Once`), a pointer is in a cell exactly as long as the
array owns it (`OwnedBy`, from which the count in `OwnedOnce` follows), and an
array flagged as sorted holds no `NULL`. Every call that moves items is read as
one map from cells to the cells they come from (`Rearranged`): it is one to one,
what it leaves out is given up, what comes in belonged to the caller. That is
shown once (`RearrangedMemory`), and each call shows that its loops are such a
map; where the map of the items is increasing, they stay sorted (`KeptOrdered`).
`n_array_sort` and the two removals that close several gaps at once list
positions by their place in an order (`Placed`, `IsListed`), which also gives that
the sorted items are all of the items. A growth has room for what is stored
because it is the least doubling above the request.

A change of `cmp_fn` (`SetCmp`) drops `sorted`, so that it needs nothing of the
items; `Nth` of the inline function reads a cell, never behind the block
(`NthReads`).

That the array implements `ItemSeq` (`ImplementsASequence`) is read off the same
maps: the items are the cells from `start` on, and for each call a `...Refined`
lemma says what sequence they are afterwards; `n_array_dup` and growing are
stutters. `Arranged`, which sorts by places in an order, is the `Sorted` of
`ItemSeq`, because there is only one way to list a set by a total order
(`ListedInOrder`, `SortedIs`); the same holds for what `remove_ex` and `uniq` leave. A sorted
array that is sorted again stays as it is (`SortedStays`), which is why the code
may skip it. `n_array_bsearch_ex` finds an item that compares equal wherever
there is one (`BsearchIs`): in a sorted sequence each turn of the loop keeps the
items that compare equal between its bounds, and a pair of bounds for which it
failed, with the least distance between them, would lead to one with a smaller.
That the recursive function exists at all is `FinderExists`, again by a least
distance: a function that is right below it gives one that is right at it. `n_array_bsearch_idx_ex`, which goes back from
there, finds the first (`FirstIs`). Assumed for all of this: `Misuse` is empty.

**NBufProofs.** `IndInv` is `TypeOK`, `NoJunk` and `LongerThanText` together:
the text was written because the places lie in it, and a place stays in it
because growth keeps what was there. From it `NBuf` implements `MemFile`, one
lemma per call; a write that is refused would have reached the end of the text,
because the text lies in memory. Assumed: callers do not clean a buffer over their own memory
(`CleansOwn`).

**NIobufProofs.** Five parts strengthen `TypeOK` and `AtItsPlace`: `Writer`
(how far the compressor and the `FILE` are behind the writes), `Settled` (once
the writer is gone the file on the disk is all there is, and a decompressor that
consumed a complete frame has put it all out), `Seeking` (a pending seek goes to
a place of the file, and so does what is left of a skip), `InCall` (which loop
belongs to which call) and `InLine` (what a line has so far holds no newline).
Together they are inductive, and with them every step of `NIobuf` is a step of
`IoFile` or a stutter, the crash and the rewind included. Nothing is assumed
beyond what the constants are.

The streams above it (`NStream`) keep `StreamInv`: the code of every record lies
between its borders as far as the stream goes (`Stored`), nothing is read before
the stream is reopened (`Unread`), a reader stands on the border before the
record it expects or, where the stream was cut, between its end and that border
(`OnBorder`), and in `n_stream_getline` what was read is what lies before the
place, more than one line only if the first just filled the buffer (`InALine`).
`RoundTrip` is not inductive without them: it says nothing of the bytes of records
that are still to be read. The rest is that each encoding is undone: the numbers
in network order (`HtonNtoh16`, `HtonNtoh32`), the three widths of
`n_store_uint32` (`Uint32Read`), the forms of a buffer's size (`SizeRead`), whole
or cut at any byte, when no part of a number is taken for the number. Where the
size of a buffer is cut off it is read as 0: the buffer restored is empty, and a
skip goes no further than the end.
Assumed: the lines printed fit the buffer of `n_stream_vprintf` (`~LongPrints`),
of whatever size; texts stored by other means may be of any size. `LineFits` counts
the NUL but for streams whose `gets` does not. `StreamAssumption` says that a byte
has more than two values (a flag of
`n_store_uint32` has three) and that a text's length is an `int`.

**NAllocProofs.** That an allocator lives exactly while it is held follows from
counting: references are those of users and the one of the table. That the
search finds the first of equal items follows from its invariant: what is left
of `l` is smaller, what is right of `r` larger than the key. Assumed: each
string is asked for with one width that it fits (`OneWidth`), which the
configuration of `alloc` satisfies.

That the objects of an obstack are well placed (`ObstackPlacement`) and that it
is an `ObjStack` (`ObstackIsAStack`) rest on `ObstackInv`: chunks lie apart, each
with room for its header (`ChunksOK`); the object that grows is in the first
(`GrowingOK`); every object lies in a chunk (`Placed`), which is the only one,
because even an object of no bytes comes after a header, which no other chunk
overlaps; in the first chunk objects end where the growing one begins, and one of
no bytes is known by `empty` (`Below`); and a later object lies in the same chunk
behind, or in a later chunk (`InOrder`). From `InOrder`, when `obstack_free` goes
back to an object, what it gives back is the objects above it and no other. When
`_obstack_newchunk` frees the old chunk because the growing object was all there
was in it, `Below` says that no object is. The texts stay because every write goes
behind `base`, where no object is, or into a chunk that is new. Nothing is
assumed but that a header and the first chunk are as large as `obstack_begin`
makes them and that chunks are aligned.

**NTokProofs.** `Placed` bounds what `n_str_tokl_n` has stored by what it has
read: a token ends before its delimiter, so the byte that ends it takes the
delimiter's place in the block, and only the last one needs the byte that the
block is longer. `Short` does the same for a token of `lp_parse`, whose
assertion therefore never fails; `Array` says that the array of tokens has no
holes, so that there is always a place for the next.

That the tokens are the words (`TokensRight`) needs what the place of a token
alone does not say: which word it is. `TokenInv` has a function `f` from the
tokens to pairs of places in the line that is increasing, such that the block
holds the places of `f[i]` and a NUL where `slots[i]` points, every word before
`s` is some `f[i]` or the one being copied, and only the last may be an empty
one, at the end of the line; the array is `NULL` from `n` on. What is read at
a token stops at its own NUL because the bytes before it are places of the line.

`CharactersKept` rests on `CharInv`: the tokens collected are `Ordered`, one
behind the other, and with the token in hand they hold every plain character
and every break before `s` (`Reaches`). A token is collected only at the end of
the line, before white space or before a break, so it never ends within a run
of plain characters: the next one would have to be in it already, before its
last (`TokenStops`). On a line without quotes and escapes (`SimpleInv`) the
parser is never in a quote and the token in hand is a run that ends right
before `s`. Every turn of `lp_parse` is `OneMore` (a character is stored) or
`LeftOut` (those skipped need not be kept).

Assumed: `n_str_tok` is not called by itself (`NoTok`), for the reason in the
table above, and a character is of one class only (`TokAssumption`).

Only model-checked: that every call returns, for the tables, the list, the I/O
buffer and the parser (the fairness half of `IsAMap` too), because the provers
have no rules for fairness; what the walks over a table return (`WalksAgree`),
the sorts of tuples (`SortsRight`) and the string helpers (`HelpersRight`), which
are defined by recursion over data. Induction is to be had where a least number
does it (`LeastElement` in `NListProofs` and `NArrayProofs`), not over an
operator.

## What is not modelled

- Hash functions, and tables of `n_hash` with a number of slots that is not a
  power of two.
- `n_oash_dup`, reference counts and allocators of `n_oash`; arrays with an
  allocator or around external data, their reference counts and their dump.
- The inside of timsort, which is vendored; `n_tuple_bsearch_ex`, which returns
  the item at the place `n_tuple_bsearch_idx_ex` finds.
- Errors of the decompressor and of a failing disk: `n_iobuf_read` that answers
  -1, on which `n_iobuf_real_seek` (niobuf.c:111-119) would not end; positions
  beyond 2^31. The calls `n_iobuf_seek` refuses by `n_die`, of a writer and with
  `SEEK_END` (niobuf.c:144-164), are not made.
- Some allocations are taken to succeed: a bucket of `n_hash` (`new_bucket`
  writes to what it gets, n_hash_put.c:89-94) and the table of `n_hash_dup`; the
  dentries of `n_oash`, their array and the tables of a new one (noash.c:77-80,
  312-323, 514-515); the array of tokens (nstr_tokl.c). The allocations of a table
  that grows, of list nodes, of a buffer's text and of obstack chunks may fail.
- A hook that lets `n_die` return from the inline functions of tuples, which go on
  behind it as that of arrays does (ntuple.h:45-68), and one that lets `n_assert`
  return: here both end the program.
- Negative positions in lists and arrays.
- `n_oash_replace` on a table with `TN_HASH_NOREPLACE`, which dies
  (noash.c:461-465), is not called.
- The `_fast` macros of the obstack, which leave the check for room to their
  callers, `_obstack_begin_1`, and `na_realloc` to a smaller size, which copies
  the old size (nmalloc.c:214) and which nobody in the library calls.
- Functions that only print; `nassert.c`; `nstring.c`, which is unfinished and
  not built; the wrappers of zlib, which pass their calls on; perftests, tests
  and vendored code.

## Plan

1. `NeverWrong` of `Oash` when memory runs out, from the parts of its `IndInv`
   that do not need room.
2. `n_oash_dup` and tables in an allocator, composed with `NAlloc`.
