# c_core in TLA+

c_core is a C23 library of allocators, containers, strings, formatting and
buffered output. This directory holds TLA+ models of it, TLC configurations
that check them on small instances, and proofs about them for every instance.

## The system

| part | source | state | operations |
| --- | --- | --- | --- |
| output file stream | `io.h` | a byte buffer, two cursors, a C `FILE` | write, flush, new |
| stream writer | `io.h` | a table of write and flush, and their object | write, flush |
| string stream | `io.h` | a `String` | write, flush |
| hash map | `hashmap.h` | buckets into two slices of keys and values, a count | new, get, get by interned key, set, grow, free, iteration |
| arena | `arena.h` | a list of chunks with a cursor each | init, alloc, free, resize, reset, deinit |
| allocator, pointer arithmetic | `core.h` | a table of alloc, resize, free | alloc, resize, free, sequential layouts, `align_forward` |
| list | `list.h` | doubly linked nodes, a length | push, iterate, find, free |
| slices, dynamic array, ring buffer | `array.h` | pointer, length, capacity | get, push, pop, reserve, append, copy |
| strings, UTF-8 | `string.h` | pointer, byte length, capacity | append, prepend, reserve, decode and encode a rune |
| formatter | `fmt/fmt.h`, `fmt/primitive.h` | a pad level, "is this line padded", a stream writer | write, writeln, write_fmt, the print macros |
| runtime context | `runtime.h` | a per-thread context, two global streams | init, deinit, the C allocator |

How they meet: every container takes an `Allocator`, which is the C library's
(`runtime.h`) or an arena; an arena keeps its chunks in a list whose nodes come
from another allocator; the formatter writes to a stream writer, which is a
string or an output file stream; the hash map calls the hash, equality and set
functions of its key type. All errors are returned, and many callers drop them.
Nothing is locked: a context belongs to a thread, but the two global output
streams belong to the process.

What is hard to get right here is less concurrency, which appears where threads
print through one stream, than partial failure and protocol: a write that fails
half way, an allocation that fails inside a growth, a cursor moved by a
sequence of calls that each look right, a pointer that outlives the buffer it
pointed into, an unsigned difference that wraps. `PROJECT.json` lists every
such place under "hazards" with its line.

## Modules

### Output file stream

`ByteStream` is what a stream writer promises: an append-only stream that takes
the bytes of each request in order, answers OK when it took them all and WRITE
when it did not. `OutputFileStream` is the code: `Write`, then one
`FillAndFlush` for each iteration of the loop at io.h:157, then `CopyRest`; and
`Flush`. `FlushNothing`, `FlushAll` and `FlushShort` are the three ways out of
`output_file_stream_flush`. The C library is `Take`: fwrite may be short, and
what it took may stay inside the `FILE` (`stdio`) until an fflush that works.
Offsets in the buffer stand for the two cursors. The refinement mapping is
`Stream`: what is in the file, then inside the `FILE`, then between the
cursors.

* `OutputFileStream.cfg` (short fwrites, failing fflushes, a buffer or none):
  types; nothing stays inside the `FILE` when the buffer is empty, so an early
  return of flush is right (`NothingLeftBehind`); OK from flush means delivered
  (`FlushDelivers`); the refinement (`IsByteStream`); every write returns
  (`WriteReturns`).

Three conditions are there because the code needs them. `NothingLeftBehind` and
`FlushDelivers` hold unless the last fflush failed (`unflushed`), because its
result is ignored (io.h:187): the next flush that reaches the `FILE` repairs
it, a flush with an empty buffer does not reach it. `WriteReturns` is about a
stream with a buffer: `io_init` ignores an allocation failure, and the loop of
a write never flushes a buffer of 0 bytes.

Bounds: a buffer of 3 bytes and 7 bytes in all, so that a write goes round its
loop several times, starts with a part-filled buffer, and is followed by
another after a failure. Only differences of cursors and the size of the buffer
decide a branch, so longer buffers add no branch.

Fairness: weak fairness of the two steps of a running write. They are
consecutive statements of one function; the thread is scheduled. No fairness is
assumed of callers or of the C library's success.

### Printing

`Printing` puts the stream where the program has it: `g_stdout_ofs`, one for
all threads, below the print macros of `fmt.h`. A thread first runs
`ctx_init_default`: `InitArena` and `InitDump` are its two allocations, of
which a failed one calls `g_ctx.raise` before it is set, and `InitStreams` is
`io_init`, which makes the stream of the process anew, with nothing in its
buffer and whatever stdio holds left there. A macro is `BeginPrint`, one
`WritePiece` for each write of its formatter, and `FlushPrint`. Its `ASSERT_OK`
panics when the stream failed (`PrintFails`) and when the formatter refused its
string (`PrintRefused`). That calls `exit`, as does `main` when it returns
(`Return`). `Exit` is what follows: the C library flushes the `FILE`, which may
fail, and what is pending in the buffer of the process is lost. The steps
inside a write are those of `OutputFileStream` (`StreamStep`), and the program
may also write and flush directly. Nothing locks the stream, so a second thread
that reaches it while the first is inside a call (or in `io_init`) is a data
race: `Race` ends the behaviour, since nothing is known of it afterwards.

* `Printing.cfg` (all faults of the stream, allocation failures): what a macro
  that returned has printed stays, whatever is printed after it, whichever
  thread starts and however the program ends (`PrintedStays`); no byte gets in
  between those of a macro, and one that panics leaves a beginning of them in
  the file (`PrintIsWhole`); bytes a call accepted are lost only when a thread
  starts, and then only bytes nobody flushed, and at the exit
  (`OnlyStartAndExitLose`); a macro ends, or ends the program, if the stream
  has a buffer (`PrintReturns`).

A macro that prints nothing promises nothing: if a thread started while the
`FILE` held what a short fwrite left there, the buffer is empty, and flushing
returns early with those bytes still inside. This is a state `OutputFileStream`
alone does not reach (`NothingLeftBehind`), and why `Shown` is the stream up to
the last byte the macro itself wrote.

Bounds: two threads, which is enough for one to start inside or between the
calls of the other; a buffer of two bytes and six bytes in all, so that a macro
fills the buffer inside a piece and between two. Fairness: weak fairness of the
steps of the macro under way, consecutive statements of one thread.
`CHECK_DEADLOCK FALSE`: a race, a null call and the exit end the program.

### Hash map

`Dict` is what hashmap.h promises: a finite map; a set takes effect, or fails
for lack of memory and then only when the key is new; growing is invisible.
`HashMap` is the code. A bucket holds the slot its two pointers point at, or
`Free`. `GetBucket` and `GetBucketByIntern` are the probing loops as the first
position at which the loop stops. `Set` begins a call of `hashmap_set`, which
then goes one of three ways: `SetPresent` (the key is there), `SetNew` (there
is room) or `SetGrowing`. Growth is stepped: `BeginGrow` (allocate, copy the
slots), one `Reinsert` per slot, `EndGrow` (swap, free, go on with the set that
waited). Memory from `allocator_alloc_z` is zeroed: `Zero` is the key that all
zero bytes denote, which a slot that was never set holds.

`HashMapPointers` adds the block the map lives in and a pointer into it, which
`hashmap_get` returns and the caller keeps (`held`). `SetOwn` is a
`hashmap_set` whose value is read through that pointer; when the map must grow
for it, the block is freed before the value is copied, and the model stops
(`ReadFreed`). `room` is how many new keys the program has asked room for, with
`hashmap_grow` (`AskRoom`), and has not set yet. `MapParts` are the sizes the
code asks for and `Sequential` is `alloc_sequentially_n`, which adds up the
padding between neighbouring alignments and then places each part with
`align_forward`.

* `HashMap.cfg` (the zero key unused, hash by value): types; no assertion fails
  and no null bucket is used (`NoPanic`); lookup, iteration and lookup by
  interned key agree, and while growing what was reinserted is found
  (`LookupAgrees`); the refinement (`IsDictionary`); a pointer from a get leads
  to the value of its key until the map grows (`PointerIsCurrent`); as many new
  keys as room was asked for can be set without a growth, so that pointers stay
  of use and a value of the map can be given back to it (`RoomAskedFor`: `rest
  > fit` in one function, `count >= cap - 1` in another, that many sets later);
  the four parts of the block are inside it, apart and aligned, for any two
  types of `TYPE_LIST` at every capacity (`PartsFit`).
* `HashMapEmptyKey.cfg`, violated: with the empty string as a key, growing lets
  unset slots take its bucket, and the key disappears.

`ByAddress` is the hash of `int_hash`, which hashes the address of its key;
with it a key may be stored twice. The runs hash by value; the theorems say
which of them need it.

Bounds: three keys with every assignment of the hash values 0, 3 and 5 (equal;
equal only modulo 3, so that growing parts them; and next to each other round
the end of 6), capacities 1 and 3 at creation, growth by set at counts 0 and 2
and by `hashmap_grow`, for 1 or 3 keys, at any count. Keys and values are
symmetric: the hash is chosen in `Init`. One pointer is held at a time; what
one leads to does not depend on another. `CHECK_DEADLOCK FALSE`: reading freed
memory ends the behaviour.

### Arena

Addresses are offsets in the data of a chunk. `AlignForward` is `align_forward`
as written, x + x % align; `RestCapAligned` is an unsigned difference, modulo
`Word`. `Alloc` takes the first chunk with room, `AllocInNewChunk` appends one,
`AllocNoMemory` is what happens when the inner allocator fails (the error is
dropped: the program is undefined from there and the model stops). `blocks` are
the blocks the program may still use: `FreeBlock` drops one and moves nothing,
`Reset` drops them all.

`ArenaList` adds the list the chunks are kept in (list.h): nodes with `next`
and `prev`, the `list_t` with both ends and a length, and an iterator that the
program makes and moves between calls on the arena. A node holds the number of
its chunk. Its actions are those of `Arena` with what they do to the list:
`AllocPushing` pushes the node of a new chunk, `DeinitFreeing` frees the nodes
along `next`.

* `Arena.cfg` (sizes of whole words, aligned for one or two of them, so that
  padding occurs): blocks are inside their chunk and aligned, and no two share
  a byte of memory, which for blocks of two chunks takes both to be inside
  their own (`BlocksDisjoint`); the nodes along `next` hold the
  chunks in order, each knows the one before, and no other node is in use
  (`ListHoldsChunks`); an iterator returns the chunks in order, and ends only
  after all that were there when it was made (`IterationComplete`). It may miss
  one: `list_iter_next` moves on before the caller handles the last node, so a
  chunk added then is not returned.
* `ArenaMisaligned.cfg`, violated: sizes and alignments freely mixed. When the
  inner allocator has no memory, `ChunkIsValid`, the comment "at this point the
  chunk is valid", is false.
  With these requests aligning the cursor also passes the end of a chunk,
  whose rest capacity then wraps (arena.h:102): it is taken for a block it has
  no room for, and `BlocksInside` and `BlocksDisjoint`, checked in the place of
  `BlocksAligned`, are false too.

Bounds: three chunks, of 18 bytes or, for a block larger than that, 27 (both
end inside an alignment), three live blocks, sizes 4, 8 and 20 aligned for 4
and 8. Without the alignment pad of arena.h a chunk would be one of 20 bytes,
where the rest wraps after 20. Nodes are alike, a symmetry.
`CHECK_DEADLOCK FALSE`: `arena_resize` is `unimplemented()`, which ends the
program.

Assumption: the data of a chunk is aligned for every request. malloc aligns to
16 and the headers before the data are multiples of 8, so this is so for
alignments up to 8.

### Dynamic array

`Arrays` is what the dynamic arrays of array.h promise: each is a sequence of
its own, and a call that does not return OK changes none. `DArr` is the code. A
`darr_t` points at one block with the header (`len`, `allocator`) and the data
behind it, whose length is the capacity; `maker` is the allocator the block
came from, which the code does not record. `Make` is `alloc_sequentially_two`
with what its callers put in the block, `Move` a new block in place of one that
is freed. `New`, `NewFromSlice`, `CopyDataIn`, `ReallocateIn`, `Push`, `Pop`,
`ReserveCap`, `AppendSlice`, `AppendArray` (the slice is that of an array, the
same one included) and `Free` are one step each, with a failed allocation where
they allocate. `PushOwn` pushes an item that lies in the array itself: a full
array is freed before the item is read, which is undefined, except in an arena,
whose free leaves the memory alone. `darr_reserve_cap` with no room resizes the
pointer to the data, which no allocator gave out: undefined for malloc, and
`unimplemented()` for an arena. The model stops there. `DArrReserve` keeps
beside each array the length it was promised room for, by the call that made
it, by what it has held, and by reservations that returned OK. All arrays hold
items of one type, so the assertion of `darr_append_slice` on it is left out.

* `DArr.cfg` runs `ReserveSpec`, the calls of `DArr` with the promises beside
  them: types, and no item is what an allocator left in the memory (`TypeOK`);
  every block in use is that of one array (`Owned`); an array is freed with the
  allocator that made its block (`FreedByMaker`); a signed index finds the item
  from either end (`SignedIndexAgrees`); the refinement (`IsArrays`); up to the
  promised length every call that adds to an array succeeds, in the block it is
  in, whatever was popped, pushed, copied and reallocated since the promise
  (`ReserveIsKept`). So a push of one of its own items and an append to itself
  are defined as long as they stay within it.

Bounds: two arrays and three blocks, so that a copy or a growth has a block to
go to and may also have none; malloc and an arena; capacities 0 and 2 at
creation and those of slices and copies, a first capacity of 2 after growth (in
place of 16), up to 3 items: arrays are full at once, after a few pushes, and
again after they grew. Blocks are alike, and so are arrays and the two items,
and their permutations are a symmetry; no temporal property needs
fairness. A block that an arena was given back counts as unused, although it
stays taken: no pointer to it is left. `CHECK_DEADLOCK FALSE`: a failed
assertion and an undefined access end the program.

### Formatter

`Rendering` says what a format string means, as one function of a rune and a
state: text is copied, a line is indented before its first text, `%%` is a
percent sign, `%+` and `%-` change the level, other directives print a value.
`Formatter` is the code, a step for each turn of the loop of
`string_formatter_write_fmt` and each way out of its switch, with the two
positions `fmt_str` (written up to here) and `e_fmt_str` (read up to here).
`string_formatter_write`, `writeln`, `pad_inc` and `pad_dec` are one step each.
`DbgFmt` adds two of the functions that print a value with several writes,
`slice_dbg_fmt` and `str_dbg_fmt`, with a step for each write; the items of a
slice are printed by `int_dbg_fmt`, since no slice has its `el_tid` set and
type 0 is int. The target is a stream writer that may fail after any token of
what it is given: some of the padding, all of it, or some of the text. `ret`
tells an ERROR that came from the target from one that came from the string.
`Return` hands the result to the caller, who may go on with the same formatter.
Only `writeln` and a newline of a format string end a line for the formatter. A
newline in a text that `string_formatter_write` is given is copied like
any other byte, and `is_line_padded` stays set: it is a token of its own,
`TextNewline`, in what a call means and in what it writes, and what the same
formatter prints next is not indented. The println macros end their line so
(fmt.h:109, 122, 140, 152), and use their formatter no more.

* `Formatter.cfg`: positions and level stay in range, for any string
  (`TypeOK`); what is written is at every step a beginning of what the string
  means, all of it on OK, with the level and the padding it leaves for the next
  call (`PlainRenders`); nothing well-formed is refused (`PlainSucceeds`); no
  padding inside a line that has text, after whatever failed
  (`PadsBeforeText`); every call returns (`CallReturns`); a slice is printed
  like a string that lists its items, also when a write fails (`PlainRenders`
  again), and only the empty one, whose `len - 1` wraps, ends in a failed
  assertion (`OnlyEmptySliceStops`). The two properties named Plain leave out
  the strings with `%l`, which the code gets wrong, and say that a `%%` where
  no text waits to be written prints both its signs (fmt.h:332); `Rewritten` is
  the string that asks for that.
* `FormatterLong.cfg`, violated: `%ld` is refused.

Bounds: every string of up to 4 runes over one text rune, newline, `%`, `l`,
`d`, `+` and `-`, from any level up to 1 a call may begin at; two directives
with text or a newline around them fit. Slices of up to three items: none, one,
a first and a last, and one between. `s`, `v` and `u` are read as `d` is. The
runes of a string matter only by their kind. `CHECK_DEADLOCK FALSE`: a string
that ends after a percent sign, or lowers level 0, ends the program.

Fairness: weak fairness of the steps of a running call, which are consecutive
statements of one function.

Left out: the message `print_error` writes to stderr, and the copy of a value
into its buffer. The value of an argument, an item and each token of a text
stand for any bytes, none at all included, so that a percent sign in a text is
no case of its own.

### String

`Text` is what a `String` promises: a text that grows at both ends by all that
a call was asked to add if it returns OK, and by nothing if it does not.
`String` is the buffer: `mem` is what the allocator made, `byte_cap` what the
code believes. `string_reserve_cap` does not update `byte_cap`, so the two part
at the first growth; `RestCap` is the unsigned difference the code computes,
modulo `Word`. Bytes put past the end of `mem` are undefined behaviour: the
model says "overrun" and stops. Only whole encodings are added as runes:
`string_append_rune` also fails its assertion on a code point above 0x10ffff,
which is left out, as is a string in an arena, whose `resize` is not
implemented. `string_append_str`, `prepend_str`, `append_rune`, `reserve_cap`,
`reset` and the write of a string stream are one step each; each may meet an
allocation failure. `StringViews` lets the text that is added be a part of the
string's own, as `string_to_str` and `str_byte_slice` show it: a growth frees
it before it is copied, and `string_prepend_str` moves it first, which leaves
only a beginning of the text where it was.

* `String.cfg`: the text overruns only when it outgrows three times its first
  capacity (`RoomForThreeTimes`: what the first growth makes room for, and the
  code never sees that it needs more); a part of its own text is added to a
  string like any other, if `byte_cap` has room for it, and if it is a
  beginning when it is put in front (`OwnTextIsAdded`); the refinement
  (`IsText`).
* `StringRune.cfg`, violated: the assertion in `string_append_rune`.

Bounds: first capacities 1 and 3 (and that of a given string), strings of 1 and
3 bytes, runes of 1 and 4, reservations, and texts of up to 11 bytes, past
three times each capacity. The parts of its own text are those that read as one
of the strings or runes. `CHECK_DEADLOCK FALSE`: an overrun or a failed
assertion ends the program.

### UTF-8

`Utf8` has the decoder and the encoder as operators: masks and shifts are
remainders and quotients. `RuneReader` is the loop over a string that
`str_rune_len` and test_string.c run, with a target of the size of the string.

* `RuneReader.cfg`: each rune is encoded to the bytes it was read from, and the
  target has room (`Transcodes`); a string that lost bytes is read up to its
  last whole rune and then refused (`CutIsFound`); reading ends (`Ends`).

Bounds: strings of up to 3 runes, each on one side of a change of size, with up
to 3 bytes lost; what is read of a rune does not depend on the runes before it.
`CHECK_DEADLOCK FALSE`: the loop ends. Fairness: of the loop's only step.

## Proofs

Every invariant and action property that a passing run checks is also a
theorem, for every value of the constants; what stays with TLC is listed at the
end.

`OutputFileStreamProofs` proves, for every set of bytes, buffer size, set of
requests and faults: `TypeOK` (inductive with the fact that nothing is left to
copy once a call returned); `PendingIsWritten`; `FailedWriteIsPending`; that
the initial states and every step map to those of `ByteStream` (`IsByteStream`,
by a case for each action, each of which comes down to the associativity of
concatenation). `NothingLeftBehind` and `FlushDelivers` need each other: a
flush that finds the buffer empty returns early, and delivers only because an
empty buffer means an empty `FILE`. `DeliverInv` is both, with the fact that
only a write is ever under way between two steps.

`PrintingProofs` proves `PrintedStays`, `PrintIsWhole` and
`OnlyStartAndExitLose` for any number of threads and all pieces, faults and
panics. The invariant
`PrInv` is about the stream relative to the macro under way: what was there
before, what the macro has sent, and what is still to be copied add up
(`Whole`), and after the last piece the buffer is not empty, so that the flush
of the macro cannot return early (`Turns`). What reached the `FILE` only grows
(`Forward`), for each step of the stream; this is `PrintedStays`, up to the
exit. That takes the buffer, and the `FILE` unless it is flushed (`ExitKeeps`):
then what was shown is in the file, and what a macro wrote is still a beginning
of what it was to write (`Begun`). Any other step that loses a byte starts a
thread, since the rest keep the stream (`Lossless`).

`ArenaProofs` proves, for every set of requests: `OffsetsApart` (no offset of a
chunk belongs to two live blocks) and `BlocksBelowCursor`, with no assumption
on sizes. Neither is inductive alone: a new block is apart from the live ones
because they end below the cursor, and cursors never move back except in
`Reset`, which drops all blocks. `PlacedApart` is that argument for both
allocating actions. It does not say that memory is disjoint, since an offset
may be behind the chunk (the requests of `ArenaMisaligned.cfg`).

`BlocksAligned` is proved for requests of whole grains, aligned for the grain,
a part of it or its double (`HalfAligned`), for any grain: `align_forward` adds
what the pointer has too much, which is right for nothing and for half an
alignment, and cursors stay at grains. `BlocksInside` and `BlocksDisjoint` take
one more condition when there are such alignments: no chunk ends in the second
half of one (`ChunksEven`), so that the padding (`RoundedInside`) does not pass
its end. Chunks of 1024 bytes do not. A chunk made for a larger block may: one
of 24 bytes aligned for 8, in an arena of small chunks, has 31, and after a
block of 4 more the rest of it wraps. The code guarantees neither condition;
the two violated runs show what happens without. `ListImplementsArena` says
that the arena over its list takes no step that `Arena` does not, so all of
this holds of it.

The list itself is proved to hold the chunks (`ListHoldsChunks`) and an
iterator to return them (`IterationComplete`). Both speak of a walk along
`next`, which no step of the code performs at once, so neither is inductive.
The invariant `LInv` is that there is a sequence of distinct nodes which the
list, the nodes and the iterator follow: each node's two pointers are its
neighbours in it, both ends are its ends, every other node is unused, and the
iterator is at the entry after those it returned, with the rest of them to
count down. A push extends the sequence (`PushAlong`), the iterator moves along
it (`NextAlong`), and the walk is the sequence (`WalkAlong`, by the least
position at which the two would part).

`HashMapProofs` proves, for every set of keys and values, every hash, all
capacities and all sequences of sets and growths: `TypeOK`; and, for keys
hashed by their value, `NoPanic` and `OneSpareBucket`, the zero key included.
The argument is a count: slots that were never set all hold the zero key
(`UnsetZero`), so while growing the first of them takes a bucket and every
later one finds that same bucket (`FoundAfter`: once the bucket found for a key
points at a slot with that key, the key is found there). Buckets in use are
then at most one more than keys, the load limit leaves one free, and linear
probing visits every bucket (`ProbingReaches`), so it meets the free one.

If besides no key set is the zero key, which is what `HashMap.cfg` assumes and
`HashMapEmptyKey.cfg` shows to be needed, it proves that the lookups agree
(`LookupAgrees`), that the map implements `Dict` (`IsDictionary`), that a key
once set stays (`KeysStay`), and of pointers into the map `PointerIsCurrent`
and `RoomAskedFor`. The invariant `LInv` says of a map: every slot in use is
found by probing for its key, no two slots hold one key, and every bucket in
use points at such a slot; of the map a growth builds: the same up to the slot
reinserted last, and that the unset slots after them took no bucket of a key.
Each set and each reinsertion fills a bucket that was free where probing
stopped, so the probes of other keys stop where they did (`AddToKeeps`). For
pointers the invariant is the block and the slot a pointer leads to
(`HeldInv`), for the room that keys and room together are below the capacity,
of the map or of the one about to replace it (`RoomInv`).
`PartsFit` is proved with no condition on keys, from the sizes and alignments
of the types alone (`FourPlaces`: each part begins where the one before ended,
rounded up, and the size asked for counts each rounding).

`Utf8Proofs` proves that every rune up to 0x10ffff is encoded to the number of
bytes its first byte tells and decoded to itself, with anything after it: a
case for each size, in which the bytes contribute the digits of the rune to
base 64 (`SumOfThree`, `SumOfFour`). From this the loop over a string of any
length is proved right: `Transcodes` and `CutIsFound`. The invariant `RInv` is
that what was read is the encoding of the first runes, and that it begins both
what is there and, with the bytes that were lost, all that was encoded; the
first byte then decides whether the next rune is whole.

`StringProofs` proves `TypeOK`, `RoomForThreeTimes` and `IsText` for every set
of strings and runes, every first capacity and every reservation, from one
assumption: a `usize_t` holds every capacity, length and request (`WordHolds`).
The invariant is `Roomy`: the text is within `byte_cap`, or the buffer has at
least three times that. It is needed because `byte_cap` never changes: the rest
capacity is exact while the text fits in it and, once it has wrapped, above any
request (`RestCapIs`), so a buffer grows only while its text is within
`byte_cap`. Growing then makes room for what is added (`GrownHasRoom`), and
bytes go past the end only from a buffer already grown. `AppendedBytes` and
`PrependedBytes` say where the bytes of the copies and the move end up, from
which each action maps to a step of `Text`. With views of the string's own text
among the calls it proves `OwnTextIsAdded`, and the two above again: a call on
a part of the text is the call on those bytes unless the buffer grows, and a
move to make room in front leaves a beginning of the text in place
(`BeginningStays`).

`DArrProofs` proves `TypeOK`, `Owned`, `FreedByMaker`, `SignedIndexAgrees`,
`IsArrays` and `ReserveIsKept` for every set of arrays, blocks, items and
slices, all capacities and any number of allocators. The invariant is `Owned`
and that every block in use is `Good`: its items are inside its data and were
put there by some call, and it names the allocator that made it. What a call
puts in a block is good, and has the items it should (`NewArrIs`,
`FromSliceGood`, `DataCopyGood`, `GrownGood`, `AddedGood`); what it does with
blocks is one of `MakeKeeps`, `MoveKeeps`, `UpdateKeeps`, each of which changes
the items of one array and, as no two share a block, those of no other. Every
action is then one of each. For `ReserveIsKept` the invariant `Kept` says that
no array's block is smaller than what it was promised: copies and growths make
no smaller block (`DataCopyGood`, `GrownGood`), and a call that adds finds its
room or makes it (`AddsRoom`).

`FormatterProofs` proves `TypeOK`, `PadsBeforeText` and `OnlyEmptySliceStops`
for every set of format strings, texts and slices, every level, and any place
at which the target fails. The invariant of the first two is `FInv`; `DInv`
adds where a call of `slice_dbg_fmt` is in its slice (`Inside`) and that only
an empty one stops it. The assumptions on constants are that a rune is a token
(`RuneAssumption`), and that the tokens of texts and items are not those that
a format string uses for a percent sign and a newline (`TextAssumption`,
`SliceAssumption`): a newline in a text is the token `TextNewline`.

It then proves `PlainRenders` and `PlainSucceeds`, for strings of any length.
The code writes several runes at once, and some of what it has read it has not
written; what the string means is defined rune by rune. The invariant `Written`
ties the two:

* `Following`, in the loop of `string_formatter_write_fmt`: what the runes read
  so far mean is what is written, with the runes between `fmt_str` and
  `e_fmt_str` still to be put on the line (`FollowsText`), or with a percent
  sign read (`FollowsSign`); and the string as it is, not rewritten, has the
  same level and was good so far (`Directly`), which is what `PlainSucceeds`
  needs.
* `Listing`, in `slice_dbg_fmt` and `str_dbg_fmt`: what is written is what the
  first `Before(piece, i, ...)` runes of the list mean.
* `Ended`, after a call: `Right`, which says what `PlainRenders` says, and
  `PlainSucceeds`.

Two lemmas carry the steps: `TextRun`, that runes which are no signs and no
newlines mean themselves, and are indented once (`Line`), and `GiveWrites` with
`FailWrites`, that the code's one write does to the output what `Line` does to
a meaning, or a beginning of it. Each turn of the loop is then a lemma
(`TextGoes`, `NewlineGoes`, `PercentGoes`, `PercentAgain`, `LevelGoes`,
`DirectiveGoes`, `StopGoes`, `FinishGoes`), and so is each call (`WriteWrites`,
`PadWrites`, `WriteFmtStarts`, `ItemsGo`, `RunesGo`). `RenderingsAre` and
`RewritingsAre` unfold the two recursive functions, whose existence comes from
`Chain`: the steps to each number, by the least number at which one could fail
(`LeastElement`).

What stays with TLC: the four liveness properties (`WriteReturns`,
`PrintReturns`, `CallReturns`, `Ends`), since the provers do not handle
fairness; and the runs that expect a violation, which show a counterexample.

## Not modelled

`type.h` (a table of constants), `impl_guards.h` (preprocessor), `ideas.c` (not
compiled), the build files, colours and wording of output. `ctx_deinit` frees
what one thread made at its end, and nothing of it is used afterwards; the
`imm_print` macros do not compile. A hash map of capacity 0 stops the program
at its first lookup, and a ring buffer at its first push (array.h:581 divides
by its length, which is 0), so neither has a behaviour to model.

## Plan

Every safety property of the runs has its theorem. What is left is to say more:

1. `Printing` takes no step of a write that `OutputFileStream` does not, so
   that what holds of the one between two starts of a thread holds of the
   other.
2. `ByteStream` as the target of `Formatter`: the tokens of a call are the
   bytes of one request each, and a failure of the stream is one of the
   failures `Fail` allows.
3. `Rendering`: printing one string after another is printing both, so that a
   caller who goes on after OK gets what the strings mean together.
