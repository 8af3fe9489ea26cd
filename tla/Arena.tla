------------------------------- MODULE Arena --------------------------------
(***************************************************************************)
(* Arena (arena.h): an allocator that carves blocks from a list of chunks  *)
(* and gives memory back only all at once.  Addresses are offsets in the   *)
(* data of a chunk, which malloc aligns for every alignment asked for.     *)
(*                                                                         *)
(* align_forward adds ptr % alignment to a pointer: the cursor is aligned  *)
(* only if it was, or was half way.                                        *)
(***************************************************************************)
EXTENDS Integers, SequencesExt

CONSTANTS
    Requests,           \* the blocks asked for: [size, align]
    DefaultChunk,       \* default_chunk_data_size
    Word,               \* usize_t counts modulo Word
    MaxChunks,          \* bounds: no allocation past this many chunks
    MaxBlocks,          \* or live blocks
    AllocMayFail        \* whether the inner allocator may fail

ASSUME RequestAssumption ==
    \A r \in Requests : r.size \in Nat \ {0} /\ r.align \in Nat \ {0}
ASSUME SizeAssumption ==
    /\ DefaultChunk \in Nat /\ Word \in Nat \ {0}
    /\ MaxChunks \in Nat /\ MaxBlocks \in Nat
    /\ AllocMayFail \in BOOLEAN

VARIABLES
    open,               \* between arena_init and arena_deinit
    chunks,             \* data_size and cursor of each chunk, in list order
    blocks,             \* the blocks the program may use
    ret                 \* the last result, "panic", or "undefined"

vars == <<open, chunks, blocks, ret>>

-----------------------------------------------------------------------------

\* align_forward, as it is.  (A slip: the pointer stays where it is.)
AlignForwardNot(x, align) == x
AlignForward(x, align) == x + (x % align)

\* arena_chunk_rest_cap_aligned: an unsigned difference.
RestCapAligned(c, align) == (c.size - AlignForward(c.cursor, align)) % Word

\* The chunks that pred accepts, and the one iter_pref_find stops at.
Fitting(r) ==
    {j \in DOMAIN chunks : RestCapAligned(chunks[j], r.align) >= r.size}
FirstFitting(r) == {j \in Fitting(r) : \A l \in Fitting(r) : j <= l}

\* The data section of a chunk made for a request (alignment_pad, MAX).  (A
\* slip: without the pad.)
DataSectionNoPad(r) == IF r.size >= DefaultChunk THEN r.size ELSE DefaultChunk
DataSectionSize(r) ==
    IF r.size + r.align - 1 >= DefaultChunk
    THEN r.size + r.align - 1 ELSE DefaultChunk

Block(j, at, r) == [chunk |-> j, at |-> at, size |-> r.size, align |-> r.align]

-----------------------------------------------------------------------------

Init ==
    /\ open = FALSE
    /\ chunks = <<>>
    /\ blocks = <<>>
    /\ ret = "none"

Running == ret \notin {"panic", "undefined"}

ArenaInit ==
    /\ Running /\ ~open
    /\ \/ open' = TRUE /\ ret' = "OK"
       \/ AllocMayFail /\ open' = open /\ ret' = "MEM_ALLOC"
    /\ UNCHANGED <<chunks, blocks>>

Alloc(r) ==
    /\ Running /\ open
    /\ Len(blocks) < MaxBlocks
    /\ \E j \in FirstFitting(r) :
          LET at == AlignForward(chunks[j].cursor, r.align) IN
          /\ blocks' = Append(blocks, Block(j, at, r))
          /\ chunks' = [chunks EXCEPT ![j].cursor = at + r.size]
    /\ ret' = "OK"
    /\ UNCHANGED open

\* A chunk of its own, when the inner allocator has the memory.  (A slip: the
\* chunk before it is named.)
AllocInWrongChunk(r) ==
    /\ Running /\ open
    /\ Fitting(r) = {}
    /\ Len(chunks) < MaxChunks /\ Len(blocks) < MaxBlocks
    /\ LET at == AlignForward(0, r.align) IN
       /\ blocks' = Append(blocks, Block(Len(chunks), at, r))
       /\ chunks' = Append(chunks, [size |-> DataSectionSize(r),
                                    cursor |-> at + r.size])
    /\ ret' = "OK"
    /\ UNCHANGED open

AllocInNewChunk(r) ==
    /\ Running /\ open
    /\ Fitting(r) = {}
    /\ Len(chunks) < MaxChunks /\ Len(blocks) < MaxBlocks
    /\ LET at == AlignForward(0, r.align) IN
       /\ blocks' = Append(blocks, Block(Len(chunks) + 1, at, r))
       /\ chunks' = Append(chunks, [size |-> DataSectionSize(r),
                                    cursor |-> at + r.size])
    /\ ret' = "OK"
    /\ UNCHANGED open

\* When it has not, the error is dropped and an uninitialised node is used.
AllocNoMemory(r) ==
    /\ Running /\ open
    /\ AllocMayFail
    /\ Fitting(r) = {}
    /\ ret' = "undefined"
    /\ UNCHANGED <<open, chunks, blocks>>

\* arena_free clears the caller's pointer and nothing else.  (A slip: the
\* cursor goes back to the block.)
FreeRewinding(b) ==
    /\ Running /\ open
    /\ b \in DOMAIN blocks
    /\ blocks' = RemoveAt(blocks, b)
    /\ chunks' = [chunks EXCEPT ![blocks[b].chunk].cursor = blocks[b].at]
    /\ UNCHANGED <<open, ret>>

FreeBlock(b) ==
    /\ Running /\ open
    /\ b \in DOMAIN blocks
    /\ blocks' = RemoveAt(blocks, b)
    /\ UNCHANGED <<open, chunks, ret>>

\* arena_resize is unimplemented().
Resize ==
    /\ Running /\ open
    /\ ret' = "panic"
    /\ UNCHANGED <<open, chunks, blocks>>

\* arena_reset ends the life of every block and keeps every chunk.
Reset ==
    /\ Running /\ open
    /\ chunks' = [j \in DOMAIN chunks |-> [chunks[j] EXCEPT !.cursor = 0]]
    /\ blocks' = <<>>
    /\ UNCHANGED <<open, ret>>

Deinit ==
    /\ Running /\ open
    /\ open' = FALSE
    /\ chunks' = <<>>
    /\ blocks' = <<>>
    /\ UNCHANGED ret

Next ==
    \/ ArenaInit
    \/ \E r \in Requests : Alloc(r) \/ AllocInNewChunk(r) \/ AllocNoMemory(r)
    \/ \E b \in 1..MaxBlocks : FreeBlock(b)
    \/ Resize
    \/ Reset
    \/ Deinit

Spec == Init /\ [][Next]_vars

-----------------------------------------------------------------------------

TypeOK ==
    /\ open \in BOOLEAN
    /\ chunks \in Seq([size : Nat, cursor : Nat])
    /\ blocks \in Seq([chunk : Nat, at : Nat, size : Nat, align : Nat])
    /\ \A b \in DOMAIN blocks : blocks[b].chunk \in DOMAIN chunks
    /\ ret \in {"none", "OK", "MEM_ALLOC", "panic", "undefined"}

\* A block lies inside the data of its chunk: no allocation was made where the
\* unsigned difference of arena_chunk_rest_cap_aligned had wrapped.
Inside(b) == blocks[b].at + blocks[b].size <= chunks[blocks[b].chunk].size
BlocksInside == \A b \in DOMAIN blocks : Inside(b)

\* A block has the alignment asked for.
BlocksAligned == \A b \in DOMAIN blocks : blocks[b].at % blocks[b].align = 0

\* No byte of memory belongs to two live blocks, whatever was freed or reset
\* between their allocations.  Bytes past the end of a chunk are somebody
\* else's: blocks of two chunks are apart only where both lie inside.
SameChunk(b, c) == blocks[b].chunk = blocks[c].chunk
Overlap(b, c) ==
    /\ SameChunk(b, c)
    /\ blocks[b].at < blocks[c].at + blocks[c].size
    /\ blocks[c].at < blocks[b].at + blocks[b].size
BlocksDisjoint ==
    \A b, c \in DOMAIN blocks :
        b # c => IF SameChunk(b, c) THEN ~Overlap(b, c)
                 ELSE Inside(b) /\ Inside(c)

\* No offset in a chunk belongs to two live blocks.  (This says nothing of the
\* memory behind the end of a chunk.)
OffsetsApart == \A b, c \in DOMAIN blocks : b # c => ~Overlap(b, c)

\* What the next block of a chunk is placed at has no live block above it.
BlocksBelowCursor ==
    \A b \in DOMAIN blocks :
        blocks[b].at + blocks[b].size <= chunks[blocks[b].chunk].cursor

\* arena_alloc goes on with a chunk it has (the NOTE at arena.h:249).
ChunkIsValid == ret # "undefined"
=============================================================================
