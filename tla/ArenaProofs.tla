---------------------------- MODULE ArenaProofs -----------------------------
(***************************************************************************)
(* Proofs about Arena, for every set of requests, every chunk size and     *)
(* every number of chunks and blocks; that the arena over its list is one, *)
(* so that all of them hold of it; and about that list and its iterators,  *)
(* for every set of nodes.                                                 *)
(***************************************************************************)
EXTENDS ArenaList, SequenceTheorems, WellFoundedInduction, TLAPS

Chunk == [size : Nat, cursor : Nat]
LiveBlock == [chunk : Nat, at : Nat, size : Nat, align : Nat]

-----------------------------------------------------------------------------
(* Arithmetic.                                                             *)

LEMMA MultipleOf ==
    ASSUME NEW a \in Nat \ {0}, NEW x \in Nat, x % a = 0
    PROVE  \E k \in Int : x = a * k
OBVIOUS

LEMMA MultipleMod == ASSUME NEW a \in Nat \ {0}, NEW k \in Int PROVE (a * k) % a = 0
OBVIOUS

\* The remainder of a multiple and less.
LEMMA MultipleOffset ==
    ASSUME NEW w \in Nat \ {0}, NEW k \in Int, NEW b \in 0..(w - 1)
    PROVE  (w * k + b) % w = b
OBVIOUS

\* A set of numbers has a least one.
LEMMA LeastElement ==
    ASSUME NEW S, S \subseteq Nat, S # {}
    PROVE  \E x \in S : \A y \in S : x <= y
<1>1. PICK R : /\ IsWellFoundedOn(R, Nat)
               /\ \A x, y \in Nat : x < y => <<x, y>> \in R
  <2> DEFINE T == OpToRel(<, Nat)
  <2>1. IsWellFoundedOn(T, Nat)
    BY NatLessThanWellFounded
  <2>2. \A x, y \in Nat : x < y => <<x, y>> \in T
    BY DEF OpToRel
  <2> HIDE DEF T
  <2> QED
    BY <2>1, <2>2
<1>2. IsWellFoundedOn(R, Nat)
  BY <1>1
<1>3. PICK x \in S : \A y \in S : ~ (<<y, x>> \in R)
  BY <1>2, WFMin
<1>4. ASSUME NEW y \in S PROVE x <= y
  <2>1. x \in Nat /\ y \in Nat /\ ~(y < x)
    BY <1>1, <1>3
  <2> QED
    BY <2>1
<1> QED
  BY <1>4

\* Multiples of an alignment add up to multiples of it.
LEMMA MultiplesAdd ==
    ASSUME NEW a \in Nat \ {0}, NEW x \in Nat, NEW y \in Nat,
           x % a = 0, y % a = 0
    PROVE  (x + y) % a = 0
<1>1. PICK k \in Int : x = a * k
  BY MultipleOf
<1>2. PICK l \in Int : y = a * l
  BY MultipleOf
<1>3. x + y = a * (k + l)
  BY <1>1, <1>2
<1>4. (a * (k + l)) % a = 0
  BY MultipleMod
<1> QED
  BY <1>3, <1>4

\* align_forward never moves a pointer back.
LEMMA AlignForwardUp ==
    ASSUME NEW x \in Nat, NEW a \in Nat \ {0}
    PROVE  AlignForward(x, a) \in Nat /\ AlignForward(x, a) >= x
<1>1. x % a \in 0..(a - 1)
  OBVIOUS
<1> QED
  BY <1>1 DEF AlignForward

-----------------------------------------------------------------------------
(* A block less.                                                           *)

LEMMA RemoveAtProperties ==
    ASSUME NEW S, NEW s \in Seq(S), NEW n \in 1..Len(s)
    PROVE  /\ RemoveAt(s, n) \in Seq(S)
           /\ Len(RemoveAt(s, n)) = Len(s) - 1
           /\ \A m \in 1..(Len(s) - 1) :
                RemoveAt(s, n)[m] = s[IF m < n THEN m ELSE m + 1]
<1> DEFINE before == SubSeq(s, 1, n - 1)
           after == SubSeq(s, n + 1, Len(s))
<1>1. Len(s) \in Nat /\ \A m \in 1..Len(s) : s[m] \in S
  BY LenProperties, ElementOfSeq
<1>2. /\ before \in Seq(S) /\ Len(before) = n - 1
      /\ \A m \in 1..(n - 1) : before[m] = s[m]
  <2>1. \A m \in 1..(n - 1) : s[m] \in S
    BY <1>1
  <2> QED
    BY <1>1, <2>1, SubSeqProperties
<1>3. /\ after \in Seq(S) /\ Len(after) = Len(s) - n
      /\ \A m \in 1..(Len(s) - n) : after[m] = s[n + m]
  <2>1. \A m \in (n + 1)..Len(s) : s[m] \in S
    BY <1>1
  <2> QED
    BY <1>1, <2>1, SubSeqProperties
<1>4. RemoveAt(s, n) = before \o after
  BY DEF RemoveAt
<1> HIDE DEF before, after
<1>5. /\ before \o after \in Seq(S)
      /\ Len(before \o after) = Len(s) - 1
      /\ \A m \in 1..(Len(s) - 1) : (before \o after)[m] =
           IF m <= n - 1 THEN before[m] ELSE after[m - (n - 1)]
  <2>1. /\ before \o after \in Seq(S)
        /\ Len(before \o after) = Len(before) + Len(after)
        /\ \A m \in 1..(Len(before) + Len(after)) : (before \o after)[m] =
             IF m <= Len(before) THEN before[m] ELSE after[m - Len(before)]
    BY <1>2, <1>3, ConcatProperties
  <2>2. Len(before) + Len(after) = Len(s) - 1
    BY <1>1, <1>2, <1>3
  <2> QED
    BY <1>2, <2>1, <2>2
<1>6. \A m \in 1..(Len(s) - 1) :
        (before \o after)[m] = s[IF m < n THEN m ELSE m + 1]
  <2>1. SUFFICES ASSUME NEW m \in 1..(Len(s) - 1)
                 PROVE  (before \o after)[m] = s[IF m < n THEN m ELSE m + 1]
    OBVIOUS
  <2>2. CASE m < n
    BY <1>1, <1>2, <1>5, <2>2
  <2>3. CASE ~(m < n)
    <3>1. m - (n - 1) \in 1..(Len(s) - n) /\ n + (m - (n - 1)) = m + 1
      BY <1>1, <2>3
    <3> QED
      BY <1>1, <1>3, <1>5, <2>3, <3>1
  <2> QED
    BY <2>2, <2>3
<1> QED
  BY <1>4, <1>5, <1>6

-----------------------------------------------------------------------------
(* No offset of a chunk is given out twice, whatever the requests.         *)

IInv == TypeOK /\ BlocksBelowCursor /\ OffsetsApart

\* A block placed at or above the cursor of its chunk, which then moves past
\* it, is apart from every block that is below.
LEMMA PlacedApart ==
    ASSUME IInv,
           NEW j \in Nat, NEW r \in Requests, NEW at \in Nat,
           chunks' \in Seq(Chunk),
           DOMAIN chunks \subseteq DOMAIN chunks', j \in DOMAIN chunks',
           chunks'[j].cursor = at + r.size,
           \A l \in DOMAIN chunks : chunks'[l].cursor >= chunks[l].cursor,
           j \in DOMAIN chunks => chunks[j].cursor <= at,
           blocks' = Append(blocks, Block(j, at, r)),
           ret' = "OK", open' = open
    PROVE  IInv'
<1>1. r.size \in Nat \ {0} /\ r.align \in Nat \ {0}
  BY RequestAssumption
<1> DEFINE new == Block(j, at, r)
<1>2. /\ new \in LiveBlock
      /\ new.chunk = j /\ new.at = at /\ new.size = r.size
  BY <1>1 DEF Block, LiveBlock
<1>3. blocks \in Seq(LiveBlock) /\ chunks \in Seq(Chunk)
  BY DEF IInv, TypeOK, LiveBlock, Chunk
<1> HIDE DEF new
<1>4. /\ blocks' \in Seq(LiveBlock)
      /\ Len(blocks) \in Nat /\ Len(blocks') = Len(blocks) + 1
      /\ \A b \in 1..Len(blocks) : blocks'[b] = blocks[b]
      /\ blocks'[Len(blocks) + 1] = new
      /\ DOMAIN blocks = 1..Len(blocks) /\ DOMAIN blocks' = 1..(Len(blocks) + 1)
  BY <1>2, <1>3, AppendProperties, LenProperties DEF new
<1>5. \A b \in 1..Len(blocks) :
        /\ blocks[b] \in LiveBlock
        /\ blocks[b].chunk \in DOMAIN chunks
        /\ blocks[b].at \in Nat /\ blocks[b].size \in Nat
        /\ blocks[b].at + blocks[b].size <= chunks[blocks[b].chunk].cursor
  <2>1. \A b \in 1..Len(blocks) : blocks[b] \in LiveBlock
    BY <1>3, ElementOfSeq
  <2> QED
    BY <1>4, <2>1 DEF IInv, TypeOK, BlocksBelowCursor, LiveBlock
<1>6. \A l \in DOMAIN chunks :
        chunks[l].cursor \in Nat /\ chunks'[l].cursor \in Nat
  <2>1. \A l \in DOMAIN chunks : chunks[l] \in Chunk
    BY <1>3, ElementOfSeq, LenProperties
  <2>2. \A l \in DOMAIN chunks' : chunks'[l] \in Chunk
    BY ElementOfSeq, LenProperties
  <2> QED
    BY <2>1, <2>2 DEF Chunk
<1>7. TypeOK'
  <2>1. \A b \in DOMAIN blocks' : blocks'[b].chunk \in DOMAIN chunks'
    BY <1>2, <1>4, <1>5
  <2> QED
    BY <1>4, <2>1 DEF IInv, TypeOK, LiveBlock, Chunk
<1>8. BlocksBelowCursor'
  <2>1. SUFFICES ASSUME NEW b \in 1..(Len(blocks) + 1)
                 PROVE  blocks'[b].at + blocks'[b].size <= chunks'[blocks'[b].chunk].cursor
    BY <1>4 DEF BlocksBelowCursor
  <2>2. CASE b = Len(blocks) + 1
    BY <1>1, <1>2, <1>4, <2>2
  <2>3. CASE b \in 1..Len(blocks)
    <3>1. PICK l \in DOMAIN chunks : l = blocks[b].chunk
      BY <1>5, <2>3
    <3>2. /\ chunks[l].cursor \in Nat /\ chunks'[l].cursor \in Nat
          /\ chunks'[l].cursor >= chunks[l].cursor
      BY <1>6
    <3>3. /\ blocks[b].at \in Nat /\ blocks[b].size \in Nat
          /\ blocks[b].at + blocks[b].size <= chunks[l].cursor
      BY <1>5, <2>3, <3>1
    <3>4. blocks[b].at + blocks[b].size <= chunks'[l].cursor
      BY <3>2, <3>3
    <3> QED
      BY <1>4, <2>3, <3>1, <3>4
  <2> QED
    BY <1>4, <2>2, <2>3
<1>9. PICK last \in Nat : last = Len(blocks) + 1
  BY <1>4
<1>10. ASSUME NEW b \in 1..Len(blocks)
       PROVE  ~Overlap(b, last)' /\ ~Overlap(last, b)'
  <2>1. /\ blocks'[b] = blocks[b] /\ blocks'[last] = new
        /\ blocks[b].at \in Nat /\ blocks[b].size \in Nat
    BY <1>4, <1>5, <1>9
  <2>2. blocks[b].chunk = j => blocks[b].at + blocks[b].size <= at
    <3>1. SUFFICES ASSUME blocks[b].chunk = j
                   PROVE  blocks[b].at + blocks[b].size <= at
      OBVIOUS
    <3>2. chunks[j].cursor \in Nat /\ chunks[j].cursor <= at
      BY <1>5, <1>6, <3>1
    <3>3. blocks[b].at + blocks[b].size <= chunks[j].cursor
      BY <1>5, <3>1
    <3> QED
      BY <2>1, <3>2, <3>3
  <2> QED
    BY <1>2, <2>1, <2>2 DEF Overlap, SameChunk
<1>11. OffsetsApart'
  <2>1. SUFFICES ASSUME NEW b \in DOMAIN blocks', NEW c \in DOMAIN blocks', b # c
                 PROVE  ~Overlap(b, c)'
    BY DEF OffsetsApart
  <2>2. CASE b \in 1..Len(blocks) /\ c \in 1..Len(blocks)
    <3>1. ~Overlap(b, c)
      BY <1>4, <2>1, <2>2 DEF IInv, OffsetsApart
    <3> QED
      BY <1>4, <2>2, <3>1 DEF Overlap, SameChunk
  <2>3. CASE b = last \/ c = last
    <3>1. (b = last /\ c \in 1..Len(blocks)) \/ (c = last /\ b \in 1..Len(blocks))
      BY <1>4, <1>9, <2>1, <2>3
    <3> QED
      BY <1>10, <3>1
  <2> QED
    BY <1>4, <1>9, <2>1, <2>2, <2>3
<1> QED
  BY <1>7, <1>8, <1>11 DEF IInv

\* What the invariant says of one chunk and of one block.
LEMMA InvFacts ==
    ASSUME IInv
    PROVE  /\ chunks \in Seq(Chunk) /\ blocks \in Seq(LiveBlock)
           /\ DOMAIN chunks = 1..Len(chunks) /\ Len(chunks) \in Nat
           /\ DOMAIN blocks = 1..Len(blocks) /\ Len(blocks) \in Nat
           /\ \A l \in DOMAIN chunks :
                 /\ chunks[l] \in Chunk
                 /\ chunks[l].cursor \in Nat /\ chunks[l].size \in Nat
           /\ \A b \in DOMAIN blocks : blocks[b] \in LiveBlock
<1>1. chunks \in Seq(Chunk) /\ blocks \in Seq(LiveBlock)
  BY DEF IInv, TypeOK, Chunk, LiveBlock
<1>2. /\ DOMAIN chunks = 1..Len(chunks) /\ Len(chunks) \in Nat
      /\ DOMAIN blocks = 1..Len(blocks) /\ Len(blocks) \in Nat
  BY <1>1, LenProperties
<1>3. \A l \in DOMAIN chunks : chunks[l] \in Chunk
  BY <1>1, <1>2, ElementOfSeq
<1>4. \A b \in DOMAIN blocks : blocks[b] \in LiveBlock
  BY <1>1, <1>2, ElementOfSeq
<1> QED
  BY <1>1, <1>2, <1>3, <1>4 DEF Chunk

\* What Alloc does to the chunk it finds.
LEMMA AllocChunks ==
    ASSUME IInv, NEW r \in Requests, Alloc(r)
    PROVE  \E j \in FirstFitting(r), at \in Nat :
           /\ at = AlignForward(chunks[j].cursor, r.align)
           /\ blocks' = Append(blocks, Block(j, at, r))
           /\ j \in DOMAIN chunks /\ j \in Nat
           /\ chunks[j].cursor <= at
           /\ chunks' \in Seq(Chunk) /\ DOMAIN chunks' = DOMAIN chunks
           /\ chunks'[j] = [size |-> chunks[j].size, cursor |-> at + r.size]
           /\ \A l \in DOMAIN chunks \ {j} : chunks'[l] = chunks[l]
<1>1. r.size \in Nat \ {0} /\ r.align \in Nat \ {0}
  BY RequestAssumption
<1>2. PICK j \in FirstFitting(r) :
        LET at == AlignForward(chunks[j].cursor, r.align) IN
          /\ blocks' = Append(blocks, Block(j, at, r))
          /\ chunks' = [chunks EXCEPT ![j].cursor = at + r.size]
  BY DEF Alloc
<1>3. j \in DOMAIN chunks /\ chunks[j] \in Chunk /\ j \in Nat
  BY InvFacts DEF FirstFitting, Fitting
<1>4. PICK at \in Nat : /\ at = AlignForward(chunks[j].cursor, r.align)
                        /\ chunks[j].cursor <= at
  BY <1>1, <1>3, AlignForwardUp DEF Chunk
<1>5. /\ blocks' = Append(blocks, Block(j, at, r))
      /\ chunks' = [chunks EXCEPT ![j].cursor = at + r.size]
  BY <1>2, <1>4
<1>6. /\ chunks'[j] = [size |-> chunks[j].size, cursor |-> at + r.size]
      /\ chunks'[j] \in Chunk
  BY <1>1, <1>3, <1>5 DEF Chunk
<1>7. /\ DOMAIN chunks' = DOMAIN chunks
      /\ \A l \in DOMAIN chunks \ {j} : chunks'[l] = chunks[l]
  BY <1>5
<1>8. chunks' \in Seq(Chunk)
  <2>1. \A l \in 1..Len(chunks) : chunks'[l] \in Chunk
    BY <1>6, <1>7, InvFacts
  <2>2. chunks' = [l \in 1..Len(chunks) |-> chunks'[l]]
    BY <1>5, InvFacts
  <2>3. chunks' \in [1..Len(chunks) -> Chunk]
    BY <2>1, <2>2
  <2> QED
    BY <2>3, InvFacts, SeqDef
<1> QED
  BY <1>3, <1>4, <1>5, <1>6, <1>7, <1>8

\* What AllocInNewChunk does to the list of chunks.
LEMMA NewChunkChunks ==
    ASSUME IInv, NEW r \in Requests, AllocInNewChunk(r)
    PROVE  /\ blocks' = Append(blocks, Block(Len(chunks) + 1, 0, r))
           /\ chunks' \in Seq(Chunk)
           /\ DOMAIN chunks' = 1..(Len(chunks) + 1)
           /\ chunks'[Len(chunks) + 1] =
                 [size |-> DataSectionSize(r), cursor |-> r.size]
           /\ \A l \in DOMAIN chunks : chunks'[l] = chunks[l]
           /\ DataSectionSize(r) \in Nat /\ r.size <= DataSectionSize(r)
<1>1. r.size \in Nat \ {0} /\ r.align \in Nat \ {0}
  BY RequestAssumption
<1>2. AlignForward(0, r.align) = 0
  BY <1>1 DEF AlignForward
<1>3. DataSectionSize(r) \in Nat /\ r.size <= DataSectionSize(r)
  BY <1>1, SizeAssumption DEF DataSectionSize
<1> DEFINE new == [size |-> DataSectionSize(r), cursor |-> r.size]
<1>4. /\ new \in Chunk /\ chunks' = Append(chunks, new)
      /\ blocks' = Append(blocks, Block(Len(chunks) + 1, 0, r))
  BY <1>1, <1>2, <1>3 DEF AllocInNewChunk, Chunk
<1> HIDE DEF new
<1>5. /\ chunks' \in Seq(Chunk) /\ Len(chunks') = Len(chunks) + 1
      /\ chunks'[Len(chunks) + 1] = new
      /\ \A l \in 1..Len(chunks) : chunks'[l] = chunks[l]
  BY <1>4, InvFacts, AppendProperties
<1> QED
  BY <1>3, <1>4, <1>5, InvFacts, LenProperties DEF new

\* A free: the blocks left are blocks there were.
LEMMA FreedBlocks ==
    ASSUME IInv, NEW n \in DOMAIN blocks, blocks' = RemoveAt(blocks, n)
    PROVE  /\ blocks' \in Seq(LiveBlock)
           /\ DOMAIN blocks' = 1..(Len(blocks) - 1)
           /\ \A m \in DOMAIN blocks' :
                 /\ (IF m < n THEN m ELSE m + 1) \in DOMAIN blocks
                 /\ blocks'[m] = blocks[IF m < n THEN m ELSE m + 1]
<1>1. n \in 1..Len(blocks) /\ blocks \in Seq(LiveBlock) /\ Len(blocks) \in Nat
  BY InvFacts
<1>2. /\ blocks' \in Seq(LiveBlock) /\ Len(blocks') = Len(blocks) - 1
      /\ \A m \in 1..(Len(blocks) - 1) :
           blocks'[m] = blocks[IF m < n THEN m ELSE m + 1]
  BY <1>1, RemoveAtProperties
<1>3. DOMAIN blocks' = 1..(Len(blocks) - 1)
  BY <1>2, LenProperties
<1>4. \A m \in 1..(Len(blocks) - 1) :
        (IF m < n THEN m ELSE m + 1) \in 1..Len(blocks)
  BY <1>1
<1> QED
  BY <1>2, <1>3, <1>4, InvFacts

LEMMA InitIInv == Init => IInv
<1> SUFFICES ASSUME Init PROVE IInv
  OBVIOUS
<1>1. chunks = <<>> /\ blocks = <<>>
  BY DEF Init
<1>2. DOMAIN chunks = {} /\ DOMAIN blocks = {}
  BY <1>1
<1>3. chunks \in Seq(Chunk) /\ blocks \in Seq(LiveBlock)
  BY <1>1
<1> QED
  BY <1>2, <1>3 DEF Chunk, LiveBlock, Init, IInv, TypeOK, BlocksBelowCursor, OffsetsApart

LEMMA NextIInv == IInv /\ [Next]_vars => IInv'
<1> SUFFICES ASSUME IInv, [Next]_vars PROVE IInv'
  OBVIOUS
<1>1. CASE ArenaInit
  BY <1>1 DEF ArenaInit, IInv, TypeOK, BlocksBelowCursor, OffsetsApart,
              Overlap, SameChunk
<1>2. ASSUME NEW r \in Requests, Alloc(r) PROVE IInv'
  <2>1. PICK j \in FirstFitting(r), at \in Nat :
        /\ blocks' = Append(blocks, Block(j, at, r))
        /\ j \in DOMAIN chunks /\ j \in Nat
        /\ chunks[j].cursor <= at
        /\ chunks' \in Seq(Chunk) /\ DOMAIN chunks' = DOMAIN chunks
        /\ chunks'[j] = [size |-> chunks[j].size, cursor |-> at + r.size]
        /\ \A l \in DOMAIN chunks \ {j} : chunks'[l] = chunks[l]
    BY <1>2, AllocChunks
  <2>2. ret' = "OK" /\ open' = open
    BY <1>2 DEF Alloc
  <2>3. chunks'[j].cursor = at + r.size
    BY <2>1
  <2>4. r.size \in Nat
    BY RequestAssumption
  <2>5. \A l \in DOMAIN chunks : chunks[l].cursor \in Nat
    BY InvFacts
  <2>6. \A l \in DOMAIN chunks : chunks'[l].cursor >= chunks[l].cursor
    BY <2>1, <2>3, <2>4, <2>5
  <2> QED
    BY <2>1, <2>2, <2>3, <2>6, PlacedApart
<1>3. ASSUME NEW r \in Requests, AllocInNewChunk(r) PROVE IInv'
  <2>1. /\ blocks' = Append(blocks, Block(Len(chunks) + 1, 0, r))
        /\ chunks' \in Seq(Chunk)
        /\ DOMAIN chunks' = 1..(Len(chunks) + 1)
        /\ chunks'[Len(chunks) + 1] =
              [size |-> DataSectionSize(r), cursor |-> r.size]
        /\ \A l \in DOMAIN chunks : chunks'[l] = chunks[l]
    BY <1>3, NewChunkChunks
  <2>2. ret' = "OK" /\ open' = open
    BY <1>3 DEF AllocInNewChunk
  <2>3. PICK j \in Nat : j = Len(chunks) + 1
    BY InvFacts
  <2>4. j \notin DOMAIN chunks /\ DOMAIN chunks \subseteq DOMAIN chunks'
    BY <2>1, <2>3, InvFacts
  <2>5. /\ j \in DOMAIN chunks'
        /\ chunks'[j].cursor = 0 + r.size
        /\ blocks' = Append(blocks, Block(j, 0, r))
    BY <2>1, <2>3, InvFacts, RequestAssumption
  <2>6. \A l \in DOMAIN chunks : chunks'[l].cursor >= chunks[l].cursor
    BY <2>1, InvFacts
  <2> QED
    BY <2>1, <2>2, <2>4, <2>5, <2>6, PlacedApart
<1>4. ASSUME NEW r \in Requests, AllocNoMemory(r) PROVE IInv'
  BY <1>4 DEF AllocNoMemory, IInv, TypeOK, BlocksBelowCursor, OffsetsApart,
              Overlap, SameChunk
<1>5. ASSUME NEW n \in 1..MaxBlocks, FreeBlock(n) PROVE IInv'
  <2>1. /\ n \in DOMAIN blocks /\ blocks' = RemoveAt(blocks, n)
        /\ open' = open /\ chunks' = chunks /\ ret' = ret
    BY <1>5 DEF FreeBlock
  <2> DEFINE was(m) == IF m < n THEN m ELSE m + 1
  <2>2. /\ blocks' \in Seq(LiveBlock)
        /\ DOMAIN blocks' = 1..(Len(blocks) - 1)
        /\ \A m \in DOMAIN blocks' :
              was(m) \in DOMAIN blocks /\ blocks'[m] = blocks[was(m)]
    BY <2>1, FreedBlocks
  <2>3. \A b, c \in DOMAIN blocks' : b # c => was(b) # was(c)
    BY <2>1, <2>2, InvFacts
  <2> HIDE DEF was
  <2>4. TypeOK'
    BY <2>1, <2>2 DEF IInv, TypeOK, LiveBlock
  <2>5. BlocksBelowCursor'
    BY <2>1, <2>2 DEF IInv, BlocksBelowCursor
  <2>6. OffsetsApart'
    BY <2>1, <2>2, <2>3 DEF IInv, OffsetsApart, Overlap, SameChunk
  <2> QED
    BY <2>4, <2>5, <2>6 DEF IInv
<1>6. CASE Resize
  BY <1>6 DEF Resize, IInv, TypeOK, BlocksBelowCursor, OffsetsApart,
              Overlap, SameChunk
<1>7. CASE Reset
  <2>1. /\ blocks' = <<>> /\ open' = open /\ ret' = ret
        /\ chunks' = [j \in DOMAIN chunks |-> [chunks[j] EXCEPT !.cursor = 0]]
    BY <1>7 DEF Reset
  <2>2. \A j \in DOMAIN chunks : [chunks[j] EXCEPT !.cursor = 0] \in Chunk
    BY InvFacts DEF Chunk
  <2>3. chunks' \in [1..Len(chunks) -> Chunk]
    BY <2>1, <2>2, InvFacts
  <2>4. chunks' \in Seq(Chunk)
    BY <2>3, InvFacts, SeqDef
  <2>5. DOMAIN blocks' = {}
    BY <2>1
  <2>6. blocks' \in Seq(LiveBlock)
    BY <2>1
  <2> QED
    BY <2>1, <2>4, <2>5, <2>6
    DEF IInv, TypeOK, BlocksBelowCursor, OffsetsApart, Chunk, LiveBlock
<1>8. CASE Deinit
  <2>1. blocks' = <<>> /\ chunks' = <<>> /\ open' = FALSE /\ ret' = ret
    BY <1>8 DEF Deinit
  <2>2. DOMAIN blocks' = {} /\ blocks' \in Seq(LiveBlock) /\ chunks' \in Seq(Chunk)
    BY <2>1
  <2> QED
    BY <2>1, <2>2
    DEF IInv, TypeOK, BlocksBelowCursor, OffsetsApart, Chunk, LiveBlock
<1>9. CASE UNCHANGED vars
  BY <1>9 DEF vars, IInv, TypeOK, BlocksBelowCursor, OffsetsApart,
              Overlap, SameChunk
<1> QED
  BY <1>1, <1>2, <1>3, <1>4, <1>5, <1>6, <1>7, <1>8, <1>9 DEF Next

\* The invariant holds in every state of every run.
LEMMA AlwaysIInv == Spec => []IInv
<1> QED
  BY InitIInv, NextIInv, PTL DEF Spec

\* TypeOK: every live block names a chunk of the list.
THEOREM TypeCorrect == Spec => []TypeOK
<1>1. IInv => TypeOK
  BY DEF IInv
<1> QED
  BY <1>1, AlwaysIInv, PTL

\* OffsetsApart: arena_alloc gives out no offset of a chunk that a live block
\* has, for any sizes and alignments, the misaligned blocks included.  (With
\* sizes as in ArenaMisaligned.cfg an offset may be past the end of the chunk.)
THEOREM OffsetsCorrect == Spec => []OffsetsApart
<1>1. IInv => OffsetsApart
  BY DEF IInv
<1> QED
  BY <1>1, AlwaysIInv, PTL

\* BlocksBelowCursor: the cursor of a chunk is above its live blocks.
THEOREM BelowCursorCorrect == Spec => []BlocksBelowCursor
<1>1. IInv => BlocksBelowCursor
  BY DEF IInv
<1> QED
  BY <1>1, AlwaysIInv, PTL

-----------------------------------------------------------------------------
(* Where align_forward rounds up.  It adds what the pointer has too much, so *)
(* it is right for a pointer that has nothing or half an alignment too much. *)
(* With sizes of whole grains, a cursor is at a grain, and the alignments    *)
(* that it is right for are those that divide the grain and its double.      *)

HalfAligned(grain) ==
    \A r \in Requests :
        /\ r.size % grain = 0
        /\ grain % r.align = 0 \/ r.align = 2 * grain

\* Where there is padding to come, it also takes chunks that do not end in the
\* middle of an alignment for the padding to be inside the chunk.
Padded(grain) == \E r \in Requests : r.align = 2 * grain
EndsEven(size, grain) == Padded(grain) => size % (2 * grain) < grain
ChunksEven(grain) == \A r \in Requests : EndsEven(DataSectionSize(r), grain)

AInv(grain) ==
    /\ IInv
    /\ BlocksAligned
    /\ \A j \in DOMAIN chunks : chunks[j].cursor % grain = 0

RInv(grain) ==
    /\ AInv(grain)
    /\ BlocksInside
    /\ \A j \in DOMAIN chunks :
          chunks[j].cursor <= chunks[j].size /\ EndsEven(chunks[j].size, grain)

\* What align_forward does to a whole number of grains: nothing, or the half of
\* an alignment that is missing is added.
LEMMA RoundedOnGrain ==
    ASSUME NEW grain \in Nat \ {0}, NEW c \in Nat, c % grain = 0,
           NEW a \in Nat \ {0}, grain % a = 0 \/ a = 2 * grain
    PROVE  /\ AlignForward(c, a) % a = 0
           /\ AlignForward(c, a) % grain = 0
           /\ \/ AlignForward(c, a) = c
              \/ /\ a = 2 * grain
                 /\ \E h \in Int : /\ c = a * h + grain
                                   /\ AlignForward(c, a) = a * (h + 1)
<1>1. PICK m \in Int : c = grain * m
  BY MultipleOf
<1>2. CASE grain % a = 0
  <2>1. PICK k \in Int : grain = a * k
    BY <1>2, MultipleOf
  <2>2. c = a * (k * m) /\ k * m \in Int
    BY <1>1, <2>1
  <2>3. c % a = 0
    BY <2>2, MultipleMod
  <2> QED
    BY <2>3 DEF AlignForward
<1>3. CASE a = 2 * grain
  <2>1. PICK h \in Int : m = 2 * h \/ m = 2 * h + 1
    <3>1. m = 2 * (m \div 2) \/ m = 2 * (m \div 2) + 1
      OBVIOUS
    <3> QED
      BY <3>1
  <2>2. CASE m = 2 * h
    <3>1. c = a * h
      BY <1>1, <1>3, <2>2
    <3>2. c % a = 0
      BY <3>1, MultipleMod
    <3> QED
      BY <3>2 DEF AlignForward
  <2>3. CASE m = 2 * h + 1
    <3>1. c = a * h + grain
      BY <1>1, <1>3, <2>3
    <3>2. grain \in 0..(a - 1)
      BY <1>3
    <3>3. c % a = grain
      BY <3>1, <3>2, MultipleOffset
    <3>4. AlignForward(c, a) = a * (h + 1) /\ h + 1 \in Int
      BY <1>3, <3>1, <3>3 DEF AlignForward
    <3>5. AlignForward(c, a) = grain * (m + 1) /\ m + 1 \in Int
      BY <1>1, <3>3 DEF AlignForward
    <3>6. AlignForward(c, a) % a = 0
      BY <3>4, MultipleMod
    <3>7. AlignForward(c, a) % grain = 0
      BY <3>5, MultipleMod
    <3> QED
      BY <1>3, <3>1, <3>4, <3>6, <3>7
  <2> QED
    BY <2>1, <2>2, <2>3
<1> QED
  BY <1>2, <1>3

\* Multiples are in the order of what they are multiples by.
LEMMA MultiplesOrdered ==
    ASSUME NEW a \in Nat \ {0}, NEW h \in Int, NEW d \in Int
    PROVE  /\ a * h < a * d => h < d
           /\ h <= d => a * h <= a * d
<1>1. h <= d => a * h <= a * d
  <2>1. SUFFICES ASSUME h <= d PROVE a * h <= a * d
    OBVIOUS
  <2>2. PICK e \in Nat : d = h + e
    <3>1. d - h \in Nat /\ d = h + (d - h)
      BY <2>1
    <3> QED
      BY <3>1
  <2>3. a * e \in Nat
    OBVIOUS
  <2>4. a * d = a * h + a * e
    BY <2>2
  <2> QED
    BY <2>3, <2>4
<1>2. d <= h => a * d <= a * h
  <2>1. SUFFICES ASSUME d <= h PROVE a * d <= a * h
    OBVIOUS
  <2>2. PICK e \in Nat : h = d + e
    <3>1. h - d \in Nat /\ h = d + (h - d)
      BY <2>1
    <3> QED
      BY <3>1
  <2>3. a * e \in Nat
    OBVIOUS
  <2>4. a * h = a * d + a * e
    BY <2>2
  <2> QED
    BY <2>3, <2>4
<1> QED
  BY <1>1, <1>2

\* The padding is inside a chunk that ends even.
LEMMA RoundedInside ==
    ASSUME NEW grain \in Nat \ {0}, NEW c \in Nat, c % grain = 0,
           NEW a \in Nat \ {0}, grain % a = 0 \/ a = 2 * grain,
           NEW size \in Nat, c <= size,
           a = 2 * grain => size % (2 * grain) < grain
    PROVE  AlignForward(c, a) <= size
<1>1. CASE AlignForward(c, a) = c
  BY <1>1
<1>2. ASSUME a = 2 * grain, NEW h \in Int, c = a * h + grain,
             AlignForward(c, a) = a * (h + 1)
      PROVE  AlignForward(c, a) <= size
  <2>1. PICK d \in Int, e \in Nat : size = a * d + e /\ e < grain
    <3>1. /\ size \div a \in Int /\ size % a \in Nat
          /\ size = a * (size \div a) + (size % a)
      OBVIOUS
    <3>2. size % a < grain
      BY <1>2
    <3> QED
      BY <3>1, <3>2
  <2>2. a * h \in Int /\ a * d \in Int
    OBVIOUS
  <2>3. a * h < a * d
    BY <1>2, <2>1, <2>2
  <2>4. h + 1 \in Int /\ h + 1 <= d
    BY <2>3, MultiplesOrdered
  <2>5. a * (h + 1) <= a * d
    BY <2>4, MultiplesOrdered
  <2>6. a * (h + 1) \in Int
    BY <2>4
  <2> QED
    BY <1>2, <2>1, <2>2, <2>5, <2>6
<1>3. \/ AlignForward(c, a) = c
      \/ /\ a = 2 * grain
         /\ \E h \in Int : /\ c = a * h + grain
                           /\ AlignForward(c, a) = a * (h + 1)
  BY RoundedOnGrain, ZenonT(30)
<1> QED
  BY <1>1, <1>2, <1>3

\* A remainder is no more than what it is one of.
LEMMA RemainderBelow ==
    ASSUME NEW x \in Nat, NEW w \in Nat \ {0}
    PROVE  x % w <= x
<1>1. CASE x < w
  BY <1>1
<1>2. CASE ~(x < w)
  <2>1. x % w \in Nat /\ x % w < w
    OBVIOUS
  <2> QED
    BY <1>2, <2>1
<1> QED
  BY <1>1, <1>2

\* The blocks after an allocation are those before and the new one.
LEMMA PlacedBlocks ==
    ASSUME IInv, NEW j \in Nat, NEW r \in Requests, NEW at \in Nat,
           blocks' = Append(blocks, Block(j, at, r))
    PROVE  \A b \in DOMAIN blocks' :
              \/ b \in DOMAIN blocks /\ blocks'[b] = blocks[b]
                 /\ blocks[b].chunk \in DOMAIN chunks
              \/ /\ blocks'[b].chunk = j /\ blocks'[b].at = at
                 /\ blocks'[b].size = r.size /\ blocks'[b].align = r.align
<1>1. r.size \in Nat \ {0} /\ r.align \in Nat \ {0}
  BY RequestAssumption
<1> DEFINE new == Block(j, at, r)
<1>2. /\ new \in LiveBlock /\ new.chunk = j
      /\ new.at = at /\ new.size = r.size /\ new.align = r.align
  BY <1>1 DEF Block, LiveBlock
<1> HIDE DEF new
<1>3. /\ \A b \in 1..Len(blocks) : blocks'[b] = blocks[b]
      /\ blocks'[Len(blocks) + 1] = new
      /\ DOMAIN blocks' = 1..(Len(blocks) + 1)
      /\ DOMAIN blocks = 1..Len(blocks) /\ Len(blocks) \in Nat
  BY <1>2, InvFacts, AppendProperties, LenProperties DEF new
<1>4. \A b \in DOMAIN blocks : blocks[b].chunk \in DOMAIN chunks
  BY DEF IInv, TypeOK
<1>5. ASSUME NEW b \in DOMAIN blocks'
      PROVE  b = Len(blocks) + 1 \/ b \in DOMAIN blocks
  BY <1>3
<1> QED
  BY <1>2, <1>3, <1>4, <1>5

LEMMA InitRInv == ASSUME NEW grain \in Nat \ {0} PROVE Init => RInv(grain)
<1> SUFFICES ASSUME Init PROVE RInv(grain)
  OBVIOUS
<1>1. chunks = <<>> /\ blocks = <<>>
  BY DEF Init
<1>2. DOMAIN chunks = {} /\ DOMAIN blocks = {}
  BY <1>1
<1> QED
  BY <1>2, InitIInv DEF RInv, AInv, BlocksInside, BlocksAligned

LEMMA NextAInv ==
    ASSUME NEW grain \in Nat \ {0}, HalfAligned(grain)
    PROVE  AInv(grain) /\ [Next]_vars => AInv(grain)'
<1> SUFFICES ASSUME AInv(grain), [Next]_vars PROVE AInv(grain)'
  OBVIOUS
<1>1. IInv /\ IInv'
  BY NextIInv DEF AInv
<1>2. \A j \in DOMAIN chunks :
        chunks[j].cursor \in Nat /\ chunks[j].cursor % grain = 0
  BY <1>1, InvFacts DEF AInv
<1>3. ASSUME NEW r \in Requests, NEW j \in Nat, NEW at \in Nat,
             at % r.align = 0,
             blocks' = Append(blocks, Block(j, at, r))
      PROVE  BlocksAligned'
  <2>1. \A b \in DOMAIN blocks' :
           \/ b \in DOMAIN blocks /\ blocks'[b] = blocks[b]
           \/ blocks'[b].at = at /\ blocks'[b].align = r.align
    BY <1>1, <1>3, PlacedBlocks
  <2> QED
    BY <1>3, <2>1 DEF AInv, BlocksAligned
<1>4. ASSUME NEW r \in Requests, Alloc(r) PROVE AInv(grain)'
  <2>1. PICK j \in FirstFitting(r), at \in Nat :
        /\ at = AlignForward(chunks[j].cursor, r.align)
        /\ blocks' = Append(blocks, Block(j, at, r))
        /\ j \in DOMAIN chunks /\ j \in Nat
        /\ DOMAIN chunks' = DOMAIN chunks
        /\ chunks'[j] = [size |-> chunks[j].size, cursor |-> at + r.size]
        /\ \A l \in DOMAIN chunks \ {j} : chunks'[l] = chunks[l]
    BY <1>1, <1>4, AllocChunks
  <2>2. r.size \in Nat /\ r.align \in Nat \ {0}
    BY RequestAssumption
  <2>3. r.size % grain = 0 /\ (grain % r.align = 0 \/ r.align = 2 * grain)
    BY DEF HalfAligned
  <2>4. at % r.align = 0 /\ at % grain = 0
    <3>1. PICK c \in Nat : c = chunks[j].cursor /\ c % grain = 0
      BY <1>2, <2>1
    <3>2. /\ AlignForward(c, r.align) % r.align = 0
          /\ AlignForward(c, r.align) % grain = 0
      BY <2>2, <2>3, <3>1, RoundedOnGrain
    <3> QED
      BY <2>1, <3>1, <3>2
  <2>5. (at + r.size) % grain = 0
    BY <2>2, <2>3, <2>4, MultiplesAdd
  <2>6. \A l \in DOMAIN chunks' : chunks'[l].cursor % grain = 0
    BY <1>2, <2>1, <2>5
  <2>7. BlocksAligned'
    BY <1>3, <2>1, <2>4
  <2> QED
    BY <1>1, <2>6, <2>7 DEF AInv
<1>5. ASSUME NEW r \in Requests, AllocInNewChunk(r) PROVE AInv(grain)'
  <2>1. /\ blocks' = Append(blocks, Block(Len(chunks) + 1, 0, r))
        /\ DOMAIN chunks' = 1..(Len(chunks) + 1)
        /\ chunks'[Len(chunks) + 1] =
              [size |-> DataSectionSize(r), cursor |-> r.size]
        /\ \A l \in DOMAIN chunks : chunks'[l] = chunks[l]
    BY <1>1, <1>5, NewChunkChunks
  <2>2. r.size % grain = 0 /\ r.align \in Nat \ {0}
    BY RequestAssumption DEF HalfAligned
  <2>3. DOMAIN chunks = 1..Len(chunks) /\ Len(chunks) \in Nat
    BY <1>1, InvFacts
  <2>4. ASSUME NEW l \in DOMAIN chunks' PROVE chunks'[l].cursor % grain = 0
    <3>1. l = Len(chunks) + 1 \/ l \in DOMAIN chunks
      BY <2>1, <2>3
    <3> QED
      BY <1>2, <2>1, <2>2, <3>1
  <2>5. PICK j \in Nat : j = Len(chunks) + 1
    BY <2>3
  <2>6. blocks' = Append(blocks, Block(j, 0, r)) /\ 0 % r.align = 0
    BY <2>1, <2>2, <2>5
  <2>7. BlocksAligned'
    BY <1>3, <2>6
  <2> QED
    BY <1>1, <2>4, <2>7 DEF AInv
<1>6. ASSUME NEW n \in 1..MaxBlocks, FreeBlock(n) PROVE AInv(grain)'
  <2>1. n \in DOMAIN blocks /\ blocks' = RemoveAt(blocks, n) /\ chunks' = chunks
    BY <1>6 DEF FreeBlock
  <2>2. \A m \in DOMAIN blocks' :
           \E b \in DOMAIN blocks : blocks'[m] = blocks[b]
    BY <1>1, <2>1, FreedBlocks
  <2>3. BlocksAligned'
    BY <2>2 DEF AInv, BlocksAligned
  <2> QED
    BY <1>1, <2>1, <2>3 DEF AInv
<1>7. CASE Reset
  <2>1. /\ blocks' = <<>>
        /\ chunks' = [j \in DOMAIN chunks |-> [chunks[j] EXCEPT !.cursor = 0]]
    BY <1>7 DEF Reset
  <2>2. DOMAIN blocks' = {} /\ DOMAIN chunks' = DOMAIN chunks
    BY <2>1
  <2>3. \A j \in DOMAIN chunks : chunks'[j].cursor = 0
    BY <1>1, <2>1, InvFacts DEF Chunk
  <2>4. 0 % grain = 0
    OBVIOUS
  <2> QED
    BY <1>1, <2>2, <2>3, <2>4 DEF AInv, BlocksAligned
<1>8. CASE Deinit
  <2>1. DOMAIN blocks' = {} /\ DOMAIN chunks' = {}
    BY <1>8 DEF Deinit
  <2> QED
    BY <1>1, <2>1 DEF AInv, BlocksAligned
<1>9. CASE UNCHANGED <<chunks, blocks>>
  BY <1>1, <1>9 DEF AInv, BlocksAligned
<1> QED
  BY <1>4, <1>5, <1>6, <1>7, <1>8, <1>9
  DEF Next, vars, ArenaInit, AllocNoMemory, Resize

LEMMA NextRInv ==
    ASSUME NEW grain \in Nat \ {0}, HalfAligned(grain), ChunksEven(grain)
    PROVE  RInv(grain) /\ [Next]_vars => RInv(grain)'
<1> SUFFICES ASSUME RInv(grain), [Next]_vars PROVE RInv(grain)'
  OBVIOUS
<1>1. AInv(grain) /\ AInv(grain)' /\ IInv /\ IInv'
  BY NextAInv DEF RInv, AInv
<1>2. /\ \A j \in DOMAIN chunks :
            /\ chunks[j].cursor \in Nat /\ chunks[j].size \in Nat
            /\ chunks[j].cursor % grain = 0
            /\ chunks[j].cursor <= chunks[j].size
            /\ EndsEven(chunks[j].size, grain)
      /\ DOMAIN chunks = 1..Len(chunks) /\ Len(chunks) \in Nat
  BY <1>1, InvFacts DEF RInv, AInv
<1>3. ASSUME NEW r \in Requests, NEW j \in Nat, NEW at \in Nat,
             at + r.size <= chunks'[j].size,
             \A l \in DOMAIN chunks : chunks'[l].size = chunks[l].size,
             blocks' = Append(blocks, Block(j, at, r))
      PROVE  BlocksInside'
  <2>1. \A b \in DOMAIN blocks' :
           \/ b \in DOMAIN blocks /\ blocks'[b] = blocks[b]
              /\ blocks[b].chunk \in DOMAIN chunks
           \/ /\ blocks'[b].chunk = j /\ blocks'[b].at = at
              /\ blocks'[b].size = r.size
    BY <1>1, <1>3, PlacedBlocks
  <2> QED
    BY <1>3, <2>1 DEF RInv, BlocksInside, Inside
<1>4. ASSUME NEW r \in Requests, Alloc(r) PROVE RInv(grain)'
  <2>1. PICK j \in FirstFitting(r), at \in Nat :
        /\ at = AlignForward(chunks[j].cursor, r.align)
        /\ blocks' = Append(blocks, Block(j, at, r))
        /\ j \in DOMAIN chunks /\ j \in Nat
        /\ DOMAIN chunks' = DOMAIN chunks
        /\ chunks'[j] = [size |-> chunks[j].size, cursor |-> at + r.size]
        /\ \A l \in DOMAIN chunks \ {j} : chunks'[l] = chunks[l]
    BY <1>1, <1>4, AllocChunks
  <2>2. r.size \in Nat /\ r.align \in Nat \ {0} /\ Word \in Nat \ {0}
    BY RequestAssumption, SizeAssumption
  <2>3. grain % r.align = 0 \/ r.align = 2 * grain
    BY DEF HalfAligned
  <2>4. r.align = 2 * grain => chunks[j].size % (2 * grain) < grain
    BY <1>2, <2>1 DEF EndsEven, Padded
  <2>5. at <= chunks[j].size
    BY <1>2, <2>1, <2>2, <2>3, <2>4, RoundedInside
  <2>6. at + r.size <= chunks[j].size
    <3>1. RestCapAligned(chunks[j], r.align) >= r.size
      BY DEF FirstFitting, Fitting
    <3>2. RestCapAligned(chunks[j], r.align) = (chunks[j].size - at) % Word
      BY <2>1 DEF RestCapAligned
    <3>3. PICK d \in Nat : d = chunks[j].size - at
      BY <1>2, <2>1, <2>5
    <3>4. d % Word <= d /\ d % Word \in Nat
      BY <2>2, RemainderBelow
    <3>5. r.size <= d
      BY <2>2, <3>1, <3>2, <3>3, <3>4
    <3> QED
      BY <1>2, <2>1, <2>2, <3>3, <3>5
  <2>7. BlocksInside'
    <3>1. \A l \in DOMAIN chunks : chunks'[l].size = chunks[l].size
      BY <2>1
    <3> QED
      BY <1>3, <2>1, <2>6, <3>1
  <2>8. \A l \in DOMAIN chunks' :
          chunks'[l].cursor <= chunks'[l].size /\ EndsEven(chunks'[l].size, grain)
    BY <1>2, <2>1, <2>6
  <2>9. \A l \in DOMAIN chunks' :
          chunks'[l].cursor <= chunks'[l].size /\ EndsEven(chunks[l].size, grain)'
    BY <2>8 DEF EndsEven, Padded
  <2> QED
    BY <1>1, <2>7, <2>9 DEF RInv
<1>5. ASSUME NEW r \in Requests, AllocInNewChunk(r) PROVE RInv(grain)'
  <2>1. /\ blocks' = Append(blocks, Block(Len(chunks) + 1, 0, r))
        /\ DOMAIN chunks' = 1..(Len(chunks) + 1)
        /\ chunks'[Len(chunks) + 1] =
              [size |-> DataSectionSize(r), cursor |-> r.size]
        /\ \A l \in DOMAIN chunks : chunks'[l] = chunks[l]
        /\ DataSectionSize(r) \in Nat /\ r.size <= DataSectionSize(r)
    BY <1>1, <1>5, NewChunkChunks
  <2>2. PICK j \in Nat : j = Len(chunks) + 1
    BY <1>2
  <2>3. /\ chunks'[j].size = DataSectionSize(r) /\ chunks'[j].cursor = r.size
        /\ blocks' = Append(blocks, Block(j, 0, r)) /\ r.size \in Nat
    BY <2>1, <2>2, RequestAssumption
  <2>4. BlocksInside'
    <3>1. \A l \in DOMAIN chunks : chunks'[l].size = chunks[l].size
      BY <2>1
    <3>2. 0 + r.size <= chunks'[j].size
      BY <2>1, <2>3
    <3> QED
      BY <1>3, <2>3, <3>1, <3>2
  <2>5. ASSUME NEW l \in DOMAIN chunks'
        PROVE  chunks'[l].cursor <= chunks'[l].size
               /\ EndsEven(chunks'[l].size, grain)
    <3>1. l = j \/ l \in DOMAIN chunks
      BY <1>2, <2>1, <2>2
    <3>2. EndsEven(DataSectionSize(r), grain)
      BY DEF ChunksEven
    <3> QED
      BY <1>2, <2>1, <2>3, <3>1, <3>2
  <2>6. \A l \in DOMAIN chunks' :
          chunks'[l].cursor <= chunks'[l].size /\ EndsEven(chunks[l].size, grain)'
    BY <2>5 DEF EndsEven, Padded
  <2> QED
    BY <1>1, <2>4, <2>6 DEF RInv
<1>6. ASSUME NEW n \in 1..MaxBlocks, FreeBlock(n) PROVE RInv(grain)'
  <2>1. n \in DOMAIN blocks /\ blocks' = RemoveAt(blocks, n) /\ chunks' = chunks
    BY <1>6 DEF FreeBlock
  <2>2. \A m \in DOMAIN blocks' :
           \E b \in DOMAIN blocks : blocks'[m] = blocks[b]
    BY <1>1, <2>1, FreedBlocks
  <2>3. BlocksInside'
    BY <2>1, <2>2 DEF RInv, BlocksInside, Inside
  <2> QED
    BY <1>1, <1>2, <2>1, <2>3 DEF RInv, EndsEven, Padded
<1>7. CASE Reset
  <2>1. /\ blocks' = <<>>
        /\ chunks' = [j \in DOMAIN chunks |-> [chunks[j] EXCEPT !.cursor = 0]]
    BY <1>7 DEF Reset
  <2>2. DOMAIN blocks' = {} /\ DOMAIN chunks' = DOMAIN chunks
    BY <2>1
  <2>3. \A j \in DOMAIN chunks :
           chunks'[j].cursor = 0 /\ chunks'[j].size = chunks[j].size
    BY <1>1, <2>1, InvFacts DEF Chunk
  <2>4. \A j \in DOMAIN chunks :
          chunks'[j].cursor <= chunks'[j].size /\ EndsEven(chunks[j].size, grain)'
    BY <1>2, <2>3 DEF EndsEven, Padded
  <2>5. BlocksInside'
    BY <2>2 DEF BlocksInside
  <2> QED
    BY <1>1, <2>2, <2>4, <2>5 DEF RInv
<1>8. CASE Deinit
  <2>1. DOMAIN blocks' = {} /\ DOMAIN chunks' = {}
    BY <1>8 DEF Deinit
  <2> QED
    BY <1>1, <2>1 DEF RInv, BlocksInside
<1>9. CASE UNCHANGED <<chunks, blocks>>
  BY <1>1, <1>2, <1>9 DEF RInv, BlocksInside, Inside, EndsEven, Padded
<1> QED
  BY <1>4, <1>5, <1>6, <1>7, <1>8, <1>9
  DEF Next, vars, ArenaInit, AllocNoMemory, Resize

\* BlocksAligned: for requests of whole grains, aligned for the grain, a part
\* of it or its double, arena_alloc keeps the alignment it was asked for,
\* however the requests follow each other.
THEOREM AlignedCorrect ==
    ASSUME NEW grain \in Nat \ {0}, HalfAligned(grain)
    PROVE  Spec => []BlocksAligned
<1>1. Init => AInv(grain)
  BY InitRInv DEF RInv
<1>2. AInv(grain) => BlocksAligned
  BY DEF AInv
<1> QED
  BY <1>1, <1>2, NextAInv, PTL DEF Spec

LEMMA AlwaysRInv ==
    ASSUME NEW grain \in Nat \ {0}, HalfAligned(grain), ChunksEven(grain)
    PROVE  Spec => []RInv(grain)
<1> QED
  BY InitRInv, NextRInv, PTL DEF Spec

\* BlocksInside: when, moreover, no chunk ends in the second half of an
\* alignment, no block leaves its chunk: the difference of arena.h:102 does not
\* wrap, wherever the frees and resets leave the cursors.
THEOREM InsideCorrect ==
    ASSUME NEW grain \in Nat \ {0}, HalfAligned(grain), ChunksEven(grain)
    PROVE  Spec => []BlocksInside
<1>1. RInv(grain) => BlocksInside
  BY DEF RInv
<1> QED
  BY <1>1, AlwaysRInv, PTL

\* BlocksDisjoint: under the same conditions arena_alloc gives out no byte of
\* memory that a live block has, of the same chunk or of another one.
THEOREM DisjointCorrect ==
    ASSUME NEW grain \in Nat \ {0}, HalfAligned(grain), ChunksEven(grain)
    PROVE  Spec => []BlocksDisjoint
<1>1. RInv(grain) => BlocksDisjoint
  BY DEF RInv, AInv, IInv, OffsetsApart, BlocksInside, BlocksDisjoint
<1> QED
  BY <1>1, AlwaysRInv, PTL

-----------------------------------------------------------------------------

\* Every step of the arena over its list is a step of Arena, or none.
LEMMA ListStep == [ListNext]_<<vars, listVars>> => [Next]_vars
<1> SUFFICES ASSUME [ListNext]_<<vars, listVars>>
             PROVE  [Next]_vars
  OBVIOUS
<1>1. CASE InitWithList
  BY <1>1 DEF InitWithList, Next
<1>2. CASE \E r \in Requests : AllocPushing(r)
  BY <1>2 DEF AllocPushing, Next
<1>3. CASE DeinitFreeing
  BY <1>3 DEF DeinitFreeing, Next
<1>4. CASE OnChunks
  BY <1>4 DEF OnChunks, Next
<1>5. CASE ListIter
  BY <1>5 DEF ListIter
<1>6. CASE ListIterNext
  BY <1>6 DEF ListIterNext
<1>7. CASE UNCHANGED <<vars, listVars>>
  BY <1>7
<1> QED
  BY <1>1, <1>2, <1>3, <1>4, <1>5, <1>6, <1>7 DEF ListNext

\* The arena over the list it keeps its chunks in does what Arena does,
\* whatever an iterator over the list does meanwhile.
THEOREM ListImplementsArena == ListSpec => Spec
<1>1. ListInit => Init
  BY DEF ListInit
<1> QED
  BY <1>1, ListStep, PTL DEF Spec, ListSpec

-----------------------------------------------------------------------------
(* The list, as the sequence of its nodes.                                 *)

MaybeNode == Node \union {Nil}
ListRecord == [head : MaybeNode, tail : MaybeNode, len : Nat]
NodeRecord == [next : MaybeNode, prev : MaybeNode, chunk : Nat]
IterRecord == [cursor : MaybeNode, len : Nat, returned : Seq(Nat)]

\* The entry of p at k, and Nil where there is none.
At(p, k) == IF k \in 1..Len(p) THEN p[k] ELSE Nil

ListAlong(p) ==
    list = [head |-> At(p, 1), tail |-> At(p, Len(p)), len |-> Len(p)]
NodesAlong(p) ==
    \A k \in 1..Len(p) :
        node[p[k]] = [next |-> At(p, k + 1), prev |-> At(p, k - 1), chunk |-> k]
OnlyAlong(p) == \A n \in Node : node[n] # Unused => \E k \in 1..Len(p) : p[k] = n
Distinct(p) == \A k, l \in 1..Len(p) : p[k] = p[l] => k = l

\* How many chunks there were when the iterator was made, modulo Word.
Due == (iter.len + Len(iter.returned)) % Word
IterAlong(p) ==
    iter # Nil =>
        /\ iter \in IterRecord
        /\ \A k \in 1..Len(iter.returned) : iter.returned[k] = k
        /\ Len(iter.returned) <= Len(p)
        /\ Due <= Len(p)
        /\ iter.cursor # Nil =>
              /\ Len(iter.returned) < Len(p)
              /\ iter.cursor = p[Len(iter.returned) + 1]
        /\ iter.cursor = Nil => Len(iter.returned) >= Due

Holds(p) ==
    /\ p \in Seq(Node)
    /\ Len(p) = Len(chunks) /\ Len(p) <= MaxChunks
    /\ Distinct(p)
    /\ ListAlong(p) /\ NodesAlong(p) /\ OnlyAlong(p) /\ IterAlong(p)

LInv ==
    /\ IInv
    /\ node \in [Node -> NodeRecord \union {Unused}]
    /\ open => \E p \in Seq(Node) : Holds(p)
    /\ ~open => /\ list = Nil /\ iter = Nil /\ chunks = <<>>
                /\ \A n \in Node : node[n] = Unused

\* The list record, each node record and each iterator is not Nil or Unused.
LEMMA Apart ==
    /\ Nil \notin Node /\ Nil \notin ListRecord /\ Nil \notin IterRecord
    /\ Unused \notin NodeRecord
BY NodeAssumption DEF ListRecord, IterRecord, NodeRecord, MaybeNode

\* An entry is a node exactly within the sequence.
LEMMA AtType ==
    ASSUME NEW p \in Seq(Node), NEW k \in Int
    PROVE  /\ At(p, k) \in MaybeNode
           /\ k \in 1..Len(p) => At(p, k) = p[k] /\ At(p, k) \in Node
           /\ At(p, k) # Nil <=> k \in 1..Len(p)
<1>1. k \in 1..Len(p) => p[k] \in Node
  BY ElementOfSeq
<1> QED
  BY <1>1, Apart DEF At, MaybeNode

\* A walk along next passes the nodes of p, and then Nil.
LEMMA WalkAlong ==
    ASSUME NEW p, Holds(p)
    PROVE  \A k \in Nat : Walk[k] = At(p, k + 1)
<1> DEFINE Body(f) == [k \in Nat |->
             IF k = 0 THEN list.head
             ELSE IF f[k - 1] = Nil THEN Nil ELSE node[f[k - 1]].next]
           path == [k \in Nat |-> At(p, k + 1)]
<1>1. p \in Seq(Node) /\ Len(p) \in Nat
  BY LenProperties DEF Holds
<1>2. list.head = At(p, 1)
  BY DEF Holds, ListAlong
<1>3. ASSUME NEW k \in Nat \ {0}
      PROVE  At(p, k + 1) = IF At(p, k) = Nil THEN Nil ELSE node[At(p, k)].next
  <2>1. CASE k \in 1..Len(p)
    <3>1. At(p, k) = p[k] /\ At(p, k) # Nil
      BY <1>1, <2>1, AtType
    <3>2. node[p[k]] = [next |-> At(p, k + 1), prev |-> At(p, k - 1), chunk |-> k]
      BY <2>1 DEF Holds, NodesAlong
    <3> QED
      BY <3>1, <3>2
  <2>2. CASE k \notin 1..Len(p)
    BY <1>1, <2>2, <1>3, AtType DEF At
  <2> QED
    BY <2>1, <2>2
<1>4. path = Body(path)
  <2>1. ASSUME NEW k \in Nat
        PROVE  path[k] = IF k = 0 THEN list.head
                         ELSE IF path[k - 1] = Nil THEN Nil
                              ELSE node[path[k - 1]].next
    <3>1. CASE k = 0
      BY <1>2, <3>1
    <3>2. CASE k # 0
      <4>1. k - 1 \in Nat /\ k \in Nat \ {0}
        BY <3>2
      <4>2. path[k - 1] = At(p, k) /\ path[k] = At(p, k + 1)
        BY <4>1
      <4>3. At(p, k + 1) = IF At(p, k) = Nil THEN Nil ELSE node[At(p, k)].next
        BY <4>1, <1>3
      <4> HIDE DEF path
      <4> QED
        BY <3>2, <4>2, <4>3
    <3> QED
      BY <3>1, <3>2
  <2> QED
    BY <2>1
<1> HIDE DEF path
<1>5. Walk = CHOOSE f : f = Body(f)
  BY DEF Walk
<1>6. Walk = Body(Walk)
  BY <1>4, <1>5
<1>7. \A k \in Nat : Walk[k] = IF k = 0 THEN list.head
                               ELSE IF Walk[k - 1] = Nil THEN Nil
                                    ELSE node[Walk[k - 1]].next
  BY <1>6
<1>8. \A k \in Nat : path[k] = IF k = 0 THEN list.head
                               ELSE IF path[k - 1] = Nil THEN Nil
                                    ELSE node[path[k - 1]].next
  BY <1>4
<1>9. \A k \in Nat : Walk[k] = path[k]
  <2> DEFINE Off == {k \in Nat : Walk[k] # path[k]}
  <2>1. CASE Off = {}
    BY <2>1
  <2>2. CASE Off # {}
    <3>1. Off \subseteq Nat
      OBVIOUS
    <3>2. PICK k \in Off : \A l \in Off : k <= l
      BY <2>2, <3>1, LeastElement
    <3>3. k \in Nat /\ Walk[k] # path[k]
      OBVIOUS
    <3>4. k # 0
      BY <3>3, <1>7, <1>8
    <3>5. k - 1 \in Nat /\ ~(k <= k - 1)
      BY <3>3, <3>4
    <3>6. Walk[k - 1] = path[k - 1]
      BY <3>2, <3>5
    <3> QED
      BY <3>3, <3>4, <3>5, <3>6, <1>7, <1>8
  <2> QED
    BY <2>1, <2>2
<1> QED
  BY <1>9 DEF path

-----------------------------------------------------------------------------

\* The invariant: the list follows some sequence of nodes, and so does the
\* iterator; ListHoldsChunks alone does not say that no node comes twice.
LEMMA InitLInv == ListInit => LInv
<1> SUFFICES ASSUME ListInit PROVE LInv
  OBVIOUS
<1>1. Init /\ list = Nil /\ node = [n \in Node |-> Unused] /\ iter = Nil
  BY DEF ListInit
<1>2. IInv
  BY <1>1, InitIInv
<1> QED
  BY <1>1, <1>2 DEF LInv, Init

\* The iterator, over a list with as many nodes or one more.
LEMMA IterKept ==
    ASSUME NEW p \in Seq(Node), NEW q \in Seq(Node), IterAlong(p), iter' = iter,
           Len(p) <= Len(q), \A k \in 1..Len(p) : q[k] = p[k]
    PROVE  IterAlong(q)'
<1>1. Len(p) \in Nat /\ Len(q) \in Nat
  BY LenProperties
<1> SUFFICES ASSUME iter # Nil
             PROVE  IterAlong(q)'
  BY DEF IterAlong
<1>2. /\ iter \in IterRecord /\ iter.returned \in Seq(Nat)
      /\ Len(iter.returned) \in Nat /\ iter.len \in Nat
  BY LenProperties DEF IterAlong, IterRecord
<1>3. Due \in Nat /\ Due' = Due
  BY <1>2, SizeAssumption DEF Due
<1>4. /\ \A k \in 1..Len(iter.returned) : iter.returned[k] = k
      /\ Len(iter.returned) <= Len(q)
      /\ Due <= Len(q)
      /\ iter.cursor # Nil =>
              /\ Len(iter.returned) < Len(q)
              /\ iter.cursor = q[Len(iter.returned) + 1]
      /\ iter.cursor = Nil => Len(iter.returned) >= Due
  BY <1>1, <1>2, <1>3 DEF IterAlong
<1> QED
  BY <1>2, <1>3, <1>4 DEF IterAlong

\* A push: the path goes on with the new node.
LEMMA PushAlong ==
    ASSUME NEW p, Holds(p), NEW n \in Node, node[n] = Unused,
           node \in [Node -> NodeRecord \union {Unused}],
           PushNode(n, Len(p) + 1), iter' = iter,
           Len(chunks') = Len(p) + 1, Len(p) < MaxChunks
    PROVE  /\ Holds(Append(p, n))'
           /\ node' \in [Node -> NodeRecord \union {Unused}]
<1> DEFINE q == Append(p, n)
           len == Len(p)
<1>1. p \in Seq(Node) /\ len \in Nat
  BY LenProperties DEF Holds
<1>2. /\ q \in Seq(Node) /\ Len(q) = len + 1
      /\ q[len + 1] = n /\ \A k \in 1..len : q[k] = p[k]
  BY <1>1, AppendProperties
<1> HIDE DEF q, len
<1>3. \A k \in 1..len : /\ p[k] \in Node /\ node[p[k]] \in NodeRecord
                        /\ node[p[k]] # Unused /\ p[k] # n
  <2> SUFFICES ASSUME NEW k \in 1..len
               PROVE  p[k] \in Node /\ node[p[k]] \in NodeRecord
    BY Apart
  <2>1. p[k] \in Node
    BY <1>1, ElementOfSeq DEF len
  <2>2. node[p[k]] = [next |-> At(p, k + 1), prev |-> At(p, k - 1), chunk |-> k]
    BY DEF Holds, NodesAlong, len
  <2>3. At(p, k + 1) \in MaybeNode /\ At(p, k - 1) \in MaybeNode /\ k \in Nat
    BY <1>1, AtType
  <2> QED
    BY <2>1, <2>2, <2>3 DEF NodeRecord
<1>4. /\ list.head = At(p, 1) /\ list.tail = At(p, len) /\ list.len = len
      /\ DOMAIN list = {"head", "tail", "len"}
      /\ list = [head |-> list.head, tail |-> list.tail, len |-> len]
  BY DEF Holds, ListAlong, len
<1>5. Distinct(q)
  BY <1>1, <1>2, <1>3 DEF Holds, Distinct, len
<1>6. \A k \in Int : /\ k \in 1..len => At(q, k) = p[k]
                     /\ k = len + 1 => At(q, k) = n
                     /\ k \notin 1..(len + 1) => At(q, k) = Nil
  BY <1>1, <1>2 DEF At
<1>7. /\ list' = [head |-> At(q, 1), tail |-> n, len |-> len + 1]
      /\ node' \in [Node -> NodeRecord \union {Unused}]
      /\ node'[n] = [next |-> Nil, prev |-> At(q, len), chunk |-> len + 1]
      /\ len # 0 => node'[p[len]] =
            [next |-> n, prev |-> At(q, len - 1), chunk |-> len]
      /\ \A m \in Node : m # n /\ (len # 0 => m # p[len]) => node'[m] = node[m]
  <2>1. CASE len = 0
    <3>1. list.head = Nil
      BY <1>4, <2>1, <1>1 DEF At, len
    <3>2. /\ list' = [head |-> n, tail |-> n, len |-> list.len + 1]
          /\ node' = [node EXCEPT ![n] = NewNode(len + 1)]
      BY <3>1 DEF PushNode, len
    <3>3. NewNode(len + 1) \in NodeRecord
      BY <1>1 DEF NewNode, NodeRecord, MaybeNode
    <3>4. At(q, 1) = n /\ At(q, len) = Nil
      BY <1>6, <2>1
    <3> QED
      BY <2>1, <3>2, <3>3, <3>4, <1>4 DEF NewNode
  <2>2. CASE len # 0
    <3>1. 1 \in 1..len /\ len \in 1..len
      BY <1>1, <2>2
    <3>2. /\ list.head = p[1] /\ list.tail = p[len] /\ list.head # Nil
          /\ At(q, 1) = p[1] /\ At(q, len) = p[len]
      BY <3>1, <1>1, <1>3, <1>4, <1>6, Apart DEF At, len
    <3>3. /\ list' = [list EXCEPT !.tail = n, !.len = @ + 1]
          /\ node' = [node EXCEPT
                        ![p[len]].next = n,
                        ![n] = [NewNode(len + 1) EXCEPT !.prev = p[len]]]
      BY <3>2 DEF PushNode, len
    <3>4. list' = [head |-> p[1], tail |-> n, len |-> len + 1]
      BY <3>2, <3>3, <1>4
    <3> DEFINE new == [next |-> Nil, prev |-> p[len], chunk |-> len + 1]
               old == [next |-> n, prev |-> node[p[len]].prev,
                       chunk |-> node[p[len]].chunk]
    <3>5. [NewNode(len + 1) EXCEPT !.prev = p[len]] = new
      BY DEF NewNode
    <3>6. [node[p[len]] EXCEPT !.next = n] = old
      BY <1>3, <3>1 DEF NodeRecord
    <3>7. node' = [[node EXCEPT ![p[len]] = [@ EXCEPT !.next = n]] EXCEPT ![n] = new]
      BY <3>3, <3>5
    <3>8. node' = [[node EXCEPT ![p[len]] = old] EXCEPT ![n] = new]
      BY <3>6, <3>7
    <3>9. /\ node[p[len]] = [next |-> At(p, len + 1), prev |-> At(p, len - 1),
                             chunk |-> len]
          /\ At(p, len - 1) = At(q, len - 1)
      BY <3>1, <1>1, <1>6, <1>2 DEF Holds, NodesAlong, At, len
    <3>10. old = [next |-> n, prev |-> At(q, len - 1), chunk |-> len]
      BY <3>9
    <3>11. new \in NodeRecord /\ old \in NodeRecord
      <4>1. p[len] \in Node /\ node[p[len]] \in NodeRecord
        BY <1>3, <3>1
      <4> QED
        BY <4>1, <1>1 DEF NodeRecord, MaybeNode
    <3>12. p[len] \in Node /\ p[len] # n
      BY <1>3, <3>1
    <3> HIDE DEF new, old
    <3>13. /\ node' \in [Node -> NodeRecord \union {Unused}]
           /\ node'[n] = new /\ node'[p[len]] = old
           /\ \A m \in Node : m # n /\ m # p[len] => node'[m] = node[m]
      BY <3>8, <3>11, <3>12
    <3> QED
      BY <2>2, <3>2, <3>4, <3>10, <3>13 DEF new
  <2> QED
    BY <2>1, <2>2
<1>8. ListAlong(q)'
  BY <1>1, <1>2, <1>6, <1>7 DEF ListAlong
<1>9. NodesAlong(q)'
  <2> SUFFICES ASSUME NEW k \in 1..(len + 1)
               PROVE  node'[q[k]] = [next |-> At(q, k + 1), prev |-> At(q, k - 1),
                                     chunk |-> k]
    BY <1>2 DEF NodesAlong
  <2>1. CASE k = len + 1
    BY <2>1, <1>1, <1>2, <1>6, <1>7
  <2>2. CASE k = len
    BY <2>2, <1>1, <1>2, <1>6, <1>7
  <2>3. CASE k < len
    <3>1. k \in 1..len /\ k + 1 \in 1..len /\ len \in 1..len /\ k # len
      BY <2>3, <1>1
    <3>2. p[k] # p[len] /\ p[k] # n /\ p[k] \in Node /\ q[k] = p[k]
      BY <3>1, <1>2, <1>3 DEF Holds, Distinct, len
    <3>3. node'[q[k]] = node[p[k]]
      BY <3>1, <3>2, <1>7
    <3>4. node[p[k]] = [next |-> At(p, k + 1), prev |-> At(p, k - 1), chunk |-> k]
      BY <3>1 DEF Holds, NodesAlong, len
    <3>5. At(p, k + 1) = At(q, k + 1) /\ At(p, k - 1) = At(q, k - 1)
      BY <3>1, <1>1, <1>6 DEF At, len
    <3> QED
      BY <3>3, <3>4, <3>5
  <2> QED
    BY <1>1, <2>1, <2>2, <2>3
<1>10. OnlyAlong(q)'
  <2> SUFFICES ASSUME NEW m \in Node, node'[m] # Unused
               PROVE  \E k \in 1..(len + 1) : q[k] = m
    BY <1>2 DEF OnlyAlong
  <2>1. CASE m = n
    BY <2>1, <1>1, <1>2
  <2>2. CASE m # n
    <3>1. \E k \in 1..len : p[k] = m
      <4>1. CASE node[m] # Unused
        BY <4>1 DEF Holds, OnlyAlong, len
      <4>2. CASE node[m] = Unused
        <5>1. len # 0 /\ m = p[len]
          BY <4>2, <2>2, <1>7
        <5> QED
          BY <5>1, <1>1
      <4> QED
        BY <4>1, <4>2
    <3>2. PICK k \in 1..len : p[k] = m
      BY <3>1
    <3>3. k \in 1..(len + 1) /\ q[k] = m
      BY <3>2, <1>1, <1>2
    <3> QED
      BY <3>3
  <2> QED
    BY <2>1, <2>2
<1>11. IterAlong(q)'
  <2>1. Len(p) <= Len(q) /\ \A k \in 1..Len(p) : q[k] = p[k]
    BY <1>1, <1>2 DEF len
  <2>2. IterAlong(p)
    BY DEF Holds
  <2> QED
    BY <2>1, <2>2, <1>1, <1>2, IterKept
<1>12. Len(q) = Len(chunks') /\ Len(q) <= MaxChunks
  BY <1>1, <1>2, SizeAssumption DEF len
<1> QED
  BY <1>2, <1>5, <1>7, <1>8, <1>9, <1>10, <1>11, <1>12 DEF Holds, q, Distinct

\* Nothing on the list changes, and there are as many chunks.
LEMMA HoldsKept ==
    ASSUME NEW p, Holds(p), UNCHANGED listVars, Len(chunks') = Len(chunks)
    PROVE  Holds(p)'
BY DEF Holds, listVars, Distinct, ListAlong, NodesAlong, OnlyAlong, IterAlong, Due

\* What is in use is passed by the walk of list_free.
LEMMA UsedIsWalked ==
    ASSUME NEW p, Holds(p), NEW n \in Node, node[n] # Unused
    PROVE  n \in Walked
<1>1. /\ p \in Seq(Node) /\ Len(p) \in Nat /\ Len(p) <= MaxChunks
      /\ MaxChunks \in Nat
  BY LenProperties, SizeAssumption DEF Holds
<1>2. PICK k \in 1..Len(p) : p[k] = n
  BY DEF Holds, OnlyAlong
<1>3. k - 1 \in Nat /\ (k - 1) + 1 = k /\ k - 1 \in 0..(MaxChunks - 1)
  BY <1>1
<1>4. Walk[k - 1] = At(p, k) /\ At(p, k) = n
  <2>1. \A j \in Nat : Walk[j] = At(p, j + 1)
    BY WalkAlong
  <2>2. Walk[k - 1] = At(p, (k - 1) + 1)
    BY <1>3, <2>1
  <2> QED
    BY <1>2, <1>3, <2>2 DEF At
<1> QED
  BY <1>3, <1>4, Apart DEF Walked

\* Counting down modulo w and returning one more leave what is due.
LEMMA CountedDown ==
    ASSUME NEW w \in Nat \ {0}, NEW len \in Nat, NEW r \in Nat
    PROVE  (((len - 1) % w) + (r + 1)) % w = (len + r) % w
<1> DEFINE a == (len - 1) % w
           k == (len - 1) \div w
           b == (len + r) % w
           l == (len + r) \div w
<1>1. a \in Nat /\ k \in Int /\ len - 1 = w * k + a
  OBVIOUS
<1>2. b \in 0..(w - 1) /\ l \in Int /\ len + r = w * l + b
  OBVIOUS
<1> HIDE DEF a, k, b, l
<1>3. PICK d \in Int : a + (r + 1) = w * d + b
  <2>1. l - k \in Int /\ a + (r + 1) = w * (l - k) + b
    BY <1>1, <1>2
  <2> QED
    BY <2>1
<1>4. (w * d + b) % w = b
  BY <1>2, MultipleOffset
<1>5. (a + (r + 1)) % w = b
  BY <1>3, <1>4
<1> QED
  BY <1>5 DEF a, b

\* list_iter_next returns the chunk of the next node.
LEMMA NextAlong ==
    ASSUME NEW p, Holds(p), NextNode, UNCHANGED <<vars, list, node>>
    PROVE  Holds(p)'
<1>1. /\ iter # Nil /\ iter.cursor # Nil
      /\ Returning(iter.cursor, node[iter.cursor].next)
  BY DEF NextNode
<1> DEFINE r == Len(iter.returned)
<1>2. /\ p \in Seq(Node) /\ Len(p) \in Nat
      /\ iter \in IterRecord /\ iter.returned \in Seq(Nat) /\ r \in Nat
      /\ iter.len \in Nat
  BY <1>1, LenProperties DEF Holds, IterAlong, IterRecord
<1> HIDE DEF r
<1>3. /\ r < Len(p) /\ iter.cursor = p[r + 1]
      /\ \A k \in 1..r : iter.returned[k] = k
      /\ Due = (iter.len + r) % Word /\ Due <= Len(p)
  BY <1>1 DEF Holds, IterAlong, Due, r
<1>4. r + 1 \in 1..Len(p)
  BY <1>2, <1>3
<1>5. node[iter.cursor] = [next |-> At(p, r + 2), prev |-> At(p, r), chunk |-> r + 1]
  <2>1. \A k \in 1..Len(p) :
          node[p[k]] = [next |-> At(p, k + 1), prev |-> At(p, k - 1), chunk |-> k]
    BY DEF Holds, NodesAlong
  <2>2. (r + 1) + 1 = r + 2 /\ (r + 1) - 1 = r
    BY <1>2
  <2>3. node[p[r + 1]] = [next |-> At(p, (r + 1) + 1), prev |-> At(p, (r + 1) - 1),
                          chunk |-> r + 1]
    BY <1>4, <2>1
  <2> QED
    BY <2>2, <2>3, <1>3
<1> DEFINE len == (iter.len - 1) % Word
           got == Append(iter.returned, r + 1)
<1>6. iter' = [cursor |-> At(p, r + 2), len |-> len, returned |-> got]
  BY <1>1, <1>5 DEF Returning
<1>7. len \in Nat
  BY <1>2, SizeAssumption
<1>8. /\ got \in Seq(Nat) /\ Len(got) = r + 1
      /\ got[r + 1] = r + 1 /\ \A k \in 1..r : got[k] = iter.returned[k]
  BY <1>2, AppendProperties DEF r
<1>9. (len + (r + 1)) % Word = (iter.len + r) % Word
  BY <1>2, CountedDown, SizeAssumption
<1> HIDE DEF len, got
<1>10. /\ At(p, r + 2) \in MaybeNode
       /\ At(p, r + 2) # Nil => r + 2 \in 1..Len(p) /\ At(p, r + 2) = p[r + 2]
       /\ At(p, r + 2) = Nil => r + 1 >= Len(p)
  <2>1. r + 2 \in Int
    BY <1>2
  <2>2. /\ At(p, r + 2) \in MaybeNode
        /\ r + 2 \in 1..Len(p) => At(p, r + 2) = p[r + 2]
        /\ At(p, r + 2) # Nil <=> r + 2 \in 1..Len(p)
    BY <1>2, <2>1, AtType
  <2> QED
    BY <1>2, <2>2
<1>11. iter' \in IterRecord
  BY <1>6, <1>7, <1>8, <1>10 DEF IterRecord
<1>12. /\ iter'.returned = got /\ iter'.cursor = At(p, r + 2) /\ iter'.len = len
       /\ Due' = Due
  BY <1>3, <1>6, <1>8, <1>9 DEF Due
<1>13. IterAlong(p)'
  <2>1. ASSUME NEW k \in 1..(r + 1) PROVE got[k] = k
    <3>1. k = r + 1 \/ k \in 1..r
      BY <1>2
    <3> QED
      BY <1>3, <1>8, <3>1
  <2>2. r + 1 <= Len(p) /\ Due <= Len(p)
    BY <1>2, <1>3
  <2>3. Due \in Nat
    BY <1>2, <1>3, SizeAssumption
  <2>4. At(p, r + 2) # Nil => r + 1 < Len(p) /\ At(p, r + 2) = p[(r + 1) + 1]
    BY <1>2, <1>10
  <2>5. At(p, r + 2) = Nil => r + 1 >= Due
    BY <1>2, <1>10, <2>2, <2>3
  <2> QED
    BY <1>8, <1>11, <1>12, <2>1, <2>2, <2>4, <2>5 DEF IterAlong
<1> QED
  BY <1>13 DEF Holds, vars, Distinct, ListAlong, NodesAlong, OnlyAlong

\* Every step keeps a sequence of nodes; a push makes it longer.
LEMMA NextLInv == LInv /\ [ListNext]_<<vars, listVars>> => LInv'
<1> SUFFICES ASSUME LInv, [ListNext]_<<vars, listVars>>
             PROVE  LInv'
  OBVIOUS
<1>1. IInv /\ IInv'
  BY NextIInv, ListStep DEF LInv
<1>2. node \in [Node -> NodeRecord \union {Unused}]
  BY DEF LInv
<1>3. ASSUME open PROVE \E p \in Seq(Node) : Holds(p)
  BY <1>3 DEF LInv
<1>4. /\ open \in BOOLEAN /\ open' \in BOOLEAN
      /\ chunks \in Seq(Chunk) /\ Len(chunks) \in Nat
  BY <1>1, InvFacts DEF IInv, TypeOK
<1>5. CASE InitWithList
  <2>1. /\ ArenaInit /\ UNCHANGED <<node, iter, chunks>>
        /\ list' = IF open' THEN NewList ELSE Nil
        /\ ~open /\ list = Nil /\ iter = Nil /\ chunks = <<>>
        /\ \A n \in Node : node[n] = Unused
    BY <1>5 DEF InitWithList, ArenaInit, LInv
  <2>2. CASE open'
    <3>1. list' = [head |-> Nil, tail |-> Nil, len |-> 0] /\ chunks' = <<>>
      BY <2>1, <2>2 DEF NewList
    <3> DEFINE p == <<>>
    <3>2. p \in Seq(Node) /\ Len(p) = 0 /\ 1..0 = {} /\ 0 <= MaxChunks
      BY SizeAssumption
    <3>3. Holds(p)'
      BY <2>1, <3>1, <3>2
      DEF Holds, Distinct, ListAlong, NodesAlong, OnlyAlong, IterAlong, At
    <3> QED
      BY <1>1, <1>2, <2>1, <2>2, <3>2, <3>3 DEF LInv
  <2>3. CASE ~open'
    BY <1>1, <1>2, <2>1, <2>3 DEF LInv
  <2> QED
    BY <2>2, <2>3
<1>6. ASSUME NEW r \in Requests, AllocPushing(r) PROVE LInv'
  <2>1. /\ AllocInNewChunk(r) /\ iter' = iter
        /\ open /\ open' = open /\ Len(chunks) < MaxChunks
    BY <1>6 DEF AllocPushing, AllocInNewChunk
  <2>2. PICK p \in Seq(Node) : Holds(p)
    BY <2>1, <1>3
  <2>3. Len(p) = Len(chunks)
    BY <2>2 DEF Holds
  <2>4. Len(chunks') = Len(p) + 1
    <3>1. chunks' \in Seq(Chunk) /\ DOMAIN chunks' = 1..(Len(chunks) + 1)
      BY <1>1, <2>1, NewChunkChunks
    <3>2. Len(chunks') \in Nat /\ DOMAIN chunks' = 1..Len(chunks')
      BY <3>1, LenProperties
    <3> QED
      BY <2>3, <1>4, <3>1, <3>2
  <2>5. PICK n \in Node : node[n] = Unused /\ PushNode(n, Len(p) + 1)
    BY <1>6, <2>4 DEF AllocPushing
  <2>6. /\ Holds(Append(p, n))'
        /\ node' \in [Node -> NodeRecord \union {Unused}]
    BY <1>2, <2>1, <2>2, <2>3, <2>4, <2>5, PushAlong
  <2>7. Append(p, n) \in Seq(Node)
    BY <2>2, <2>5, AppendProperties
  <2> QED
    BY <1>1, <2>1, <2>6, <2>7 DEF LInv
<1>7. CASE DeinitFreeing
  <2>1. /\ open /\ ~open' /\ chunks' = <<>> /\ list' = Nil /\ iter' = Nil
        /\ node' = [n \in Node |-> IF n \in Walked THEN Unused ELSE node[n]]
    BY <1>7 DEF DeinitFreeing, Deinit
  <2>2. PICK p \in Seq(Node) : Holds(p)
    BY <2>1, <1>3
  <2>3. ASSUME NEW n \in Node, node[n] # Unused PROVE n \in Walked
    BY <2>2, <2>3, UsedIsWalked
  <2>4. \A n \in Node : node'[n] = Unused
    BY <2>1, <2>3
  <2>5. node' \in [Node -> NodeRecord \union {Unused}]
    BY <2>1, <1>2
  <2> QED
    BY <1>1, <2>1, <2>4, <2>5 DEF LInv
<1>8. CASE OnChunks
  <2>1. UNCHANGED listVars
    BY <1>8 DEF OnChunks
  <2>2. open /\ open' = open /\ Len(chunks') = Len(chunks)
    <3>1. ASSUME NEW r \in Requests, Alloc(r)
          PROVE  Len(chunks') = Len(chunks)
      <4>1. chunks' \in Seq(Chunk) /\ DOMAIN chunks' = DOMAIN chunks
        BY <1>1, <3>1, AllocChunks
      <4> QED
        BY <1>4, <4>1, LenProperties
    <3>2. ASSUME Reset PROVE Len(chunks') = Len(chunks)
      <4>1. chunks' = [j \in DOMAIN chunks |-> [chunks[j] EXCEPT !.cursor = 0]]
        BY <3>2 DEF Reset
      <4>2. chunks' \in Seq(Chunk) /\ DOMAIN chunks' = DOMAIN chunks
        BY <4>1, <1>1 DEF IInv, TypeOK, Chunk
      <4> QED
        BY <1>4, <4>2, LenProperties
    <3> QED
      BY <1>8, <3>1, <3>2
      DEF OnChunks, Alloc, AllocNoMemory, FreeBlock, Resize, Reset
  <2>3. PICK p \in Seq(Node) : Holds(p)
    BY <2>2, <1>3
  <2>4. Holds(p)'
    BY <2>1, <2>2, <2>3, HoldsKept
  <2> QED
    BY <1>1, <1>2, <2>1, <2>2, <2>3, <2>4 DEF LInv, listVars
<1>9. CASE ListIter
  <2>1. /\ open /\ open' = open /\ chunks' = chunks /\ UNCHANGED <<list, node>>
        /\ iter' = [cursor |-> list.head, len |-> list.len, returned |-> <<>>]
    BY <1>9 DEF ListIter, vars
  <2>2. PICK p \in Seq(Node) : Holds(p)
    BY <2>1, <1>3
  <2>3. /\ Len(p) \in Nat /\ list.head = At(p, 1) /\ list.len = Len(p)
        /\ At(p, 1) \in MaybeNode
        /\ At(p, 1) # Nil => 1 \in 1..Len(p)
        /\ At(p, 1) = Nil => Len(p) = 0
        /\ 1 \in 1..Len(p) => At(p, 1) = p[1]
    <3>1. p \in Seq(Node) /\ Len(p) \in Nat /\ 1 \in Int
      BY <2>2, LenProperties
    <3>2. /\ At(p, 1) \in MaybeNode
          /\ 1 \in 1..Len(p) => At(p, 1) = p[1]
          /\ At(p, 1) # Nil <=> 1 \in 1..Len(p)
      BY <3>1, AtType
    <3>3. list.head = At(p, 1) /\ list.len = Len(p)
      BY <2>2 DEF Holds, ListAlong
    <3> QED
      BY <3>1, <3>2, <3>3
  <2>4. /\ iter'.cursor = At(p, 1) /\ iter'.len = Len(p) /\ iter'.returned = <<>>
        /\ iter' \in IterRecord
        /\ Len(iter'.returned) = 0 /\ 1..Len(iter'.returned) = {}
    <3>1. /\ <<>> \in Seq(Nat) /\ Len(<<>>) = 0 /\ 1..0 = {}
          /\ iter' = [cursor |-> At(p, 1), len |-> Len(p), returned |-> <<>>]
      BY <2>1, <2>3
    <3>2. iter' \in IterRecord
      BY <2>3, <3>1 DEF IterRecord
    <3> QED
      BY <3>1, <3>2
  <2>5. Due' = Len(p) % Word /\ Due' <= Len(p) /\ (Len(p) = 0 => Due' = 0)
    <3>1. Due' = (Len(p) + 0) % Word
      BY <2>4 DEF Due
    <3>2. Word \in Nat \ {0} /\ Len(p) \in Nat /\ Len(p) + 0 = Len(p)
      BY <2>3, SizeAssumption
    <3>3. Len(p) % Word <= Len(p) /\ (Len(p) = 0 => Len(p) % Word = 0)
      BY <3>2
    <3> QED
      BY <3>1, <3>2, <3>3
  <2>6. IterAlong(p)'
    <3>1. 0 <= Len(p) /\ (Len(p) = 0 => 0 >= Due') /\ 0 + 1 = 1
      BY <2>3, <2>5
    <3>2. iter'.cursor # Nil => 0 < Len(p) /\ iter'.cursor = p[0 + 1]
      BY <2>3, <2>4, <3>1
    <3>3. iter'.cursor = Nil => 0 >= Due'
      BY <2>3, <2>4, <3>1
    <3> QED
      BY <2>4, <2>5, <3>1, <3>2, <3>3 DEF IterAlong
  <2>7. Holds(p)'
    BY <2>1, <2>2, <2>6 DEF Holds, Distinct, ListAlong, NodesAlong, OnlyAlong
  <2> QED
    BY <1>1, <1>2, <2>1, <2>2, <2>7 DEF LInv
<1>10. CASE ListIterNext
  <2>1. NextNode /\ UNCHANGED <<vars, list, node>> /\ open /\ open'
    BY <1>10 DEF ListIterNext, vars
  <2>2. PICK p \in Seq(Node) : Holds(p)
    BY <2>1, <1>3
  <2>3. Holds(p)'
    BY <2>1, <2>2, NextAlong
  <2> QED
    BY <1>1, <1>2, <2>1, <2>2, <2>3 DEF LInv
<1>11. CASE UNCHANGED <<vars, listVars>>
  <2>1. UNCHANGED listVars /\ open' = open /\ chunks' = chunks
    BY <1>11 DEF vars
  <2>2. ASSUME open PROVE \E p \in Seq(Node) : Holds(p)'
    <3>1. PICK p \in Seq(Node) : Holds(p)
      BY <1>3, <2>2
    <3> QED
      BY <2>1, <3>1, HoldsKept
  <2> QED
    BY <1>1, <1>2, <2>1, <2>2 DEF LInv, listVars
<1> QED
  BY <1>5, <1>6, <1>7, <1>8, <1>9, <1>10, <1>11 DEF ListNext

\* The invariant holds in every state of every run.
LEMMA AlwaysLInv == ListSpec => []LInv
<1> QED
  BY InitLInv, NextLInv, PTL DEF ListSpec

\* ListHoldsChunks: the nodes of the list are the arena's chunks in order,
\* with both neighbours right, and list_free reaches every node there is.
THEOREM ListCorrect == ListSpec => []ListHoldsChunks
<1>1. ASSUME LInv PROVE ListHoldsChunks
  <2>1. open \in BOOLEAN
    BY <1>1 DEF LInv, IInv, TypeOK
  <2>2. CASE open = FALSE
    <3>1. list = Nil /\ \A n \in Node : node[n] = Unused
      BY <1>1, <2>2 DEF LInv
    <3> QED
      BY <2>2, <3>1 DEF ListHoldsChunks
  <2>3. CASE open = TRUE
    <3>1. PICK p \in Seq(Node) : Holds(p)
      BY <1>1, <2>3 DEF LInv
    <3>2. /\ Len(p) \in Nat /\ list \in ListRecord
          /\ list.len = Len(p) /\ Len(p) = Len(chunks)
      BY <3>1, AtType, LenProperties DEF Holds, ListAlong, ListRecord
    <3>3. list # Nil
      BY <3>2, Apart
    <3>4. \A n \in Node : node[n] # Unused => n \in Walked
      BY <3>1, UsedIsWalked
    <3>5. ASSUME NEW k \in 1..Len(p)
          PROVE  /\ Walk[k - 1] # Nil
                 /\ node[Walk[k - 1]].chunk = k
                 /\ node[Walk[k - 1]].prev = IF k = 1 THEN Nil ELSE Walk[k - 2]
      <4>1. k - 1 \in Nat /\ (k - 1) + 1 = k
        BY <3>2
      <4>2. Walk[k - 1] = At(p, k) /\ At(p, k) = p[k] /\ p[k] \in Node
        <5>1. \A j \in Nat : Walk[j] = At(p, j + 1)
          BY <3>1, WalkAlong
        <5>2. Walk[k - 1] = At(p, (k - 1) + 1)
          BY <4>1, <5>1
        <5>3. At(p, k) = p[k] /\ p[k] \in Node
          BY ElementOfSeq DEF At
        <5> QED
          BY <4>1, <5>2, <5>3
      <4>3. node[p[k]] = [next |-> At(p, k + 1), prev |-> At(p, k - 1), chunk |-> k]
        BY <3>1 DEF Holds, NodesAlong
      <4>4. At(p, k - 1) = IF k = 1 THEN Nil ELSE Walk[k - 2]
        <5>1. CASE k = 1
          BY <5>1, <3>2 DEF At
        <5>2. CASE k # 1
          <6>1. k - 2 \in Nat /\ (k - 2) + 1 = k - 1
            BY <5>2, <3>2
          <6>2. \A j \in Nat : Walk[j] = At(p, j + 1)
            BY <3>1, WalkAlong
          <6>3. Walk[k - 2] = At(p, (k - 2) + 1)
            BY <6>1, <6>2
          <6> QED
            BY <5>2, <6>1, <6>3
        <5> QED
          BY <5>1, <5>2
      <4> QED
        BY <4>2, <4>3, <4>4, Apart
    <3>6. Walk[Len(p)] = Nil
      <4>1. Walk[Len(p)] = At(p, Len(p) + 1)
        BY <3>1, <3>2, WalkAlong
      <4> QED
        BY <3>2, <4>1 DEF At
    <3> QED
      BY <2>3, <3>2, <3>3, <3>4, <3>5, <3>6 DEF ListHoldsChunks
  <2> QED
    BY <2>1, <2>2, <2>3
<1> QED
  BY <1>1, AlwaysLInv, PTL

\* IterationComplete: an iterator that lives while chunks are added returns
\* each chunk once, in order, and all that were there when it was made.
THEOREM IterationCorrect == ListSpec => []IterationComplete
<1>1. ASSUME LInv PROVE IterationComplete
  <2> SUFFICES ASSUME iter # Nil
               PROVE  IterationComplete
    BY DEF IterationComplete
  <2>1. open
    BY <1>1 DEF LInv
  <2>2. PICK p \in Seq(Node) : Holds(p)
    BY <1>1, <2>1 DEF LInv
  <2>3. /\ iter \in IterRecord /\ iter.returned \in Seq(Nat)
        /\ Len(iter.returned) \in Nat /\ Len(p) \in Nat
    BY <2>2, LenProperties DEF Holds, IterAlong, IterRecord
  <2>4. \A k \in DOMAIN iter.returned : iter.returned[k] = k
    BY <2>2, <2>3, LenProperties DEF Holds, IterAlong
  <2>5. iter.cursor = Nil =>
          Len(iter.returned) >= (iter.len + Len(iter.returned)) % Word
    BY <2>2 DEF Holds, IterAlong, Due
  <2>6. ASSUME iter.cursor # Nil
        PROVE  node[iter.cursor].chunk = Len(iter.returned) + 1
    <3>1. /\ Len(iter.returned) < Len(p)
          /\ iter.cursor = p[Len(iter.returned) + 1]
      BY <2>2, <2>6 DEF Holds, IterAlong
    <3>2. Len(iter.returned) + 1 \in 1..Len(p)
      BY <2>3, <3>1
    <3> DEFINE k == Len(iter.returned) + 1
    <3>3. node[p[k]] = [next |-> At(p, k + 1), prev |-> At(p, k - 1), chunk |-> k]
      BY <2>2, <3>2 DEF Holds, NodesAlong
    <3> QED
      BY <3>1, <3>3
  <2> QED
    BY <2>4, <2>5, <2>6 DEF IterationComplete
<1> QED
  BY <1>1, AlwaysLInv, PTL
=============================================================================
