----------------------------- MODULE Sequential -----------------------------
(***************************************************************************)
(* alloc_sequentially_n (core.h): several parts, each with a size and an   *)
(* alignment, in one block.  What is added to the size for padding looks   *)
(* at neighbouring alignments only; where the parts go, align_forward      *)
(* says, which adds ptr % alignment.                                       *)
(***************************************************************************)
EXTENDS Integers, Sequences

Part(size, align) == [size |-> size, align |-> align]

AlignForward(x, align) == x + (x % align)

\* The padding that is allowed for between two parts.  (A slip: none.)
NoPad(p, q) == 0
Pad(p, q) == IF q.align > p.align THEN q.align - p.align ELSE 0

\* What is asked of the allocator: the sizes and pads of the first n parts.
SizeOf(parts) ==
    LET size[n \in 1..Len(parts)] ==
            IF n = 1 THEN parts[1].size
            ELSE size[n - 1] + Pad(parts[n - 1], parts[n]) + parts[n].size
    IN  size[Len(parts)]

\* Where the parts go in a block at `base'.
Places(base, parts) ==
    LET place[n \in 1..Len(parts)] ==
            IF n = 1 THEN base
            ELSE AlignForward(place[n - 1] + parts[n - 1].size, parts[n].align)
    IN  place

-----------------------------------------------------------------------------

\* The parts follow each other inside the block, so no two share a byte.
Apart(base, parts) ==
    LET place == Places(base, parts)
        end(n) == place[n] + parts[n].size
    IN  /\ \A n \in 2..Len(parts) : end(n - 1) <= place[n]
        /\ end(Len(parts)) <= base + SizeOf(parts)

Aligned(base, parts) ==
    LET place == Places(base, parts) IN
    \A n \in DOMAIN parts : place[n] % parts[n].align = 0
=============================================================================
