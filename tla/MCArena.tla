------------------------------ MODULE MCArena -------------------------------
\* Values for the constants of Arena and ArenaList.
EXTENDS ArenaList, TLC

Request(size, align) == [size |-> size, align |-> align]

\* Sizes of whole words of 4 bytes, aligned for a word or two: a
\* block of two words often has a word of padding before it.
Words == {Request(4, 4), Request(8, 8), Request(20, 8)}

\* Any size with any alignment.
Mixed == {Request(1, 1), Request(2, 2), Request(8, 8), Request(3, 4)}

AnyNode == Permutations(Node)
=============================================================================
