------------------------------- MODULE MCDArr -------------------------------
\* Values for the constants of DArr.
EXTENDS DArrReserve, TLC

CONSTANTS p, q

SomeSlices == {<<>>, <<p, q>>, <<q, p>>}

\* Blocks are alike, and so are handles and items.
AnyNames ==
    Permutations(Block) \union Permutations(Handle) \union Permutations(Item)
=============================================================================
