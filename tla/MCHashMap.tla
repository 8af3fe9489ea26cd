----------------------------- MODULE MCHashMap ------------------------------
\* Values for the constants of HashMap and HashMapPointers.  The hash of each
\* key is chosen in the initial state, so keys (and values) are
\* interchangeable.
EXTENDS HashMapPointers, TLC

CONSTANTS k1, k2, k3, v1, v2

Symmetry == Permutations(Key) \union Permutations(Value)

\* On a 64-bit machine: int, usize_t and str_t are types of TYPE_LIST.
HashMapSize == B!Part(200, 8)
BucketSize == B!Part(16, 8)
TypeList == {B!Part(4, 4), B!Part(8, 8), B!Part(16, 8)}
=============================================================================
