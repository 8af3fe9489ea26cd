------------------------------- MODULE Arrays -------------------------------
(***************************************************************************)
(* What the dynamic arrays of array.h promise: each is a sequence of items *)
(* of its own.  A call that does not return OK changes none of them.       *)
(***************************************************************************)
EXTENDS Integers, Sequences

CONSTANTS
    Handle,             \* the darr_t variables of the callers
    Slices,             \* the slices that arrays are made from and appended
    Item,
    Nil                 \* the value of a darr_t without an array

VARIABLES
    arrays,             \* the items of each array
    ret                 \* "OK", or why the last call did nothing

vars == <<arrays, ret>>

Become(h, items) == arrays' = [arrays EXCEPT ![h] = items] /\ ret' = "OK"

New(h) == arrays[h] = Nil /\ \E s \in Slices \union {<<>>} : Become(h, s)
Free(h) == arrays[h] # Nil /\ Become(h, Nil)
Push(h) == arrays[h] # Nil /\ \E i \in Item : Become(h, Append(arrays[h], i))
Pop(h) ==
    /\ arrays[h] \notin {Nil, <<>>}
    /\ Become(h, SubSeq(arrays[h], 1, Len(arrays[h]) - 1))
AppendSlice(h) == arrays[h] # Nil /\ \E s \in Slices : Become(h, arrays[h] \o s)
AppendArray(h, g) ==
    /\ arrays[h] # Nil /\ arrays[g] # Nil
    /\ Become(h, arrays[h] \o arrays[g])
Copy(h, g) == arrays[h] = Nil /\ arrays[g] # Nil /\ Become(h, arrays[g])
Nothing == UNCHANGED arrays

Init == arrays = [h \in Handle |-> Nil] /\ ret = "OK"

Next ==
    \/ \E h \in Handle :
         New(h) \/ Free(h) \/ Push(h) \/ Pop(h) \/ AppendSlice(h)
    \/ \E h, g \in Handle : AppendArray(h, g) \/ Copy(h, g)
    \/ Nothing

Spec == Init /\ [][Next]_vars
=============================================================================
