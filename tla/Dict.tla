-------------------------------- MODULE Dict --------------------------------
(***************************************************************************)
(* What hashmap.h promises its callers: a finite map from keys to values.  *)
(* A set either takes effect or fails for lack of memory, and then only    *)
(* when the key is new; growing changes nothing a caller can see.          *)
(***************************************************************************)
CONSTANTS Key, Value, NoArg

VARIABLES
    dict,               \* the keys set so far, and their values
    pending,            \* the set that is under way
    ret                 \* "none", "running", or the result of the last call

vars == <<dict, pending, ret>>

Entry == [key : Key, value : Value]
Empty == [k \in {} |-> NoArg]

Init ==
    /\ dict = Empty
    /\ pending = NoArg
    /\ ret = "none"

\* A new map, or none any more.
Clear ==
    /\ pending = NoArg
    /\ dict' = Empty
    /\ ret' = "OK"
    /\ UNCHANGED pending

Begin(e) ==
    /\ ret # "running"
    /\ pending' = e
    /\ ret' = "running"
    /\ UNCHANGED dict

Set ==
    /\ pending # NoArg
    /\ dict' = [k \in DOMAIN dict \union {pending.key} |->
                   IF k = pending.key THEN pending.value ELSE dict[k]]
    /\ pending' = NoArg
    /\ ret' = "OK"

Refuse ==
    /\ pending # NoArg
    /\ pending.key \notin DOMAIN dict
    /\ pending' = NoArg
    /\ ret' = "MEM_ALLOC"
    /\ UNCHANGED dict

\* A growth that the program asked for, or a map that was not made.
Grow ==
    /\ pending = NoArg
    /\ ret' \in {"OK", "MEM_ALLOC", "running"}
    /\ UNCHANGED <<dict, pending>>

Next ==
    \/ Clear
    \/ \E e \in Entry : Begin(e)
    \/ Set
    \/ Refuse
    \/ Grow

Spec == Init /\ [][Next]_vars
=============================================================================
