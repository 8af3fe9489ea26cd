------------------------------ MODULE HashMap -------------------------------
(***************************************************************************)
(* HashMap (hashmap.h): linear probing over buckets that point into two    *)
(* parallel slices, keys and values, filled in insertion order.  A bucket  *)
(* holds the slot its two pointers point at.  Growing builds a second map  *)
(* (out_map), reinserting one slot per step, and then replaces the first.  *)
(*                                                                         *)
(* Memory comes zeroed: a slot that was never set holds the key of all     *)
(* zero bytes (for str_t the empty string), and growing reinserts every    *)
(* slot of the old map, the ones that were never set included.             *)
(***************************************************************************)
EXTENDS Integers, FiniteSets

CONSTANTS
    Key,                \* the keys a caller sets
    Zero,               \* the key of a slot that was never set
    Value,
    ZeroValue,
    HashValues,         \* the values of key_hash
    ByAddress,          \* key_hash hashes the pointer (int, usize_t)
    Caps,               \* the capacities hashmap_new_cap_in is called with
    Fits,               \* the arguments of hashmap_grow, beside add's own 2
    MaxCap,             \* bound: no growth past this capacity
    AllocMayFail,
    NoMap, NoArg, Free  \* no map, no set under way, an empty bucket

ASSUME HashAssumption == HashValues \subseteq Nat /\ HashValues # {}
ASSUME CapAssumption ==
    MaxCap \in Nat /\ Caps \subseteq 1..MaxCap /\ Fits \subseteq Nat
ASSUME FlagAssumption == ByAddress \in BOOLEAN /\ AllocMayFail \in BOOLEAN
ASSUME FreeAssumption == Free \notin Nat

VARIABLES
    key_hash,           \* the hash of each key; the type's, never changes
    map,                \* *self
    out_map,            \* the map hashmap_grow is building
    i,                  \* the slot it reinserts next
    arg,                \* what hashmap_set was called with
    ret                 \* "none", "running", "panic", or the last result

vars == <<key_hash, map, out_map, i, arg, ret>>

AnyKey == Key \union {Zero}
AnyValue == Value \union {ZeroValue}

Maps(cap) ==
    [cap : {cap},
     buckets : [0..(cap - 1) -> 0..(cap - 1) \union {Free}],
     keys : [0..(cap - 1) -> AnyKey],
     values : [0..(cap - 1) -> AnyValue],
     count : 0..(cap - 1)]

\* What hashmap_set may be called with, and what key_hash then returns.
Entries == [key : Key, value : Value, hash : HashValues]

ASSUME NoneAssumption ==
    /\ \A cap \in 1..MaxCap : NoMap \notin Maps(cap)
    /\ NoArg \notin Entries \union [key : Key, value : Value]

-----------------------------------------------------------------------------

\* What key_hash may return for a key the caller holds, or one in a slot: the
\* hash of int and usize_t is the address of the key.
Hashes(k) == IF ByAddress THEN HashValues ELSE {key_hash[k]}

Slots(m) == 0..(m.cap - 1)

\* The j-th bucket that hashmap_get_bucket looks at, and whether it stops.
Probe(m, h, j) == (h + j) % m.cap
Stops(m, k, h, j) ==
    LET slot == m.buckets[Probe(m, h, j)] IN
    slot = Free \/ m.keys[slot] = k

\* The bucket it returns; nullptr (-1) when it has seen them all.
GetBucket(m, k, h) ==
    IF \E j \in Slots(m) : Stops(m, k, h, j)
    THEN Probe(m, h, CHOOSE j \in Slots(m) :
                        /\ Stops(m, k, h, j)
                        /\ \A l \in 0..(j - 1) : ~Stops(m, k, h, l))
    ELSE -1

\* hashmap_get_bucket_by_intern, for the key object in slot s.
InternStops(m, s, h, j) == m.buckets[Probe(m, h, j)] \in {Free, s}
GetBucketByIntern(m, s, h) ==
    IF \E j \in Slots(m) : InternStops(m, s, h, j)
    THEN Probe(m, h, CHOOSE j \in Slots(m) :
                        /\ InternStops(m, s, h, j)
                        /\ \A l \in 0..(j - 1) : ~InternStops(m, s, h, l))
    ELSE -1

\* The slot hashmap_get reads its value from, if it finds the key.
Found(m, k) ==
    LET b == GetBucket(m, k, key_hash[k]) IN b # -1 /\ m.buckets[b] # Free
SlotOf(m, k) == m.buckets[GetBucket(m, k, key_hash[k])]

\* hashmap_new_cap_in, when it gets its memory.
NewMap(cap) ==
    [cap |-> cap,
     buckets |-> [b \in 0..(cap - 1) |-> Free],
     keys |-> [s \in 0..(cap - 1) |-> Zero],
     values |-> [s \in 0..(cap - 1) |-> ZeroValue],
     count |-> 0]

\* The end of hashmap_add_key_val, once it has a bucket.
Added(m, b, e) ==
    [cap |-> m.cap,
     buckets |-> [m.buckets EXCEPT ![b] = m.count],
     keys |-> [m.keys EXCEPT ![m.count] = e.key],
     values |-> [m.values EXCEPT ![m.count] = e.value],
     count |-> m.count + 1]

\* The capacity hashmap_grow asks for.  (A slip: the doubling is forgotten.)
NewCapSame(m, fit) == m.cap
NewCap(m, fit) == IF 2 * m.cap >= m.cap + fit THEN 2 * m.cap ELSE m.cap + fit

\* Its out_map before the loop: the slots are copied, the buckets are not.
Extended(m, cap) ==
    [cap |-> cap,
     buckets |-> [b \in 0..(cap - 1) |-> Free],
     keys |-> [s \in 0..(cap - 1) |-> IF s < m.cap THEN m.keys[s] ELSE Zero],
     values |-> [s \in 0..(cap - 1) |->
                    IF s < m.cap THEN m.values[s] ELSE ZeroValue],
     count |-> m.count]

-----------------------------------------------------------------------------

Init ==
    /\ key_hash \in [AnyKey -> HashValues]
    /\ map = NoMap
    /\ out_map = NoMap
    /\ i = 0
    /\ arg = NoArg
    /\ ret = "none"

Idle == ret \notin {"running", "panic"}

Growing == ret = "running" /\ out_map # NoMap

\* A set that has begun, before the map grows for it.
Setting == ret = "running" /\ out_map = NoMap

\* What a call that does not grow the map leaves alone.
NoGrowth == UNCHANGED <<key_hash, out_map, i>>

New(cap) ==
    /\ Idle
    /\ map = NoMap
    /\ \/ map' = NewMap(cap) /\ ret' = "OK"
       \/ AllocMayFail /\ map' = map /\ ret' = "MEM_ALLOC"
    /\ NoGrowth /\ UNCHANGED arg

FreeMap ==
    /\ Idle
    /\ map # NoMap
    /\ map' = NoMap
    /\ ret' = "OK"
    /\ NoGrowth /\ UNCHANGED arg

\* hashmap_set is called, and then goes one of three ways: the key is there,
\* there is room for it, or the map must grow first.
Set(e) ==
    /\ Idle /\ map # NoMap
    /\ e.hash \in Hashes(e.key)
    /\ arg' = e
    /\ ret' = "running"
    /\ NoGrowth /\ UNCHANGED map

Present(e) ==
    LET b == GetBucket(map, e.key, e.hash) IN b # -1 /\ map.buckets[b] # Free

\* (A slip: the bucket's number for the slot's.)
SetPresentByBucket ==
    /\ Setting
    /\ Present(arg)
    /\ LET b == GetBucket(map, arg.key, arg.hash) IN
       map' = [map EXCEPT !.values[b] = arg.value]
    /\ ret' = "OK"
    /\ arg' = NoArg
    /\ NoGrowth

SetPresent ==
    /\ Setting
    /\ Present(arg)
    /\ LET slot == map.buckets[GetBucket(map, arg.key, arg.hash)] IN
       map' = [map EXCEPT !.values[slot] = arg.value]
    /\ ret' = "OK"
    /\ arg' = NoArg
    /\ NoGrowth

\* hashmap_add_key_val on a map with room; ASSERT, or the use of a null
\* bucket, ends the program.  (Slips: no probing; the bucket found before the
\* map grew.)
AddAtHash(m) ==
    /\ map' = Added(m, Probe(m, arg.hash, 0), arg)
    /\ ret' = "OK"
    /\ arg' = NoArg

AddToOldBucket(m) ==
    LET b == GetBucket(map, arg.key, arg.hash) IN
    /\ IF b = -1
       THEN ret' = "panic" /\ map' = m
       ELSE ret' = "OK" /\ map' = Added(m, b, arg)
    /\ arg' = NoArg

AddTo(m) ==
    LET b == GetBucket(m, arg.key, arg.hash) IN
    /\ IF b = -1
       THEN ret' = "panic" /\ map' = m
       ELSE ret' = "OK" /\ map' = Added(m, b, arg)
    /\ arg' = NoArg

\* (A slip: room is counted to the last slot, and one past it.)
SetNewAtLimit ==
    /\ Setting
    /\ ~Present(arg)
    /\ map.count <= map.cap - 1
    /\ AddTo(map)
    /\ NoGrowth

SetNew ==
    /\ Setting
    /\ ~Present(arg)
    /\ map.count < map.cap - 1
    /\ AddTo(map)
    /\ NoGrowth

\* hashmap_grow, up to its loop.
BeginGrow(fit) ==
    /\ NewCap(map, fit) <= MaxCap
    /\ \/ /\ out_map' = Extended(map, NewCap(map, fit))
          /\ ret' = "running"
          /\ UNCHANGED arg
       \/ /\ AllocMayFail
          /\ ret' = "MEM_ALLOC"
          /\ arg' = NoArg
          /\ UNCHANGED out_map
    /\ i' = 0
    /\ UNCHANGED <<key_hash, map>>

SetGrowing ==
    /\ Setting
    /\ ~Present(arg)
    /\ map.count >= map.cap - 1
    /\ BeginGrow(2)

\* hashmap_grow called by the program itself.  (A slip: room for exactly as
\* many is enough, and the bucket the load limit keeps free is forgotten.)
GrowUnneededAtLimit(fit) ==
    /\ Idle /\ map # NoMap
    /\ map.cap - map.count >= fit
    /\ ret' = "OK"
    /\ NoGrowth /\ UNCHANGED <<map, arg>>

GrowUnneeded(fit) ==
    /\ Idle /\ map # NoMap
    /\ map.cap - map.count > fit
    /\ ret' = "OK"
    /\ NoGrowth /\ UNCHANGED <<map, arg>>

Grow(fit) ==
    /\ Idle /\ map # NoMap
    /\ map.cap - map.count <= fit
    /\ BeginGrow(fit)

\* One iteration of its loop, over every slot of the old map.
Reinsert ==
    /\ Growing
    /\ i < map.cap
    /\ \E h \in Hashes(out_map.keys[i]) :
          LET b == GetBucket(out_map, out_map.keys[i], h) IN
          IF b = -1
          THEN ret' = "panic" /\ UNCHANGED out_map
          ELSE out_map' = [out_map EXCEPT !.buckets[b] = i] /\ UNCHANGED ret
    /\ i' = i + 1
    /\ UNCHANGED <<key_hash, map, arg>>

\* The maps are swapped, the old one is freed, the waiting set goes on.
EndGrow ==
    /\ Growing
    /\ i = map.cap
    /\ IF arg = NoArg
       THEN map' = out_map /\ ret' = "OK" /\ arg' = NoArg
       ELSE AddTo(out_map)
    /\ out_map' = NoMap
    /\ i' = 0
    /\ UNCHANGED key_hash

Next ==
    \/ \E cap \in Caps : New(cap)
    \/ FreeMap
    \/ \E e \in Entries : Set(e)
    \/ SetPresent
    \/ SetNew
    \/ SetGrowing
    \/ \E fit \in Fits : GrowUnneeded(fit) \/ Grow(fit)
    \/ Reinsert
    \/ EndGrow

Spec == Init /\ [][Next]_vars

-----------------------------------------------------------------------------

TypeOK ==
    /\ key_hash \in [AnyKey -> HashValues]
    /\ map = NoMap \/ (map.cap \in 1..MaxCap /\ map \in Maps(map.cap))
    /\ \/ out_map = NoMap
       \/ out_map.cap \in 1..MaxCap /\ out_map \in Maps(out_map.cap)
    /\ i \in 0..MaxCap
    /\ arg \in Entries \union {NoArg}
    /\ ret \in {"none", "running", "panic", "OK", "MEM_ALLOC"}

\* No lookup runs out of buckets where the code dereferences or asserts one:
\* the reinsertion of a slot that was never set does not cost the table the
\* bucket its load limit keeps for the next key.
NoPanic == ret # "panic"

\* A key is found exactly when iteration (for_in_hashmap_key_val_T) meets it,
\* in the slot where iteration meets it, and iteration meets it once.
IterationAgrees(m) ==
    \A k \in Key :
        /\ Found(m, k) <=> \E s \in 0..(m.count - 1) : m.keys[s] = k
        /\ \A s \in 0..(m.count - 1) : m.keys[s] = k => SlotOf(m, k) = s

\* A key object in a slot, used as an interned key, leads to its own slot:
\* comparing pointers finds what comparing keys found when it was inserted.
InternAgrees(m) ==
    \A s \in 0..(m.count - 1) :
        LET b == GetBucketByIntern(m, s, key_hash[m.keys[s]]) IN
        b # -1 /\ m.buckets[b] = s

\* While growing, every slot reinserted so far is found in the new map.
ReinsertedFound ==
    Growing => \A s \in 0..(i - 1) :
        s < map.count =>
            Found(out_map, map.keys[s]) /\ SlotOf(out_map, map.keys[s]) = s

\* All ways to see the map agree, whatever order its keys were put, and put
\* again, into its buckets.
LookupAgrees ==
    /\ map # NoMap => IterationAgrees(map) /\ InternAgrees(map)
    /\ ReinsertedFound

\* The buckets in use are those of the keys and at most one more, which a
\* slot that was never set got when the map last grew.
Used(m) == {b \in Slots(m) : m.buckets[b] # Free}
OneSpareBucket == map # NoMap => Cardinality(Used(map)) <= map.count + 1

\* Lookups see a dictionary: a set changes its key and nothing else, growing
\* and failed allocations change nothing, an existing key can always be set.
Contents ==
    IF map = NoMap THEN [k \in {} |-> NoArg]
    ELSE [k \in {k \in Key : Found(map, k)} |-> map.values[SlotOf(map, k)]]
Pending ==
    IF arg = NoArg THEN NoArg ELSE [key |-> arg.key, value |-> arg.value]
Dictionary == INSTANCE Dict WITH dict <- Contents, pending <- Pending
IsDictionary == Dictionary!Spec

\* A key that was set stays, as long as the map does.
KeysStay ==
    [][map # NoMap /\ map' # NoMap =>
          \A k \in Key : Found(map, k) => Found(map', k)]_vars
=============================================================================
