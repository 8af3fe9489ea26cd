-------------------------- MODULE HashMapPointers ---------------------------
(***************************************************************************)
(* The block a HashMap lives in, and a pointer into it that a caller keeps *)
(* from hashmap_get.  A set may take its value through that pointer.  A    *)
(* growth frees the block, before the set that needed it reads the value.  *)
(* A caller can see to it that there is no growth, by asking for room      *)
(* beforehand.                                                             *)
(***************************************************************************)
EXTENDS HashMap, Sequences

CONSTANTS
    Header,             \* size and alignment of HashMap,
    Bucket,             \* of HashMap_Bucket,
    Types,              \* and of the keys and values in TYPE_LIST
    NoPointer

ASSUME PointerAssumption == NoPointer \notin [key : Key, slot : Nat]

\* The size of a type is a multiple of its alignment, and that is 8 (or 4, for
\* the smaller types of TYPE_LIST) on a 64-bit machine.
Laid(part, aligns) ==
    /\ part.size \in Nat /\ part.align \in aligns
    /\ part.size % part.align = 0
ASSUME TypeAssumption ==
    /\ Laid(Header, {8}) /\ Laid(Bucket, {8})
    /\ \A type \in Types : Laid(type, {4, 8})

VARIABLES
    held,               \* the pointer: whose value, in which slot
    own,                \* the set under way reads its value through it
    stop,               \* whether a freed value was read: undefined
    room                \* how many new keys the program has asked room for,
                        \* with hashmap_grow, and has not set yet

pointerVars == <<vars, held, own, stop, room>>

B == INSTANCE Sequential

\* size_aligns of hashmap_new_cap_in and of hashmap_grow.
MapParts(cap, key, value) ==
    <<Header, B!Part(cap * Bucket.size, Bucket.align),
      B!Part(cap * key.size, key.align), B!Part(cap * value.size, value.align)>>

-----------------------------------------------------------------------------

PointerInit ==
    /\ Init
    /\ held = NoPointer /\ own = FALSE /\ stop = FALSE /\ room = 0

\* hashmap_get, whose result the caller keeps.
Get(k) ==
    /\ ~stop /\ Idle
    /\ map # NoMap
    /\ Found(map, k)
    /\ held' = [key |-> k, slot |-> SlotOf(map, k)]
    /\ UNCHANGED <<vars, own, stop, room>>

\* The caller has no more use for the pointer.
Forget ==
    /\ Idle /\ held # NoPointer
    /\ held' = NoPointer
    /\ UNCHANGED <<vars, own, stop, room>>

\* hashmap_set, of a value the caller has or of one in the map.
SetValue(e) == ~stop /\ Set(e) /\ UNCHANGED <<held, own, stop, room>>
SetOwn(e) ==
    /\ ~stop /\ held # NoPointer
    /\ e.value = map.values[held.slot]
    /\ Set(e)
    /\ own' = TRUE
    /\ UNCHANGED <<held, stop, room>>

\* A call or a step that leaves the block where it is.
InPlace ==
    /\ ~stop
    /\ (\E cap \in Caps : New(cap)) \/ SetPresent \/ SetGrowing \/ Reinsert
    /\ own' = (own /\ ret' = "running")
    /\ UNCHANGED <<held, stop, room>>

\* A new key takes some of the room.
TakeRoom ==
    /\ ~stop
    /\ SetNew
    /\ own' = FALSE
    /\ room' = IF room > 0 THEN room - 1 ELSE 0
    /\ UNCHANGED <<held, stop>>

\* hashmap_grow, called by the program: with OK, or under way to it.
AskRoom(fit) ==
    /\ ~stop
    /\ GrowUnneeded(fit) \/ Grow(fit)
    /\ room' = IF ret' # "MEM_ALLOC" /\ room < fit THEN fit ELSE room
    /\ UNCHANGED <<held, own, stop>>

\* The block is freed.  Pointers into it are of no use any more.
Freeing ==
    /\ ~stop
    /\ FreeMap \/ (EndGrow /\ ~own)
    /\ held' = NoPointer
    /\ room' = IF map' # NoMap /\ arg = NoArg THEN room ELSE 0
    /\ UNCHANGED <<own, stop>>

\* hashmap_add_key_val goes on after hashmap_grow, and reads the value.
ReadFreed ==
    /\ ~stop
    /\ Growing /\ i = map.cap /\ own
    /\ stop' = TRUE
    /\ UNCHANGED <<vars, held, own, room>>

PointerNext ==
    \/ \E k \in Key : Get(k)
    \/ Forget
    \/ \E e \in Entries : SetValue(e) \/ SetOwn(e)
    \/ InPlace
    \/ TakeRoom
    \/ \E fit \in Fits : AskRoom(fit)
    \/ Freeing
    \/ ReadFreed

PointerSpec == PointerInit /\ [][PointerNext]_pointerVars

-----------------------------------------------------------------------------

\* The pointer leads to the value of the key it was asked for, whatever was
\* set since and whatever failed, for as long as the map has not grown.
PointerIsCurrent ==
    held # NoPointer =>
        /\ map # NoMap
        /\ Found(map, held.key)
        /\ SlotOf(map, held.key) = held.slot

\* As many new keys as room was asked for can be set, among sets of keys that
\* are there, without a growth: none of these sets fails, the pointer stays of
\* use, and the value may be one of the map.  (What hashmap_grow calls room,
\* rest > fit, has to be what hashmap_add_key_val takes for room, count <
\* cap - 1, that many sets later.)
RoomAskedFor ==
    [][Setting /\ room > 0 =>
          ret' = "OK" /\ out_map' = NoMap /\ held' = held]_pointerVars

\* The parts of the block lie inside it, do not overlap and have the alignment
\* of their type, at every capacity and for every two types.
PartsFit ==
    map # NoMap => \A key, value \in Types :
        LET parts == MapParts(map.cap, key, value) IN
        B!Apart(0, parts) /\ B!Aligned(0, parts)
=============================================================================
