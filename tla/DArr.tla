-------------------------------- MODULE DArr --------------------------------
(***************************************************************************)
(* Dynamic arrays (array.h).  A darr_t points to one block that holds the  *)
(* header (length, capacity, the allocator to free it with) and after it   *)
(* the items.  A push to a full array moves it to a new block.  What the   *)
(* code does with a block that was freed, or with a pointer no allocator   *)
(* gave out, is undefined: the model says so in `ret' and stops.           *)
(***************************************************************************)
EXTENDS Integers, Sequences

CONSTANTS
    Handle,             \* the darr_t variables of the callers
    Nil,                \* nullptr
    Block,              \* what allocators give out
    Unused,             \* a block nobody has
    Allocators,
    Arenas,             \* the allocators whose free leaves the memory alone
    Item,
    Zero,               \* an item of zeroed memory
    Caps,               \* the capacities darr_new_cap_in is called with
    Slices,             \* the slices that arrays are made from and appended
    Reserves,           \* the arguments of darr_reserve_cap
    DARR_DEFAULT_INIT_CAP,
    MaxLen,             \* bound: the length of an array
    AllocMayFail

\* What a block holds: DArrVES and the data behind it.
ArrVES == [maker : Allocators, allocator : Allocators,
           data : Seq(Item \union {Zero}), len : Nat]

ASSUME ItemAssumption == Zero \notin Item /\ Slices \subseteq Seq(Item)
ASSUME CapAssumption ==
    /\ Caps \subseteq Nat /\ Reserves \subseteq Nat /\ MaxLen \in Nat
    /\ DARR_DEFAULT_INIT_CAP \in Nat \ {0}
ASSUME AllocatorAssumption ==
    Arenas \subseteq Allocators /\ AllocMayFail \in BOOLEAN
ASSUME NilAssumption == Nil \notin Block \union Seq(Item) /\ Unused \notin ArrVES

VARIABLES
    memory,             \* the array in each block, and who made the block
    self,               \* the block each darr_t points to
    ret                 \* "OK", "MEM_ALLOC", or how the program stopped:
                        \* "panic" (an assertion, unimplemented), "undefined"

vars == <<memory, self, ret>>

Running == ret \in {"OK", "MEM_ALLOC"}

Arr(h) == memory[self[h]]
IsLive(h) == self[h] # Nil
Live == {h \in Handle : IsLive(h)}

\* darr_slice_full, and darr_rest_cap.
ItemsOf(a) == SubSeq(a.data, 1, a.len)
RestCap(a) == Len(a.data) - a.len

\* memcpy of items to an index of the data.
Copied(data, index, items) ==
    [k \in 1..Len(data) |->
        IF k \in (index + 1)..(index + Len(items)) THEN items[k - index] ELSE data[k]]

\* The position darr_get_i finds for a signed index.  (A slip: that of
\* slice_get_i on the data, which counts back from the capacity.)
SignedIndexOfData(a, i) == (Len(a.data) + i) % Len(a.data)
SignedIndex(a, i) == (a.len + i) % a.len

\* The block alloc_sequentially_two makes zeroed for darr_new_cap_in.
NewArr(cap, alloc) ==
    [maker |-> alloc, allocator |-> alloc,
     data |-> [k \in 1..cap |-> Zero], len |-> 0]

\* darr_from_slice_in and darr_copy_data_in, which copies all of the data and
\* sets the length afterwards.  (Slips: the length is left that of the data;
\* the header is copied along; only the items are copied.)
FromSlice(items, alloc) ==
    LET new == NewArr(Len(items), alloc) IN
    [new EXCEPT !.data = Copied(new.data, 0, items), !.len = Len(items)]
DataCopyFull(a, alloc) == FromSlice(a.data, alloc)
DataCopyHeader(a, alloc) ==
    [FromSlice(a.data, alloc) EXCEPT !.len = a.len, !.allocator = a.allocator]
DataCopyItems(a, alloc) == FromSlice(ItemsOf(a), alloc)
DataCopy(a, alloc) == [FromSlice(a.data, alloc) EXCEPT !.len = a.len]

\* The array darr_push moves to when it is full.
Larger(m, n) == IF m >= n THEN m ELSE n
Grown(a) ==
    LET new == NewArr(Larger(Len(a.data) * 2, DARR_DEFAULT_INIT_CAP), a.allocator)
    IN  [new EXCEPT !.data = Copied(new.data, 0, a.data), !.len = a.len]

\* Items go after the ones there are, which fit.  (A slip: they go over them.)
AddedAtStart(a, items) ==
    [a EXCEPT !.data = Copied(a.data, 0, items), !.len = a.len + Len(items)]
Added(a, items) ==
    [a EXCEPT !.data = Copied(a.data, a.len, items), !.len = a.len + Len(items)]

-----------------------------------------------------------------------------

Init ==
    /\ memory = [b \in Block |-> Unused]
    /\ self = [h \in Handle |-> Nil]
    /\ ret = "OK"

NoMemory == AllocMayFail /\ ret' = "MEM_ALLOC" /\ UNCHANGED <<memory, self>>

Stops(how) == ret' = how /\ UNCHANGED <<memory, self>>

\* A new block for h, and one for h that its old one is freed for.  (A slip:
\* it is not freed.)
Make(h, a) ==
    \E b \in Block :
        /\ memory[b] = Unused
        /\ memory' = [memory EXCEPT ![b] = a]
        /\ self' = [self EXCEPT ![h] = b]
        /\ ret' = "OK"
MoveOnly(h, a) == Make(h, a)
Move(h, a) ==
    \E b \in Block :
        /\ memory[b] = Unused
        /\ memory' = [memory EXCEPT ![b] = a, ![self[h]] = Unused]
        /\ self' = [self EXCEPT ![h] = b]
        /\ ret' = "OK"

Update(h, a) ==
    memory' = [memory EXCEPT ![self[h]] = a] /\ ret' = "OK" /\ UNCHANGED self

\* darr_new_cap_in, and darr_from_slice_in.
New(h, cap, alloc) ==
    /\ Running /\ ~IsLive(h)
    /\ Make(h, NewArr(cap, alloc)) \/ NoMemory

NewFromSlice(h, items, alloc) ==
    /\ Running /\ ~IsLive(h)
    /\ Make(h, FromSlice(items, alloc)) \/ NoMemory

\* darr_copy_data_in, and darr_reallocate_in.
CopyDataIn(h, g, alloc) ==
    /\ Running /\ ~IsLive(h) /\ IsLive(g)
    /\ Make(h, DataCopy(Arr(g), alloc)) \/ NoMemory

ReallocateIn(h, alloc) ==
    /\ Running /\ IsLive(h)
    /\ Move(h, DataCopy(Arr(h), alloc)) \/ NoMemory

Free(h) ==
    /\ Running /\ IsLive(h)
    /\ memory' = [memory EXCEPT ![self[h]] = Unused]
    /\ self' = [self EXCEPT ![h] = Nil]
    /\ ret' = "OK"

\* What darr_push does once it has the item, in a block with room and in one
\* that it first moves.
PushInto(h, item) == RestCap(Arr(h)) > 0 /\ Update(h, Added(Arr(h), <<item>>))
PushMoving(h, item) ==
    RestCap(Arr(h)) = 0 /\ (Move(h, Added(Grown(Arr(h)), <<item>>)) \/ NoMemory)

Push(h, item) ==
    /\ Running /\ IsLive(h) /\ Arr(h).len < MaxLen
    /\ PushInto(h, item) \/ PushMoving(h, item)

\* A push of an item that lies in the array itself: it is read after the old
\* block was freed, which an arena leaves as it was.
PushOwn(h, i) ==
    /\ Running /\ IsLive(h) /\ i < Arr(h).len /\ Arr(h).len < MaxLen
    /\ LET item == Arr(h).data[i + 1] IN
       \/ PushInto(h, item)
       \/ Arr(h).allocator \in Arenas /\ PushMoving(h, item)
       \/ /\ Arr(h).allocator \notin Arenas
          /\ RestCap(Arr(h)) = 0
          /\ Stops("undefined") \/ NoMemory

Pop(h) ==
    /\ Running /\ IsLive(h)
    /\ \/ Arr(h).len > 0 /\ Update(h, [Arr(h) EXCEPT !.len = @ - 1])
       \/ Arr(h).len = 0 /\ Stops("panic")

\* darr_reserve_cap resizes the items' pointer, which no allocator gave out.
Resize(h) == Stops(IF Arr(h).allocator \in Arenas THEN "panic" ELSE "undefined")

ReserveCap(h, n) ==
    /\ Running /\ IsLive(h)
    /\ \/ RestCap(Arr(h)) >= n /\ ret' = "OK" /\ UNCHANGED <<memory, self>>
       \/ RestCap(Arr(h)) < n /\ Resize(h)

AppendItems(h, items) ==
    /\ Running /\ IsLive(h) /\ Arr(h).len + Len(items) <= MaxLen
    /\ \/ RestCap(Arr(h)) >= Len(items) /\ Update(h, Added(Arr(h), items))
       \/ RestCap(Arr(h)) < Len(items) /\ Resize(h)

\* darr_append_slice, of a slice and of darr_slice_full of an array.
AppendSlice(h, items) == AppendItems(h, items)
AppendArray(h, g) == IsLive(g) /\ AppendItems(h, ItemsOf(Arr(g)))

Next ==
    \/ \E h \in Handle, alloc \in Allocators :
         \/ \E cap \in Caps : New(h, cap, alloc)
         \/ \E items \in Slices : NewFromSlice(h, items, alloc)
         \/ \E g \in Handle : CopyDataIn(h, g, alloc)
         \/ ReallocateIn(h, alloc)
    \/ \E h \in Handle :
         \/ \E item \in Item : Push(h, item)
         \/ \E i \in 0..(MaxLen - 1) : PushOwn(h, i)
         \/ \E n \in Reserves : ReserveCap(h, n)
         \/ \E items \in Slices : AppendSlice(h, items)
         \/ \E g \in Handle : AppendArray(h, g)
         \/ Pop(h) \/ Free(h)

Spec == Init /\ [][Next]_vars

-----------------------------------------------------------------------------

\* The items of an array are inside its data, and none of them is what the
\* allocator left there.
TypeOK ==
    /\ memory \in [Block -> ArrVES \union {Unused}]
    /\ self \in [Handle -> Block \union {Nil}]
    /\ ret \in {"OK", "MEM_ALLOC", "panic", "undefined"}
    /\ \A h \in Live :
         /\ Arr(h).len <= Len(Arr(h).data)
         /\ \A k \in 1..Arr(h).len : Arr(h).data[k] \in Item

\* Every block in use is that of exactly one array: growing, copying and
\* reallocating leak nothing, free nothing twice, and never share a block,
\* the calls that fail for lack of memory included.
Owned ==
    /\ \A h \in Live : Arr(h) # Unused
    /\ \A h, g \in Live : self[h] = self[g] => h = g
    /\ \A b \in Block : memory[b] # Unused => \E h \in Live : self[h] = b

\* An array is freed with the allocator that made its block, wherever it was
\* copied or reallocated from.
FreedByMaker == \A h \in Live : Arr(h).allocator = Arr(h).maker

\* darr_get_i finds an item from either end (test_darr.c prints both).
SignedIndexAgrees ==
    \A h \in Live : \A i \in 0..(Arr(h).len - 1) :
        /\ SignedIndex(Arr(h), i) = i
        /\ SignedIndex(Arr(h), i - Arr(h).len) = i

\* Every array is a sequence of its own, whoever its neighbours, whichever
\* block it is in and whoever made it.
A == INSTANCE Arrays WITH
        arrays <- [h \in Handle |-> IF IsLive(h) THEN ItemsOf(Arr(h)) ELSE Nil]
IsArrays == A!Spec
=============================================================================
