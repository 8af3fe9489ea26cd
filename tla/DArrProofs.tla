----------------------------- MODULE DArrProofs -----------------------------
(***************************************************************************)
(* Proofs about DArr and DArrReserve, for every set of arrays, blocks,     *)
(* items, slices and capacities, and every number of allocators and        *)
(* arenas.                                                                 *)
(***************************************************************************)
EXTENDS DArrReserve, SequenceTheorems, TLAPS

Cell == Item \union {Zero}

\* What a block in use is like.
Good(a) ==
    /\ a \in ArrVES
    /\ a.len <= Len(a.data)
    /\ \A k \in 1..a.len : a.data[k] \in Item
    /\ a.allocator = a.maker

IInv ==
    /\ memory \in [Block -> ArrVES \union {Unused}]
    /\ self \in [Handle -> Block \union {Nil}]
    /\ \A b \in Block : memory[b] # Unused => Good(memory[b])
    /\ ret \in {"OK", "MEM_ALLOC", "panic", "undefined"}
    /\ Owned

\* The arrays of Arrays.
Contents == [h \in Handle |-> IF IsLive(h) THEN ItemsOf(Arr(h)) ELSE Nil]

-----------------------------------------------------------------------------
(* What is put in a block.                                                 *)

\* memcpy.
LEMMA CopiedIs ==
    ASSUME NEW S, NEW data \in Seq(S), NEW items \in Seq(S), NEW index \in Nat
    PROVE  /\ Copied(data, index, items) \in Seq(S)
           /\ Len(Copied(data, index, items)) = Len(data)
           /\ \A k \in 1..Len(data) :
                 Copied(data, index, items)[k] =
                   IF k \in (index + 1)..(index + Len(items))
                   THEN items[k - index] ELSE data[k]
<1>. DEFINE e(k) == IF k \in (index + 1)..(index + Len(items))
                    THEN items[k - index] ELSE data[k]
            c == [k \in 1..Len(data) |-> e(k)]
<1>1. Len(data) \in Nat /\ Len(items) \in Nat
  BY LenProperties
<1>2. \A k \in 1..Len(data) : e(k) \in S
  <2>. TAKE k \in 1..Len(data)
  <2>1. CASE k \in (index + 1)..(index + Len(items))
    <3>1. k - index \in 1..Len(items)
      BY <1>1, <2>1
    <3>. QED  BY <2>1, <3>1, ElementOfSeq
  <2>2. CASE k \notin (index + 1)..(index + Len(items))
    BY <2>2, ElementOfSeq
  <2>. QED  BY <2>1, <2>2
<1>. HIDE DEF e
<1>3. c \in [1..Len(data) -> S]
  BY <1>2
<1>4. c \in Seq(S) /\ Len(c) = Len(data)
  BY <1>1, <1>3
<1>5. Copied(data, index, items) = c
  BY DEF Copied, e
<1>. QED  BY <1>4, <1>5 DEF e

\* darr_new_cap_in makes an array without items.
LEMMA NewArrIs ==
    ASSUME NEW cap \in Nat, NEW alloc \in Allocators
    PROVE  /\ Good(NewArr(cap, alloc))
           /\ NewArr(cap, alloc).allocator = alloc
           /\ NewArr(cap, alloc).data \in Seq(Cell)
           /\ Len(NewArr(cap, alloc).data) = cap
           /\ ItemsOf(NewArr(cap, alloc)) = <<>>
<1>. DEFINE data == [k \in 1..cap |-> Zero]
<1>1. data \in Seq(Cell) /\ Len(data) = cap
  BY DEF Cell
<1>2. /\ NewArr(cap, alloc).data = data
      /\ NewArr(cap, alloc).len = 0
      /\ NewArr(cap, alloc).allocator = alloc
      /\ NewArr(cap, alloc).maker = alloc
      /\ NewArr(cap, alloc) \in ArrVES
  BY <1>1 DEF NewArr, ArrVES, Cell
<1>. HIDE DEF data
<1>3. SubSeq(data, 1, 0) = <<>>
  BY SubSeqEmpty
<1>. QED  BY <1>1, <1>2, <1>3 DEF Good, ItemsOf

\* The items of a block in use.
LEMMA ItemsOfIs ==
    ASSUME NEW a, Good(a)
    PROVE  /\ ItemsOf(a) \in Seq(Item)
           /\ Len(ItemsOf(a)) = a.len
           /\ \A k \in 1..a.len : ItemsOf(a)[k] = a.data[k]
<1>1. a.data \in Seq(Cell) /\ a.len \in Nat /\ a.len <= Len(a.data)
  BY DEF Good, ArrVES, Cell
<1>2. \A k \in 1..a.len : a.data[k] \in Item
  BY DEF Good
<1>3. ItemsOf(a) = SubSeq(a.data, 1, a.len)
  BY DEF ItemsOf
<1>4. ItemsOf(a) \in Seq(Item) /\ Len(ItemsOf(a)) = a.len
  BY <1>1, <1>2, <1>3, SubSeqProperties
<1>5. \A k \in 1..a.len : ItemsOf(a)[k] = a.data[k]
  BY <1>1, <1>3
<1>. QED  BY <1>4, <1>5

\* Two arrays with the same items at the same places.
LEMMA SameItems ==
    ASSUME NEW a, NEW b, Good(a), Good(b), a.len = b.len,
           \A k \in 1..a.len : a.data[k] = b.data[k]
    PROVE  ItemsOf(a) = ItemsOf(b)
<1>1. /\ ItemsOf(a) \in Seq(Item) /\ ItemsOf(b) \in Seq(Item)
      /\ Len(ItemsOf(a)) = Len(ItemsOf(b))
      /\ \A k \in 1..Len(ItemsOf(a)) : ItemsOf(a)[k] = ItemsOf(b)[k]
  BY ItemsOfIs
<1>. QED  BY <1>1, SeqEqual

\* darr_from_slice_in.
LEMMA FromSliceIs ==
    ASSUME NEW items \in Seq(Cell), NEW alloc \in Allocators
    PROVE  /\ FromSlice(items, alloc) \in ArrVES
           /\ FromSlice(items, alloc).allocator = alloc
           /\ FromSlice(items, alloc).maker = alloc
           /\ FromSlice(items, alloc).len = Len(items)
           /\ Len(FromSlice(items, alloc).data) = Len(items)
           /\ \A k \in 1..Len(items) : FromSlice(items, alloc).data[k] = items[k]
<1>. DEFINE new == NewArr(Len(items), alloc)
            data == Copied(new.data, 0, items)
<1>1. Len(items) \in Nat
  BY LenProperties
<1>2. new \in ArrVES /\ new.data \in Seq(Cell) /\ Len(new.data) = Len(items)
  BY <1>1, NewArrIs DEF Good
<1>3. new.allocator = alloc /\ new.maker = alloc
  BY DEF NewArr
<1>4. /\ data \in Seq(Cell) /\ Len(data) = Len(items)
      /\ \A k \in 1..Len(items) : data[k] = items[k]
  BY <1>1, <1>2, CopiedIs
<1>5. FromSlice(items, alloc) = [new EXCEPT !.data = data, !.len = Len(items)]
  BY DEF FromSlice
<1>. HIDE DEF new, data
<1>. QED  BY <1>1, <1>2, <1>3, <1>4, <1>5 DEF ArrVES, Cell

LEMMA FromSliceGood ==
    ASSUME NEW items \in Seq(Item), NEW alloc \in Allocators
    PROVE  /\ Good(FromSlice(items, alloc))
           /\ ItemsOf(FromSlice(items, alloc)) = items
           /\ Len(FromSlice(items, alloc).data) = Len(items)
<1>. DEFINE a == FromSlice(items, alloc)
<1>1. items \in Seq(Cell) /\ Len(items) \in Nat
  BY SeqMonotonic, LenProperties DEF Cell
<1>2. /\ a \in ArrVES /\ a.allocator = a.maker /\ a.len = Len(items)
      /\ Len(a.data) = Len(items)
      /\ \A k \in 1..Len(items) : a.data[k] = items[k]
  BY <1>1, FromSliceIs
<1>3. \A k \in 1..Len(items) : items[k] \in Item
  BY ElementOfSeq
<1>. HIDE DEF a
<1>4. Good(a)
  BY <1>1, <1>2, <1>3 DEF Good
<1>5. /\ ItemsOf(a) \in Seq(Item) /\ Len(ItemsOf(a)) = Len(items)
      /\ \A k \in 1..Len(items) : ItemsOf(a)[k] = items[k]
  BY <1>2, <1>4, ItemsOfIs
<1>6. ItemsOf(a) = items
  BY <1>5, SeqEqual
<1>. QED  BY <1>2, <1>4, <1>6 DEF a

\* darr_copy_data_in: the copy has the items, as much room, and the allocator
\* it is given.
LEMMA DataCopyGood ==
    ASSUME NEW a, Good(a), NEW alloc \in Allocators
    PROVE  /\ Good(DataCopy(a, alloc))
           /\ ItemsOf(DataCopy(a, alloc)) = ItemsOf(a)
           /\ Len(DataCopy(a, alloc).data) = Len(a.data)
<1>. DEFINE f == FromSlice(a.data, alloc)
            c == DataCopy(a, alloc)
<1>1. /\ a.data \in Seq(Cell) /\ a.len \in Nat /\ a.len <= Len(a.data)
      /\ \A k \in 1..a.len : a.data[k] \in Item
  BY DEF Good, ArrVES, Cell
<1>2. /\ f \in ArrVES /\ f.allocator = f.maker /\ Len(f.data) = Len(a.data)
      /\ \A k \in 1..Len(a.data) : f.data[k] = a.data[k]
  BY <1>1, FromSliceIs
<1>3. c = [f EXCEPT !.len = a.len]
  BY DEF DataCopy
<1>. HIDE DEF f, c
<1>4. /\ c \in ArrVES /\ c.allocator = c.maker /\ c.len = a.len /\ c.data = f.data
  BY <1>1, <1>2, <1>3 DEF ArrVES
<1>5. Len(a.data) \in Nat
  BY <1>1, LenProperties
<1>6. \A k \in 1..a.len : c.data[k] = a.data[k]
  BY <1>1, <1>2, <1>4, <1>5
<1>7. Good(c)
  BY <1>1, <1>2, <1>4, <1>6 DEF Good
<1>8. ItemsOf(c) = ItemsOf(a)
  BY <1>4, <1>6, <1>7, SameItems
<1>. QED  BY <1>2, <1>4, <1>7, <1>8 DEF c

\* The array a push moves to when there is no room has the items, the
\* allocator and room.
LEMMA GrownGood ==
    ASSUME NEW a, Good(a)
    PROVE  /\ Good(Grown(a))
           /\ ItemsOf(Grown(a)) = ItemsOf(a)
           /\ RestCap(a) = 0 => RestCap(Grown(a)) > 0
           /\ Len(Grown(a).data) >= Len(a.data)
<1>. DEFINE cap == Larger(Len(a.data) * 2, DARR_DEFAULT_INIT_CAP)
            new == NewArr(cap, a.allocator)
            data == Copied(new.data, 0, a.data)
            g == Grown(a)
<1>1. /\ a.data \in Seq(Cell) /\ a.len \in Nat /\ a.len <= Len(a.data)
      /\ \A k \in 1..a.len : a.data[k] \in Item
      /\ a.allocator \in Allocators
  BY DEF Good, ArrVES, Cell
<1>2. Len(a.data) \in Nat
  BY <1>1, LenProperties
<1>3. cap \in Nat /\ cap > 0 /\ Len(a.data) <= cap /\ (Len(a.data) > 0 => Len(a.data) < cap)
  BY <1>2, CapAssumption DEF Larger
<1>. HIDE DEF cap
<1>4. new \in ArrVES /\ new.data \in Seq(Cell) /\ Len(new.data) = cap
  BY <1>1, <1>3, NewArrIs DEF Good
<1>5. new.allocator = new.maker
  BY DEF NewArr
<1>6. /\ data \in Seq(Cell) /\ Len(data) = cap
      /\ \A k \in 1..Len(a.data) : data[k] = a.data[k]
  <2>1. /\ data \in Seq(Cell) /\ Len(data) = Len(new.data)
        /\ \A k \in 1..Len(new.data) :
              data[k] = IF k \in (0 + 1)..(0 + Len(a.data))
                        THEN a.data[k - 0] ELSE new.data[k]
    BY <1>1, <1>4, CopiedIs
  <2>. HIDE DEF data, new
  <2>. QED  BY <2>1, <1>2, <1>3, <1>4
<1>7. g = [new EXCEPT !.data = data, !.len = a.len]
  BY DEF Grown, cap
<1>. HIDE DEF new, data, g
<1>8. /\ g \in ArrVES /\ g.allocator = g.maker /\ g.len = a.len /\ g.data = data
  BY <1>1, <1>4, <1>5, <1>6, <1>7 DEF ArrVES, Cell
<1>9. \A k \in 1..a.len : g.data[k] = a.data[k]
  BY <1>1, <1>2, <1>6, <1>8
<1>10. Good(g)
  BY <1>1, <1>2, <1>3, <1>6, <1>8, <1>9 DEF Good
<1>11. ItemsOf(g) = ItemsOf(a)
  BY <1>8, <1>9, <1>10, SameItems
<1>12. RestCap(a) = 0 => RestCap(g) > 0
  BY <1>1, <1>2, <1>3, <1>6, <1>8 DEF RestCap
<1>13. Len(g.data) >= Len(a.data)
  BY <1>2, <1>3, <1>6, <1>8
<1>. QED  BY <1>10, <1>11, <1>12, <1>13 DEF g

\* Items that fit come after the ones there are.
LEMMA AddedGood ==
    ASSUME NEW a, Good(a), NEW items \in Seq(Item), RestCap(a) >= Len(items)
    PROVE  /\ Good(Added(a, items))
           /\ ItemsOf(Added(a, items)) = ItemsOf(a) \o items
           /\ Len(Added(a, items).data) = Len(a.data)
<1>. DEFINE data == Copied(a.data, a.len, items)
            d == Added(a, items)
            n == Len(items)
<1>1. /\ a \in ArrVES /\ a.data \in Seq(Cell) /\ a.len \in Nat
      /\ \A k \in 1..a.len : a.data[k] \in Item
      /\ a.allocator = a.maker
  BY DEF Good, ArrVES, Cell
<1>2. Len(a.data) \in Nat /\ n \in Nat
  BY <1>1, LenProperties
<1>3. a.len + n <= Len(a.data)
  BY <1>1, <1>2 DEF RestCap
<1>4. items \in Seq(Cell)
  BY SeqMonotonic DEF Cell
<1>5. /\ data \in Seq(Cell) /\ Len(data) = Len(a.data)
      /\ \A k \in 1..Len(a.data) :
            data[k] = IF k \in (a.len + 1)..(a.len + n)
                      THEN items[k - a.len] ELSE a.data[k]
  BY <1>1, <1>4, CopiedIs
<1>6. d = [a EXCEPT !.data = data, !.len = a.len + n]
  BY DEF Added
<1>7. \A k \in 1..n : items[k] \in Item
  BY ElementOfSeq
<1>. HIDE DEF data, d, n
<1>8. /\ d \in ArrVES /\ d.allocator = d.maker /\ d.len = a.len + n /\ d.data = data
  <2>1. a.len + n \in Nat
    BY <1>1, <1>2
  <2>. DEFINE total == a.len + n
  <2>. HIDE DEF total
  <2>2. d = [a EXCEPT !.data = data, !.len = total]
    BY <1>6 DEF total
  <2>3. total \in Nat /\ data \in Seq(Item \union {Zero})
    BY <1>5, <2>1 DEF total, Cell
  <2>4. /\ d \in ArrVES /\ d.allocator = d.maker /\ d.len = total /\ d.data = data
    BY <1>1, <2>2, <2>3 DEF ArrVES
  <2>. QED  BY <2>4 DEF total
<1>9. ASSUME NEW k \in 1..(a.len + n)
      PROVE  d.data[k] = IF k <= a.len THEN a.data[k] ELSE items[k - a.len]
  BY <1>1, <1>2, <1>3, <1>5, <1>8
<1>10. ASSUME NEW k \in 1..(a.len + n)
       PROVE  d.data[k] \in Item
  BY <1>1, <1>2, <1>7, <1>9
<1>11. Good(d)
  BY <1>1, <1>2, <1>3, <1>5, <1>8, <1>10 DEF Good
<1>12. /\ ItemsOf(d) \in Seq(Item) /\ Len(ItemsOf(d)) = a.len + n
       /\ \A k \in 1..(a.len + n) : ItemsOf(d)[k] = d.data[k]
  BY <1>8, <1>11, ItemsOfIs
<1>. DEFINE c == ItemsOf(a) \o items
<1>13. /\ ItemsOf(a) \in Seq(Item) /\ Len(ItemsOf(a)) = a.len
       /\ \A k \in 1..a.len : ItemsOf(a)[k] = a.data[k]
  BY ItemsOfIs
<1>14. /\ c \in Seq(Item) /\ Len(c) = a.len + n
       /\ \A k \in 1..(a.len + n) :
             c[k] = IF k <= a.len THEN ItemsOf(a)[k] ELSE items[k - a.len]
  <2>1. /\ c \in Seq(Item) /\ Len(c) = Len(ItemsOf(a)) + Len(items)
        /\ \A k \in 1..(Len(ItemsOf(a)) + Len(items)) :
              c[k] = IF k <= Len(ItemsOf(a)) THEN ItemsOf(a)[k]
                     ELSE items[k - Len(ItemsOf(a))]
    BY <1>13, ConcatProperties
  <2>. HIDE DEF c
  <2>. QED  BY <1>13, <2>1 DEF n
<1>. HIDE DEF c
<1>15. \A k \in 1..(a.len + n) : ItemsOf(d)[k] = c[k]
  BY <1>1, <1>2, <1>9, <1>12, <1>13, <1>14
<1>16. ItemsOf(d) = c
  BY <1>12, <1>14, <1>15, SeqEqual
<1>. QED  BY <1>5, <1>8, <1>11, <1>16 DEF c, d

-----------------------------------------------------------------------------
(* What the calls do with blocks.                                          *)

LEMMA LiveIs ==
    ASSUME IInv, NEW h \in Handle
    PROVE  /\ self[h] \in Block \union {Nil}
           /\ IsLive(h) => self[h] \in Block
           /\ IsLive(h) => Arr(h) # Unused /\ Good(Arr(h))
BY DEF IInv, Owned, Live, IsLive, Arr

LEMMA GoodUsed ==
    ASSUME NEW a, Good(a)
    PROVE  a # Unused /\ a \in ArrVES
BY NilAssumption DEF Good

\* What a step has to show of the arrays other than the one it is about.
Others(h) ==
    \A g \in Handle \ {h} :
        /\ self'[g] = self[g]
        /\ IsLive(g) => memory'[self[g]] = memory[self[g]]

LEMMA ContentsSet ==
    ASSUME NEW h \in Handle, NEW items, Others(h),
           items = IF self'[h] # Nil THEN ItemsOf(memory'[self'[h]]) ELSE Nil
    PROVE  Contents' = [Contents EXCEPT ![h] = items]
BY DEF Contents, Others, IsLive, Arr

\* A block for an array that had none.
LEMMA MakeKeeps ==
    ASSUME IInv, NEW h \in Handle, ~IsLive(h),
           NEW a, Good(a), Make(h, a)
    PROVE  /\ IInv'
           /\ Contents' = [Contents EXCEPT ![h] = ItemsOf(a)]
           /\ ret' = "OK"
           /\ Others(h) /\ self'[h] # Nil /\ memory'[self'[h]] = a
<1>1. PICK b \in Block :
        /\ memory[b] = Unused
        /\ memory' = [memory EXCEPT ![b] = a]
        /\ self' = [self EXCEPT ![h] = b]
  BY DEF Make
<1>2. ret' = "OK"
  BY DEF Make
<1>3. memory \in [Block -> ArrVES \union {Unused}] /\ self \in [Handle -> Block \union {Nil}]
  BY DEF IInv
<1>4. a # Unused /\ a \in ArrVES /\ b # Nil
  BY GoodUsed, NilAssumption
<1>5. \A g \in Handle : IsLive(g) => self[g] \in Block /\ self[g] # b /\ g # h
  BY <1>1, LiveIs DEF Arr
<1>6. Others(h) /\ self'[h] = b /\ memory'[b] = a
  BY <1>1, <1>3, <1>5 DEF Others
<1>7. \A c \in Block : memory'[c] # Unused => Good(memory'[c])
  BY <1>1, <1>3 DEF IInv
<1>8. Owned'
  <2>1. \A g \in Handle : self'[g] # Nil => memory'[self'[g]] # Unused
    BY <1>3, <1>4, <1>5, <1>6, LiveIs DEF Others, IsLive, Arr
  <2>2. ASSUME NEW g \in Handle, NEW f \in Handle,
               self'[g] # Nil, self'[f] # Nil, self'[g] = self'[f]
        PROVE  g = f
    BY <1>5, <1>6, <2>2 DEF Others, IsLive, IInv, Owned, Live
  <2>3. ASSUME NEW c \in Block, memory'[c] # Unused
        PROVE  \E g \in Handle : self'[g] # Nil /\ self'[g] = c
    <3>1. CASE c = b
      BY <1>4, <1>6, <3>1
    <3>2. CASE c # b
      <4>1. memory[c] # Unused
        BY <1>1, <1>3, <2>3, <3>2
      <4>2. PICK g \in Handle : IsLive(g) /\ self[g] = c
        BY <4>1 DEF IInv, Owned, Live
      <4>. QED  BY <1>5, <1>6, <4>2 DEF Others, IsLive
    <3>. QED  BY <3>1, <3>2
  <2>. QED  BY <2>1, <2>2, <2>3 DEF Owned, Live, IsLive, Arr
<1>9. IInv'
  BY <1>1, <1>2, <1>3, <1>4, <1>7, <1>8 DEF IInv
<1>. QED  BY <1>2, <1>4, <1>6, <1>9, ContentsSet

\* A block in place of the one an array had.
LEMMA MoveKeeps ==
    ASSUME IInv, NEW h \in Handle, IsLive(h),
           NEW a, Good(a), Move(h, a)
    PROVE  /\ IInv'
           /\ Contents' = [Contents EXCEPT ![h] = ItemsOf(a)]
           /\ ret' = "OK"
           /\ Others(h) /\ self'[h] # Nil /\ memory'[self'[h]] = a
<1>. DEFINE old == self[h]
<1>1. PICK b \in Block :
        /\ memory[b] = Unused
        /\ memory' = [memory EXCEPT ![b] = a, ![old] = Unused]
        /\ self' = [self EXCEPT ![h] = b]
  BY DEF Move
<1>2. ret' = "OK"
  BY DEF Move
<1>3. memory \in [Block -> ArrVES \union {Unused}] /\ self \in [Handle -> Block \union {Nil}]
  BY DEF IInv
<1>4. a # Unused /\ a \in ArrVES /\ b # Nil /\ old \in Block /\ old # b /\ old # Nil
  BY <1>1, GoodUsed, NilAssumption, LiveIs DEF Arr, IsLive
<1>5. \A g \in Handle \ {h} : IsLive(g) => self[g] \in Block /\ self[g] # b /\ self[g] # old
  <2>1. \A g \in Handle : IsLive(g) => self[g] \in Block /\ self[g] # b
    BY <1>1, LiveIs DEF Arr
  <2>2. \A g \in Handle \ {h} : IsLive(g) => self[g] # old
    BY DEF IInv, Owned, Live
  <2>. QED  BY <2>1, <2>2
<1>6. Others(h) /\ self'[h] = b /\ memory'[b] = a /\ memory'[old] = Unused
  BY <1>1, <1>3, <1>4, <1>5 DEF Others
<1>7. \A c \in Block : memory'[c] # Unused => Good(memory'[c])
  BY <1>1, <1>3, <1>4 DEF IInv
<1>8. Owned'
  <2>1. \A g \in Handle : self'[g] # Nil => memory'[self'[g]] # Unused
    BY <1>3, <1>4, <1>5, <1>6, LiveIs DEF Others, IsLive, Arr
  <2>2. ASSUME NEW g \in Handle, NEW f \in Handle,
               self'[g] # Nil, self'[f] # Nil, self'[g] = self'[f]
        PROVE  g = f
    BY <1>5, <1>6, <2>2 DEF Others, IsLive, IInv, Owned, Live
  <2>3. ASSUME NEW c \in Block, memory'[c] # Unused
        PROVE  \E g \in Handle : self'[g] # Nil /\ self'[g] = c
    <3>1. CASE c = b
      BY <1>4, <1>6, <3>1
    <3>2. CASE c # b
      <4>1. memory[c] # Unused /\ c # old
        BY <1>1, <1>3, <1>6, <2>3, <3>2
      <4>2. PICK g \in Handle : IsLive(g) /\ self[g] = c
        BY <4>1 DEF IInv, Owned, Live
      <4>. QED  BY <1>6, <4>1, <4>2 DEF Others, IsLive
    <3>. QED  BY <3>1, <3>2
  <2>. QED  BY <2>1, <2>2, <2>3 DEF Owned, Live, IsLive, Arr
<1>9. memory' \in [Block -> ArrVES \union {Unused}] /\ self' \in [Handle -> Block \union {Nil}]
  BY <1>1, <1>3, <1>4
<1>10. IInv'
  BY <1>2, <1>7, <1>8, <1>9 DEF IInv
<1>. QED  BY <1>2, <1>4, <1>6, <1>10, ContentsSet

\* The same block with something else in it.
LEMMA UpdateKeeps ==
    ASSUME IInv, NEW h \in Handle, IsLive(h),
           NEW a, Good(a), Update(h, a)
    PROVE  /\ IInv'
           /\ Contents' = [Contents EXCEPT ![h] = ItemsOf(a)]
           /\ ret' = "OK"
           /\ Others(h) /\ self'[h] # Nil /\ memory'[self'[h]] = a
<1>. DEFINE b == self[h]
<1>1. /\ memory' = [memory EXCEPT ![b] = a]
      /\ self' = self /\ ret' = "OK"
  BY DEF Update
<1>2. memory \in [Block -> ArrVES \union {Unused}] /\ self \in [Handle -> Block \union {Nil}]
  BY DEF IInv
<1>3. a # Unused /\ a \in ArrVES /\ b \in Block /\ b # Nil /\ memory[b] # Unused
  BY GoodUsed, LiveIs DEF IsLive, Arr
<1>4. \A g \in Handle \ {h} : IsLive(g) => self[g] \in Block /\ self[g] # b
  BY LiveIs DEF IInv, Owned, Live
<1>5. Others(h) /\ memory'[b] = a
  BY <1>1, <1>2, <1>3, <1>4 DEF Others
<1>6. \A c \in Block : memory'[c] # Unused => Good(memory'[c])
  BY <1>1, <1>2 DEF IInv
<1>7. \A c \in Block : memory'[c] # Unused <=> memory[c] # Unused
  BY <1>1, <1>2, <1>3
<1>8. Owned'
  BY <1>1, <1>2, <1>7 DEF IInv, Owned, Live, IsLive, Arr
<1>9. memory' \in [Block -> ArrVES \union {Unused}]
  BY <1>1, <1>2, <1>3
<1>10. IInv'
  BY <1>1, <1>2, <1>6, <1>8, <1>9 DEF IInv
<1>. QED  BY <1>1, <1>3, <1>5, <1>10, ContentsSet

LEMMA SameKeeps ==
    ASSUME IInv, UNCHANGED <<memory, self>>, 
           ret' \in {ret, "OK", "MEM_ALLOC", "panic", "undefined"}
    PROVE  IInv' /\ Contents' = Contents
BY DEF IInv, Owned, Live, IsLive, Arr, Contents

-----------------------------------------------------------------------------
(* The steps, each with the one of Arrays it is.                           *)

ArraysStep == [A!Next]_<<Contents, ret>>

LEMMA ContentsIs ==
    ASSUME IInv, NEW h \in Handle
    PROVE  /\ IsLive(h) => Contents[h] = ItemsOf(Arr(h)) /\ Contents[h] \in Seq(Item)
           /\ IsLive(h) => Contents[h] # Nil
           /\ ~IsLive(h) => Contents[h] = Nil
<1>1. CASE IsLive(h)
  <2>1. Contents[h] = ItemsOf(Arr(h)) /\ Contents[h] \in Seq(Item)
    BY <1>1, LiveIs, ItemsOfIs DEF Contents
  <2>. QED  BY <1>1, <2>1, NilAssumption
<1>2. CASE ~IsLive(h)
  BY <1>2 DEF Contents
<1>. QED  BY <1>1, <1>2

LEMMA NoMemoryStep ==
    ASSUME IInv, NoMemory
    PROVE  IInv' /\ ArraysStep
<1>1. IInv' /\ Contents' = Contents
  BY SameKeeps DEF NoMemory
<1>. QED  BY <1>1 DEF ArraysStep, A!Next, A!Nothing, Contents

LEMMA StopsStep ==
    ASSUME IInv, NEW how \in {"panic", "undefined"}, Stops(how)
    PROVE  IInv' /\ ArraysStep
<1>1. IInv' /\ Contents' = Contents
  BY SameKeeps DEF Stops
<1>. QED  BY <1>1 DEF ArraysStep, A!Next, A!Nothing, Contents

LEMMA NewStep ==
    ASSUME IInv, NEW h \in Handle, NEW cap \in Caps, NEW alloc \in Allocators,
           New(h, cap, alloc)
    PROVE  IInv' /\ ArraysStep
<1>1. CASE NoMemory
  BY <1>1, NoMemoryStep
<1>2. CASE Make(h, NewArr(cap, alloc))
  <2>1. Good(NewArr(cap, alloc)) /\ ItemsOf(NewArr(cap, alloc)) = <<>>
    BY CapAssumption, NewArrIs
  <2>2. ~IsLive(h) 
    BY DEF New
  <2>3. IInv' /\ Contents' = [Contents EXCEPT ![h] = <<>>] /\ ret' = "OK"
    BY <1>2, <2>1, <2>2, MakeKeeps
  <2>4. Contents[h] = Nil
    BY <2>2, ContentsIs
  <2>5. A!New(h)
    BY <2>3, <2>4 DEF A!New, A!Become, Contents
  <2>. QED  BY <2>3, <2>5 DEF ArraysStep, A!Next
<1>. QED  BY <1>1, <1>2 DEF New

LEMMA NewFromSliceStep ==
    ASSUME IInv, NEW h \in Handle, NEW items \in Slices, NEW alloc \in Allocators,
           NewFromSlice(h, items, alloc)
    PROVE  IInv' /\ ArraysStep
<1>1. CASE NoMemory
  BY <1>1, NoMemoryStep
<1>2. CASE Make(h, FromSlice(items, alloc))
  <2>1. Good(FromSlice(items, alloc)) /\ ItemsOf(FromSlice(items, alloc)) = items
    BY ItemAssumption, FromSliceGood
  <2>2. ~IsLive(h) 
    BY DEF NewFromSlice
  <2>3. IInv' /\ Contents' = [Contents EXCEPT ![h] = items] /\ ret' = "OK"
    BY <1>2, <2>1, <2>2, MakeKeeps
  <2>4. Contents[h] = Nil
    BY <2>2, ContentsIs
  <2>5. A!New(h)
    BY <2>3, <2>4 DEF A!New, A!Become, Contents
  <2>. QED  BY <2>3, <2>5 DEF ArraysStep, A!Next
<1>. QED  BY <1>1, <1>2 DEF NewFromSlice

LEMMA CopyDataInStep ==
    ASSUME IInv, NEW h \in Handle, NEW g \in Handle, NEW alloc \in Allocators,
           CopyDataIn(h, g, alloc)
    PROVE  IInv' /\ ArraysStep
<1>1. CASE NoMemory
  BY <1>1, NoMemoryStep
<1>2. CASE Make(h, DataCopy(Arr(g), alloc))
  <2>1. ~IsLive(h) /\ IsLive(g) 
    BY DEF CopyDataIn
  <2>2. Good(Arr(g))
    BY <2>1, LiveIs
  <2>3. /\ Good(DataCopy(Arr(g), alloc))
        /\ ItemsOf(DataCopy(Arr(g), alloc)) = ItemsOf(Arr(g))
    BY <2>2, DataCopyGood
  <2>4. IInv' /\ Contents' = [Contents EXCEPT ![h] = ItemsOf(Arr(g))] /\ ret' = "OK"
    BY <1>2, <2>1, <2>3, MakeKeeps
  <2>5. Contents[h] = Nil /\ Contents[g] # Nil /\ Contents[g] = ItemsOf(Arr(g))
    BY <2>1, ContentsIs
  <2>6. A!Copy(h, g)
    BY <2>4, <2>5 DEF A!Copy, A!Become, Contents
  <2>. QED  BY <2>4, <2>6 DEF ArraysStep, A!Next
<1>. QED  BY <1>1, <1>2 DEF CopyDataIn

LEMMA ReallocateInStep ==
    ASSUME IInv, NEW h \in Handle, NEW alloc \in Allocators, ReallocateIn(h, alloc)
    PROVE  IInv' /\ ArraysStep
<1>1. CASE NoMemory
  BY <1>1, NoMemoryStep
<1>2. CASE Move(h, DataCopy(Arr(h), alloc))
  <2>1. IsLive(h) 
    BY DEF ReallocateIn
  <2>2. Good(Arr(h))
    BY <2>1, LiveIs
  <2>3. /\ Good(DataCopy(Arr(h), alloc))
        /\ ItemsOf(DataCopy(Arr(h), alloc)) = ItemsOf(Arr(h))
    BY <2>2, DataCopyGood
  <2>4. IInv' /\ Contents' = [Contents EXCEPT ![h] = ItemsOf(Arr(h))]
    BY <1>2, <2>1, <2>3, MoveKeeps
  <2>5. Contents[h] = ItemsOf(Arr(h))
    BY <2>1, ContentsIs
  <2>6. Contents' = Contents
    BY <2>4, <2>5 DEF Contents
  <2>. QED  BY <2>4, <2>6 DEF ArraysStep, A!Next, A!Nothing, Contents
<1>. QED  BY <1>1, <1>2 DEF ReallocateIn

LEMMA FreeOthers ==
    ASSUME IInv, NEW h \in Handle, Free(h)
    PROVE  /\ Others(h) /\ self[h] \in Block
           /\ self'[h] = Nil /\ memory'[self[h]] = Unused
<1>. DEFINE old == self[h]
<1>1. /\ IsLive(h)
      /\ memory' = [memory EXCEPT ![old] = Unused]
      /\ self' = [self EXCEPT ![h] = Nil]
  BY DEF Free
<1>2. memory \in [Block -> ArrVES \union {Unused}] /\ self \in [Handle -> Block \union {Nil}]
  BY DEF IInv
<1>3. old \in Block
  BY <1>1, LiveIs
<1>4. \A g \in Handle \ {h} : IsLive(g) => self[g] \in Block /\ self[g] # old
  BY <1>1, LiveIs DEF IInv, Owned, Live
<1>. QED  BY <1>1, <1>2, <1>3, <1>4 DEF Others

LEMMA FreeStep ==
    ASSUME IInv, NEW h \in Handle, Free(h)
    PROVE  IInv' /\ ArraysStep
<1>. DEFINE old == self[h]
<1>1.  /\ IsLive(h) /\ ret' = "OK"
      /\ memory' = [memory EXCEPT ![old] = Unused]
      /\ self' = [self EXCEPT ![h] = Nil]
  BY DEF Free
<1>2. memory \in [Block -> ArrVES \union {Unused}] /\ self \in [Handle -> Block \union {Nil}]
  BY DEF IInv
<1>3. old \in Block
  BY <1>1, LiveIs
<1>5. Others(h) /\ self'[h] = Nil /\ memory'[old] = Unused
  BY FreeOthers
<1>6. \A c \in Block : memory'[c] # Unused => memory[c] # Unused /\ c # old /\ memory'[c] = memory[c]
  BY <1>1, <1>2
<1>7. Owned'
  <2>1. \A g \in Handle : self'[g] # Nil => g # h /\ IsLive(g) /\ self'[g] = self[g]
    BY <1>5 DEF Others, IsLive
  <2>2. \A g \in Handle : self'[g] # Nil => memory'[self'[g]] # Unused
    BY <1>5, <2>1, LiveIs DEF Others, Arr
  <2>3. \A g, f \in Handle : self'[g] # Nil /\ self'[f] # Nil /\ self'[g] = self'[f] => g = f
    BY <2>1 DEF IInv, Owned, Live
  <2>4. ASSUME NEW c \in Block, memory'[c] # Unused
        PROVE  \E g \in Handle : self'[g] # Nil /\ self'[g] = c
    <3>1. PICK g \in Handle : IsLive(g) /\ self[g] = c
      BY <1>6, <2>4 DEF IInv, Owned, Live
    <3>2. g # h
      BY <1>6, <2>4, <3>1
    <3>. QED  BY <1>5, <3>1, <3>2 DEF Others, IsLive
  <2>. QED  BY <2>2, <2>3, <2>4 DEF Owned, Live, IsLive, Arr
<1>8. memory' \in [Block -> ArrVES \union {Unused}] /\ self' \in [Handle -> Block \union {Nil}]
  BY <1>1, <1>2
<1>9. IInv'
  BY <1>1, <1>6, <1>7, <1>8 DEF IInv
<1>10. Contents' = [Contents EXCEPT ![h] = Nil] /\ Contents[h] # Nil
  BY <1>1, <1>5, ContentsSet, ContentsIs
<1>11. A!Free(h)
  BY <1>1, <1>10 DEF A!Free, A!Become, Contents
<1>. QED  BY <1>9, <1>11 DEF ArraysStep, A!Next

LEMMA RestCapNat ==
    ASSUME NEW a, Good(a)
    PROVE  RestCap(a) \in Nat /\ RestCap(a) = Len(a.data) - a.len
BY LenProperties DEF Good, ArrVES, RestCap

\* One item has length one.
LEMMA OneItem ==
    ASSUME NEW item \in Item
    PROVE  <<item>> \in Seq(Item) /\ Len(<<item>>) = 1
OBVIOUS

LEMMA PushIntoStep ==
    ASSUME IInv, NEW h \in Handle, IsLive(h), NEW item \in Item,
           PushInto(h, item)
    PROVE  IInv' /\ ArraysStep
<1>1. Good(Arr(h)) /\ RestCap(Arr(h)) > 0 /\ Update(h, Added(Arr(h), <<item>>))
  BY LiveIs DEF PushInto
<1>2. RestCap(Arr(h)) >= Len(<<item>>)
  BY <1>1, RestCapNat, OneItem
<1>3. /\ Good(Added(Arr(h), <<item>>))
      /\ ItemsOf(Added(Arr(h), <<item>>)) = ItemsOf(Arr(h)) \o <<item>>
  BY <1>1, <1>2, OneItem, AddedGood
<1>4. /\ IInv' /\ ret' = "OK"
      /\ Contents' = [Contents EXCEPT ![h] = ItemsOf(Arr(h)) \o <<item>>]
  BY <1>1, <1>3, UpdateKeeps
<1>5. Contents[h] = ItemsOf(Arr(h)) /\ Contents[h] \in Seq(Item) /\ Contents[h] # Nil
  BY ContentsIs
<1>6. Contents' = [Contents EXCEPT ![h] = Append(Contents[h], item)]
  BY <1>4, <1>5, AppendIsConcat
<1>7. A!Push(h)
  BY <1>4, <1>5, <1>6 DEF A!Push, A!Become, Contents
<1>. QED  BY <1>4, <1>7 DEF ArraysStep, A!Next

\* A push that grows is the push into an array with the same items and room.
LEMMA PushMovingStep ==
    ASSUME IInv, NEW h \in Handle, IsLive(h), NEW item \in Item,
           PushMoving(h, item)
    PROVE  IInv' /\ ArraysStep
<1>1. CASE NoMemory
  BY <1>1, NoMemoryStep
<1>2. CASE Move(h, Added(Grown(Arr(h)), <<item>>))
  <2>. DEFINE g == Grown(Arr(h))
  <2>1. Good(Arr(h)) /\ RestCap(Arr(h)) = 0
    BY LiveIs DEF PushMoving
  <2>2. Good(g) /\ ItemsOf(g) = ItemsOf(Arr(h)) /\ RestCap(g) > 0
    BY <2>1, GrownGood
  <2>. HIDE DEF g
  <2>3. RestCap(g) >= Len(<<item>>)
    BY <2>2, RestCapNat, OneItem
  <2>4. /\ Good(Added(g, <<item>>))
        /\ ItemsOf(Added(g, <<item>>)) = ItemsOf(Arr(h)) \o <<item>>
    BY <2>2, <2>3, OneItem, AddedGood
  <2>5. Move(h, Added(g, <<item>>))
    BY <1>2 DEF g
  <2>6. /\ IInv' /\ ret' = "OK"
        /\ Contents' = [Contents EXCEPT ![h] = ItemsOf(Arr(h)) \o <<item>>]
    BY <2>4, <2>5, MoveKeeps
  <2>7. Contents[h] = ItemsOf(Arr(h)) /\ Contents[h] \in Seq(Item) /\ Contents[h] # Nil
    BY ContentsIs
  <2>8. Contents' = [Contents EXCEPT ![h] = Append(Contents[h], item)]
    BY <2>6, <2>7, AppendIsConcat
  <2>9. A!Push(h)
    BY <2>6, <2>7, <2>8 DEF A!Push, A!Become, Contents
  <2>. QED  BY <2>6, <2>9 DEF ArraysStep, A!Next
<1>. QED  BY <1>1, <1>2 DEF PushMoving

LEMMA PushStep ==
    ASSUME IInv, NEW h \in Handle, NEW item \in Item, Push(h, item)
    PROVE  IInv' /\ ArraysStep
BY PushIntoStep, PushMovingStep DEF Push

LEMMA PushOwnStep ==
    ASSUME IInv, NEW h \in Handle, NEW i \in 0..(MaxLen - 1), PushOwn(h, i)
    PROVE  IInv' /\ ArraysStep
<1>. DEFINE item == Arr(h).data[i + 1]
<1>1. IsLive(h) /\ i < Arr(h).len
  BY DEF PushOwn
<1>2. Good(Arr(h))
  BY <1>1, LiveIs
<1>3. i + 1 \in 1..Arr(h).len
  BY <1>1, <1>2, CapAssumption DEF Good, ArrVES
<1>4. item \in Item
  BY <1>2, <1>3 DEF Good
<1>5. \/ PushInto(h, item)
      \/ PushMoving(h, item)
      \/ RestCap(Arr(h)) = 0 /\ (Stops("undefined") \/ NoMemory)
  BY DEF PushOwn
<1>. HIDE DEF item
<1>6. CASE PushInto(h, item) \/ PushMoving(h, item)
  BY <1>1, <1>4, <1>6, PushIntoStep, PushMovingStep
<1>7. CASE NoMemory
  BY <1>7, NoMemoryStep
<1>8. CASE RestCap(Arr(h)) = 0 /\ Stops("undefined")
  BY <1>1, <1>8, StopsStep
<1>. QED  BY <1>5, <1>6, <1>7, <1>8

LEMMA PopStep ==
    ASSUME IInv, NEW h \in Handle, Pop(h)
    PROVE  IInv' /\ ArraysStep
<1>1. IsLive(h)
  BY DEF Pop
<1>2. Good(Arr(h))
  BY <1>1, LiveIs
<1>3. CASE Arr(h).len = 0 /\ Stops("panic")
  BY <1>1, <1>3, StopsStep
<1>4. CASE Arr(h).len > 0 /\ Update(h, [Arr(h) EXCEPT !.len = @ - 1])
  <2>. DEFINE a == Arr(h)
              p == [a EXCEPT !.len = @ - 1]
              c == Contents[h]
  <2>1. /\ a \in ArrVES /\ a.len \in Nat /\ a.len > 0 /\ a.len <= Len(a.data)
        /\ \A k \in 1..a.len : a.data[k] \in Item
        /\ a.allocator = a.maker
    BY <1>2, <1>4 DEF Good, ArrVES
  <2>2. c = ItemsOf(a) /\ c \in Seq(Item) /\ c # Nil
    BY <1>1, ContentsIs
  <2>3. Len(c) = a.len /\ \A k \in 1..a.len : c[k] = a.data[k]
    BY <1>2, <2>2, ItemsOfIs
  <2>4. Update(h, p)
    BY <1>4
  <2>. HIDE DEF a, c
  <2>5. p \in ArrVES /\ p.len = a.len - 1 /\ p.data = a.data /\ p.allocator = p.maker
    BY <2>1 DEF ArrVES
  <2>. HIDE DEF p
  <2>6. Len(a.data) \in Nat
    BY <2>1, LenProperties DEF ArrVES
  <2>7. Good(p)
    BY <2>1, <2>5, <2>6 DEF Good
  <2>8. IInv' /\ Contents' = [Contents EXCEPT ![h] = ItemsOf(p)] /\ ret' = "OK"
    BY <1>1, <2>4, <2>7, UpdateKeeps
  <2>. DEFINE d == SubSeq(c, 1, Len(c) - 1)
  <2>9. /\ d \in Seq(Item) /\ Len(d) = a.len - 1
        /\ \A k \in 1..(a.len - 1) : d[k] = c[k]
    BY <2>1, <2>2, <2>3
  <2>10. /\ ItemsOf(p) \in Seq(Item) /\ Len(ItemsOf(p)) = a.len - 1
         /\ \A k \in 1..(a.len - 1) : ItemsOf(p)[k] = a.data[k]
    BY <2>5, <2>7, ItemsOfIs
  <2>. HIDE DEF d
  <2>11. \A k \in 1..(a.len - 1) : ItemsOf(p)[k] = d[k]
    BY <2>1, <2>3, <2>9, <2>10
  <2>12. ItemsOf(p) = d
    BY <2>9, <2>10, <2>11, SeqEqual
  <2>13. c # <<>>
    BY <2>1, <2>3
  <2>14. Contents[h] \notin {Nil, <<>>} /\ ItemsOf(p) = SubSeq(Contents[h], 1, Len(Contents[h]) - 1)
    BY <2>2, <2>12, <2>13 DEF c, d
  <2>15. A!Pop(h)
    BY <2>8, <2>14 DEF A!Pop, A!Become, Contents
  <2>. QED  BY <2>8, <2>15 DEF ArraysStep, A!Next
<1>. QED  BY <1>3, <1>4 DEF Pop

LEMMA ResizeStep ==
    ASSUME IInv, NEW h \in Handle, Resize(h)
    PROVE  IInv' /\ ArraysStep
BY StopsStep DEF Resize

LEMMA ReserveCapStep ==
    ASSUME IInv, NEW h \in Handle, NEW n \in Reserves, ReserveCap(h, n)
    PROVE  IInv' /\ ArraysStep
<1>1. IsLive(h) /\ n \in Nat
  BY CapAssumption DEF ReserveCap
<1>2. CASE ret' = "OK" /\ UNCHANGED <<memory, self>>
  <2>1. IInv' /\ Contents' = Contents
    BY <1>2, SameKeeps
  <2>. QED  BY <2>1 DEF ArraysStep, A!Next, A!Nothing, Contents
<1>3. CASE RestCap(Arr(h)) < n /\ Resize(h)
  BY <1>1, <1>3, ResizeStep
<1>. QED  BY <1>2, <1>3 DEF ReserveCap

\* The items of a slice, or of an array.
LEMMA AppendItemsKeeps ==
    ASSUME IInv, NEW h \in Handle, NEW items \in Seq(Item), AppendItems(h, items)
    PROVE  /\ IInv'
           /\ \/ ArraysStep
              \/ /\ Contents[h] # Nil /\ ret' = "OK"
                 /\ Contents' = [Contents EXCEPT ![h] = Contents[h] \o items]
<1>1. IsLive(h)  /\ Len(items) \in Nat
  BY LenProperties DEF AppendItems
<1>2. CASE RestCap(Arr(h)) < Len(items) /\ Resize(h)
  BY <1>1, <1>2, ResizeStep
<1>3. CASE RestCap(Arr(h)) >= Len(items) /\ Update(h, Added(Arr(h), items))
  <2>1. Good(Arr(h)) /\ Contents[h] = ItemsOf(Arr(h)) /\ Contents[h] # Nil
    BY <1>1, LiveIs, ContentsIs
  <2>2. Good(Added(Arr(h), items)) /\ ItemsOf(Added(Arr(h), items)) = Contents[h] \o items
    BY <1>3, <2>1, AddedGood
  <2>. QED  BY <1>1, <1>3, <2>1, <2>2, UpdateKeeps
<1>. QED  BY <1>2, <1>3 DEF AppendItems

LEMMA AppendSliceStep ==
    ASSUME IInv, NEW h \in Handle, NEW items \in Slices, AppendSlice(h, items)
    PROVE  IInv' /\ ArraysStep
<1>1. items \in Seq(Item) /\ AppendItems(h, items)
  BY ItemAssumption DEF AppendSlice
<1>2. CASE /\ Contents[h] # Nil /\ ret' = "OK"
           /\ Contents' = [Contents EXCEPT ![h] = Contents[h] \o items]
  <2>1. A!AppendSlice(h)
    BY <1>2 DEF A!AppendSlice, A!Become, Contents
  <2>. QED  BY <1>1, <2>1, AppendItemsKeeps DEF ArraysStep, A!Next
<1>. QED  BY <1>1, <1>2, AppendItemsKeeps

LEMMA AppendArrayStep ==
    ASSUME IInv, NEW h \in Handle, NEW g \in Handle, AppendArray(h, g)
    PROVE  IInv' /\ ArraysStep
<1>1. IsLive(g) /\ AppendItems(h, ItemsOf(Arr(g)))
  BY DEF AppendArray
<1>2. Contents[g] = ItemsOf(Arr(g)) /\ Contents[g] \in Seq(Item) /\ Contents[g] # Nil
  BY <1>1, ContentsIs
<1>3. AppendItems(h, Contents[g])
  BY <1>1, <1>2
<1>4. CASE /\ Contents[h] # Nil /\ ret' = "OK"
           /\ Contents' = [Contents EXCEPT ![h] = Contents[h] \o Contents[g]]
  <2>1. A!AppendArray(h, g)
    BY <1>2, <1>4 DEF A!AppendArray, A!Become, Contents
  <2>. QED  BY <1>2, <1>3, <2>1, AppendItemsKeeps DEF ArraysStep, A!Next
<1>. QED  BY <1>2, <1>3, <1>4, AppendItemsKeeps

-----------------------------------------------------------------------------
(* The specification.                                                      *)

LEMMA InitKeeps == Init => IInv /\ A!Init
<1>. SUFFICES ASSUME Init PROVE IInv /\ A!Init
  OBVIOUS
<1>1. IInv
  BY DEF Init, IInv, Owned, Live, IsLive
<1>2. A!Init
  BY DEF Init, A!Init, IsLive
<1>. QED  BY <1>1, <1>2

LEMMA NextKeeps ==
    ASSUME IInv, [Next]_vars
    PROVE  IInv' /\ ArraysStep
<1>1. CASE UNCHANGED vars
  <2>1. IInv' /\ Contents' = Contents
    BY <1>1, SameKeeps DEF vars
  <2>. QED  BY <1>1, <2>1 DEF ArraysStep, vars
<1>2. CASE \E h \in Handle, alloc \in Allocators :
             \/ \E cap \in Caps : New(h, cap, alloc)
             \/ \E items \in Slices : NewFromSlice(h, items, alloc)
             \/ \E g \in Handle : CopyDataIn(h, g, alloc)
             \/ ReallocateIn(h, alloc)
  BY <1>2, NewStep, NewFromSliceStep, CopyDataInStep, ReallocateInStep
<1>3. CASE \E h \in Handle :
             \/ \E item \in Item : Push(h, item)
             \/ \E i \in 0..(MaxLen - 1) : PushOwn(h, i)
             \/ \E n \in Reserves : ReserveCap(h, n)
             \/ \E items \in Slices : AppendSlice(h, items)
             \/ \E g \in Handle : AppendArray(h, g)
             \/ Pop(h) \/ Free(h)
  BY <1>3, PushStep, PushOwnStep, ReserveCapStep, AppendSliceStep,
     AppendArrayStep, PopStep, FreeStep
<1>. QED  BY <1>1, <1>2, <1>3 DEF Next

LEMMA Invariance == Spec => []IInv
<1>1. IInv /\ [Next]_vars => IInv'
  BY NextKeeps
<1>. QED  BY <1>1, InitKeeps, PTL DEF Spec

\* TypeOK: the items of every array are inside its data and were put there by
\* some call, whatever was copied along with them.
THEOREM TypeCorrect == Spec => []TypeOK
<1>1. IInv => TypeOK
  <2>. SUFFICES ASSUME IInv PROVE TypeOK
    OBVIOUS
  <2>1. \A h \in Live : Good(Arr(h))
    BY LiveIs DEF Live
  <2>. QED  BY <2>1 DEF IInv, TypeOK, Good
<1>. QED  BY <1>1, Invariance, PTL

\* Owned: growing, copying, reallocating and freeing leak no block, share none
\* and free none twice, failed allocations included.
THEOREM OwnedCorrect == Spec => []Owned
<1>1. IInv => Owned
  BY DEF IInv
<1>. QED  BY <1>1, Invariance, PTL

\* FreedByMaker: the allocator an array is freed with is the one that made its
\* block.
THEOREM FreedByMakerCorrect == Spec => []FreedByMaker
<1>1. IInv => FreedByMaker
  <2>. SUFFICES ASSUME IInv PROVE FreedByMaker
    OBVIOUS
  <2>. QED  BY LiveIs DEF FreedByMaker, Live, Good
<1>. QED  BY <1>1, Invariance, PTL

LEMMA ModuloOnce ==
    ASSUME NEW n \in Nat \ {0}, NEW i \in 0..(n - 1)
    PROVE  (n + i) % n = i
OBVIOUS

\* SignedIndexAgrees: an index counted back from the length finds the item.
THEOREM SignedIndexCorrect == Spec => []SignedIndexAgrees
<1>1. IInv => SignedIndexAgrees
  <2>. SUFFICES ASSUME IInv, NEW h \in Live, NEW i \in 0..(Arr(h).len - 1)
                PROVE  /\ SignedIndex(Arr(h), i) = i
                       /\ SignedIndex(Arr(h), i - Arr(h).len) = i
    BY DEF SignedIndexAgrees
  <2>. DEFINE n == Arr(h).len
  <2>1. n \in Nat
    BY LiveIs DEF Live, Good, ArrVES
  <2>2. /\ SignedIndex(Arr(h), i) = (n + i) % n
        /\ SignedIndex(Arr(h), i - n) = (n + (i - n)) % n
    BY DEF SignedIndex
  <2>. HIDE DEF n
  <2>3. i \in 0..(n - 1)
    BY DEF n
  <2>4. n \in Nat \ {0} /\ i \in Nat /\ i < n
    BY <2>1, <2>3
  <2>5. (n + i) % n = i
    BY <2>3, <2>4, ModuloOnce
  <2>6. n + (i - n) = i /\ i % n = i
    BY <2>4
  <2>. QED  BY <2>2, <2>5, <2>6 DEF n
<1>. QED  BY <1>1, Invariance, PTL

\* IsArrays: every array is a sequence of its own, and a call that does not
\* return OK changes none.
THEOREM ImplementsArrays == Spec => IsArrays
<1>1. Init => A!Init
  BY InitKeeps
<1>2. IInv /\ [Next]_vars => [A!Next]_<<Contents, ret>>
  BY NextKeeps DEF ArraysStep
<1>3. <<Contents, ret>> = A!vars
  BY DEF A!vars, Contents
<1>. QED  BY <1>1, <1>2, Invariance, PTL DEF Spec, IsArrays, A!Spec, A!vars, Contents

-----------------------------------------------------------------------------
(* DArrReserve: the room an array was promised is there.                   *)

Kept ==
    /\ promised \in [Handle -> Nat]
    /\ \A h \in Handle : IsLive(h) => promised[h] <= Len(Arr(h).data)

\* A step that keeps the other arrays, and has room for n items in that of h.
LEMMA PromiseKept ==
    ASSUME IInv, Kept, NEW h \in Handle, NEW n \in Nat, Others(h),
           self'[h] # Nil => n <= Len(memory'[self'[h]].data),
           promised' = [promised EXCEPT ![h] = n]
    PROVE  Kept'
<1>1. promised' \in [Handle -> Nat]
  BY DEF Kept
<1>2. ASSUME NEW g \in Handle, self'[g] # Nil
      PROVE  promised'[g] <= Len(memory'[self'[g]].data)
  <2>1. CASE g = h
    BY <1>2, <2>1 DEF Kept
  <2>2. CASE g # h
    BY <1>2, <2>2 DEF Kept, Others, IsLive, Arr
  <2>. QED  BY <2>1, <2>2
<1>. QED  BY <1>1, <1>2 DEF Kept, IsLive, Arr

LEMMA NothingKept ==
    ASSUME Kept, UNCHANGED <<memory, self, promised>>
    PROVE  Kept'
BY DEF Kept, IsLive, Arr

\* A call that leaves every array where it is promises nothing unless it
\* returns OK.
LEMMA RefusedKept ==
    ASSUME Kept, UNCHANGED <<memory, self>>, ret' # "OK", NEW h, NEW n, Promise(h, n)
    PROVE  Kept'
BY NothingKept DEF Promise

LEMMA MakeKept ==
    ASSUME IInv, Kept, NEW h \in Handle, ~IsLive(h), NEW a, Good(a),
           Make(h, a) \/ NoMemory, NEW n \in Nat, n <= Len(a.data), Promise(h, n)
    PROVE  Kept'
<1>1. CASE NoMemory
  BY <1>1, RefusedKept DEF NoMemory
<1>2. CASE Make(h, a)
  <2>1. ret' = "OK" /\ Others(h) /\ memory'[self'[h]] = a
    BY <1>2, MakeKeeps
  <2>. QED  BY <2>1, PromiseKept DEF Promise
<1>. QED  BY <1>1, <1>2

LEMMA NewKept ==
    ASSUME IInv, Kept, NEW h \in Handle, NEW cap \in Caps, NEW alloc \in Allocators,
           New(h, cap, alloc), Promise(h, cap)
    PROVE  Kept'
<1>1. cap \in Nat /\ Good(NewArr(cap, alloc)) /\ Len(NewArr(cap, alloc).data) = cap
  BY CapAssumption, NewArrIs
<1>. QED  BY <1>1, MakeKept DEF New

LEMMA NewFromSliceKept ==
    ASSUME IInv, Kept, NEW h \in Handle, NEW items \in Slices, NEW alloc \in Allocators,
           NewFromSlice(h, items, alloc), Promise(h, Len(items))
    PROVE  Kept'
<1>1. items \in Seq(Item) /\ Len(items) \in Nat
  BY ItemAssumption, LenProperties
<1>2. /\ Good(FromSlice(items, alloc))
      /\ Len(FromSlice(items, alloc).data) = Len(items)
  BY <1>1, FromSliceGood
<1>. QED  BY <1>1, <1>2, MakeKept DEF NewFromSlice

LEMMA CopyDataInKept ==
    ASSUME IInv, Kept, NEW h \in Handle, NEW g \in Handle, NEW alloc \in Allocators,
           CopyDataIn(h, g, alloc), Promise(h, Arr(g).len)
    PROVE  Kept'
<1>1. Good(Arr(g)) /\ ~IsLive(h)
  BY LiveIs DEF CopyDataIn
<1>2. /\ Good(DataCopy(Arr(g), alloc))
      /\ Len(DataCopy(Arr(g), alloc).data) = Len(Arr(g).data)
  BY <1>1, DataCopyGood
<1>3. Arr(g).len \in Nat /\ Arr(g).len <= Len(DataCopy(Arr(g), alloc).data)
  BY <1>1, <1>2 DEF Good, ArrVES
<1>. QED  BY <1>1, <1>2, <1>3, MakeKept DEF CopyDataIn

\* darr_reallocate_in keeps the capacity.
LEMMA ReallocateInKept ==
    ASSUME IInv, Kept, NEW h \in Handle, NEW alloc \in Allocators,
           ReallocateIn(h, alloc), UNCHANGED promised
    PROVE  Kept'
<1>1. Good(Arr(h)) /\ IsLive(h)
  BY LiveIs DEF ReallocateIn
<1>2. CASE NoMemory
  BY <1>2, NothingKept DEF NoMemory
<1>3. CASE Move(h, DataCopy(Arr(h), alloc))
  <2>1. /\ Good(DataCopy(Arr(h), alloc))
        /\ Len(DataCopy(Arr(h), alloc).data) = Len(Arr(h).data)
    BY <1>1, DataCopyGood
  <2>2. Others(h) /\ memory'[self'[h]] = DataCopy(Arr(h), alloc)
    BY <1>1, <1>3, <2>1, MoveKeeps
  <2>3. /\ promised[h] \in Nat /\ promised[h] <= Len(Arr(h).data)
        /\ promised' = [promised EXCEPT ![h] = promised[h]]
    BY <1>1 DEF Kept
  <2>. QED  BY <2>1, <2>2, <2>3, PromiseKept
<1>. QED  BY <1>2, <1>3 DEF ReallocateIn

LEMMA PopKept ==
    ASSUME IInv, Kept, NEW h \in Handle, Pop(h), UNCHANGED promised
    PROVE  Kept'
<1>1. Good(Arr(h)) /\ IsLive(h)
  BY LiveIs DEF Pop
<1>2. CASE Stops("panic")
  BY <1>2, NothingKept DEF Stops
<1>3. CASE Update(h, [Arr(h) EXCEPT !.len = @ - 1])
  <2>1. /\ memory' = [memory EXCEPT ![self[h]] = [Arr(h) EXCEPT !.len = @ - 1]]
        /\ self' = self
    BY <1>3 DEF Update
  <2>2. \A g \in Handle : IsLive(g) => memory'[self[g]].data = Arr(g).data
    BY <1>1, <2>1, LiveIs DEF IInv, Arr, Good, ArrVES
  <2>. QED  BY <2>1, <2>2 DEF Kept, IsLive, Arr
<1>. QED  BY <1>2, <1>3 DEF Pop

LEMMA FreeKept ==
    ASSUME IInv, Kept, NEW h \in Handle, Free(h), Promise(h, 0)
    PROVE  Kept'
<1>1. Others(h) /\ self'[h] = Nil
  BY FreeOthers
<1>2. promised' = [promised EXCEPT ![h] = 0]
  BY DEF Free, Promise
<1>. QED  BY <1>1, <1>2, PromiseKept

\* What a call does that adds n items to the array of h, or reserves room for
\* them.
AddsRoom(h, n) ==
    \/ UNCHANGED <<memory, self>> /\ ret' # "OK" /\ RestCap(Arr(h)) < n
    \/ /\ ret' = "OK" /\ Others(h) /\ self'[h] # Nil
       /\ Len(memory'[self'[h]].data) >= Len(Arr(h).data)
       /\ Len(memory'[self'[h]].data) >= Arr(h).len + n
       /\ RestCap(Arr(h)) >= n => self' = self

\* The call adds to the block it is in, if there is room.
LEMMA UpdateAdds ==
    ASSUME IInv, NEW h \in Handle, IsLive(h), NEW items \in Seq(Item),
           RestCap(Arr(h)) >= Len(items), Update(h, Added(Arr(h), items))
    PROVE  AddsRoom(h, Len(items))
<1>1. Good(Arr(h)) /\ Len(items) \in Nat
  BY LiveIs, LenProperties
<1>2. /\ Good(Added(Arr(h), items))
      /\ Len(Added(Arr(h), items).data) = Len(Arr(h).data)
  BY <1>1, AddedGood
<1>3. /\ ret' = "OK" /\ Others(h) /\ self'[h] # Nil /\ self' = self
      /\ memory'[self'[h]] = Added(Arr(h), items)
  BY <1>1, <1>2, UpdateKeeps DEF Update
<1>4. Len(Arr(h).data) \in Nat /\ Len(Arr(h).data) >= Arr(h).len + Len(items)
  BY <1>1, RestCapNat, LenProperties DEF Good, ArrVES
<1>. QED  BY <1>2, <1>3, <1>4 DEF AddsRoom

LEMMA PushAdds ==
    ASSUME IInv, NEW h \in Handle, IsLive(h), NEW item \in Item,
           PushInto(h, item) \/ PushMoving(h, item)
    PROVE  AddsRoom(h, 1)
<1>1. Good(Arr(h)) /\ RestCap(Arr(h)) \in Nat
  BY LiveIs, RestCapNat
<1>2. CASE PushInto(h, item)
  <2>1. RestCap(Arr(h)) >= Len(<<item>>) /\ Update(h, Added(Arr(h), <<item>>))
    BY <1>1, <1>2, OneItem DEF PushInto
  <2>2. AddsRoom(h, Len(<<item>>))
    BY <2>1, OneItem, UpdateAdds
  <2>. QED  BY <2>2, OneItem
<1>3. CASE RestCap(Arr(h)) = 0 /\ NoMemory
  BY <1>3 DEF AddsRoom, NoMemory
<1>4. CASE RestCap(Arr(h)) = 0 /\ Move(h, Added(Grown(Arr(h)), <<item>>))
  <2>. DEFINE g == Grown(Arr(h))
              d == Added(g, <<item>>)
  <2>1. /\ Good(g) /\ ItemsOf(g) = ItemsOf(Arr(h)) /\ RestCap(g) > 0
        /\ Len(g.data) >= Len(Arr(h).data)
    BY <1>1, <1>4, GrownGood
  <2>2. g.len = Arr(h).len
    BY DEF Grown
  <2>. HIDE DEF g
  <2>3. RestCap(g) \in Nat /\ RestCap(g) = Len(g.data) - g.len
    BY <2>1, RestCapNat
  <2>4. Good(d) /\ Len(d.data) = Len(g.data)
    <3>1. RestCap(g) >= Len(<<item>>)
      BY <2>1, <2>3, OneItem
    <3>. QED  BY <2>1, <3>1, OneItem, AddedGood
  <2>5. Move(h, d)
    BY <1>4 DEF g
  <2>. HIDE DEF d
  <2>6. ret' = "OK" /\ Others(h) /\ self'[h] # Nil /\ memory'[self'[h]] = d
    BY <2>4, <2>5, MoveKeeps
  <2>7. /\ Arr(h).len \in Nat /\ Len(Arr(h).data) \in Nat /\ Len(g.data) \in Nat
    BY <1>1, <2>1, LenProperties DEF Good, ArrVES
  <2>8. Len(g.data) >= Arr(h).len + 1
    BY <2>1, <2>2, <2>3, <2>7
  <2>. QED  BY <1>4, <2>1, <2>4, <2>6, <2>8 DEF AddsRoom
<1>. QED  BY <1>2, <1>3, <1>4 DEF PushMoving

LEMMA PushOwnAdds ==
    ASSUME IInv, NEW h \in Handle, NEW i \in 0..(MaxLen - 1), PushOwn(h, i)
    PROVE  AddsRoom(h, 1)
<1>. DEFINE item == Arr(h).data[i + 1]
<1>1. IsLive(h) /\ i < Arr(h).len /\ Good(Arr(h))
  BY LiveIs DEF PushOwn
<1>2. item \in Item
  BY <1>1, CapAssumption DEF Good, ArrVES
<1>3. \/ PushInto(h, item) \/ PushMoving(h, item)
      \/ RestCap(Arr(h)) = 0 /\ (Stops("undefined") \/ NoMemory)
  BY DEF PushOwn
<1>. HIDE DEF item
<1>4. CASE PushInto(h, item) \/ PushMoving(h, item)
  BY <1>1, <1>2, <1>4, PushAdds
<1>5. CASE RestCap(Arr(h)) = 0 /\ (Stops("undefined") \/ NoMemory)
  BY <1>5 DEF AddsRoom, Stops, NoMemory
<1>. QED  BY <1>3, <1>4, <1>5

LEMMA ReserveCapAdds ==
    ASSUME IInv, NEW h \in Handle, NEW n \in Reserves, ReserveCap(h, n)
    PROVE  AddsRoom(h, n)
<1>1. IsLive(h) /\ Good(Arr(h)) /\ n \in Nat
  BY LiveIs, CapAssumption DEF ReserveCap
<1>2. CASE RestCap(Arr(h)) < n /\ Resize(h)
  BY <1>2 DEF AddsRoom, Resize, Stops
<1>3. CASE RestCap(Arr(h)) >= n /\ ret' = "OK" /\ UNCHANGED <<memory, self>>
  <2>1. /\ Len(Arr(h).data) \in Nat /\ Arr(h).len \in Nat
        /\ RestCap(Arr(h)) = Len(Arr(h).data) - Arr(h).len
    BY <1>1, RestCapNat, LenProperties DEF Good, ArrVES
  <2>. QED  BY <1>1, <1>3, <2>1 DEF AddsRoom, Others, IsLive, Arr
<1>. QED  BY <1>2, <1>3 DEF ReserveCap

LEMMA AppendItemsAdds ==
    ASSUME IInv, NEW h \in Handle, NEW items \in Seq(Item), AppendItems(h, items)
    PROVE  AddsRoom(h, Len(items))
<1>1. CASE RestCap(Arr(h)) < Len(items) /\ Resize(h)
  BY <1>1 DEF AddsRoom, Resize, Stops
<1>2. CASE RestCap(Arr(h)) >= Len(items) /\ Update(h, Added(Arr(h), items))
  BY <1>2, UpdateAdds DEF AppendItems
<1>. QED  BY <1>1, <1>2 DEF AppendItems

LEMMA AddingAdds ==
    ASSUME IInv, NEW h \in Handle, NEW n \in Additions, Adding(h, n)
    PROVE  IsLive(h) /\ n \in Nat /\ AddsRoom(h, n)
<1>1. n \in Nat
  BY CapAssumption DEF Additions
<1>2. CASE n = 1 /\ \E item \in Item : Push(h, item)
  BY <1>1, <1>2, PushAdds DEF Push
<1>3. CASE n = 1 /\ \E i \in 0..(MaxLen - 1) : PushOwn(h, i)
  BY <1>1, <1>3, PushOwnAdds DEF PushOwn
<1>4. CASE n \in Reserves /\ ReserveCap(h, n)
  BY <1>1, <1>4, ReserveCapAdds DEF ReserveCap
<1>5. CASE \E items \in Slices : n = Len(items) /\ AppendSlice(h, items)
  BY <1>1, <1>5, ItemAssumption, AppendItemsAdds DEF AppendSlice, AppendItems
<1>6. CASE \E g \in Handle : IsLive(g) /\ n = Arr(g).len /\ AppendArray(h, g)
  <2>1. PICK g \in Handle : IsLive(g) /\ n = Arr(g).len /\ AppendArray(h, g)
    BY <1>6
  <2>2. ItemsOf(Arr(g)) \in Seq(Item) /\ Len(ItemsOf(Arr(g))) = n
    BY <2>1, LiveIs, ItemsOfIs
  <2>. QED  BY <1>1, <2>1, <2>2, AppendItemsAdds DEF AppendArray, AppendItems
<1>. QED  BY <1>2, <1>3, <1>4, <1>5, <1>6 DEF Adding

LEMMA AddingIsNext ==
    ASSUME NEW h \in Handle, NEW n \in Additions, Adding(h, n)
    PROVE  Next
BY DEF Adding, Next

LEMMA AddingKept ==
    ASSUME IInv, Kept, NEW h \in Handle, NEW n \in Additions, Adding(h, n),
           Promise(h, Larger(promised[h], Arr(h).len + n))
    PROVE  Kept'
<1>1. IsLive(h) /\ n \in Nat /\ AddsRoom(h, n)
  BY AddingAdds
<1>2. CASE UNCHANGED <<memory, self>> /\ ret' # "OK"
  BY <1>2, RefusedKept
<1>3. CASE /\ ret' = "OK" /\ Others(h) /\ self'[h] # Nil
           /\ Len(memory'[self'[h]].data) >= Len(Arr(h).data)
           /\ Len(memory'[self'[h]].data) >= Arr(h).len + n
  <2>. DEFINE l == Larger(promised[h], Arr(h).len + n)
              size == Len(memory'[self'[h]].data)
  <2>1. /\ promised[h] \in Nat /\ promised[h] <= Len(Arr(h).data)
        /\ Arr(h).len \in Nat /\ Len(Arr(h).data) \in Nat
    BY <1>1, LiveIs, LenProperties DEF Kept, Good, ArrVES
  <2>2. IInv'
    BY NextKeeps, AddingIsNext
  <2>3. size \in Nat
    <3>1. self'[h] \in Block
      BY <1>3, <2>2 DEF IInv
    <3>2. memory'[self'[h]] # Unused
      BY <1>3, <2>2 DEF IInv, Owned, Live, IsLive, Arr
    <3>3. memory'[self'[h]] \in ArrVES
      BY <3>1, <3>2, <2>2 DEF IInv
    <3>. QED  BY <3>3, LenProperties DEF ArrVES
  <2>. HIDE DEF size
  <2>4. l \in Nat /\ l <= size
    BY <1>1, <1>3, <2>1, <2>3 DEF Larger, size
  <2>5. promised' = [promised EXCEPT ![h] = l]
    BY <1>3 DEF Promise
  <2>. QED  BY <1>3, <2>4, <2>5, PromiseKept DEF size
<1>. QED  BY <1>1, <1>2, <1>3 DEF AddsRoom

\* DArrReserve adds nothing to what the program does.
LEMMA ReserveNextIsNext ==
    ASSUME [ReserveNext]_reserveVars
    PROVE  [Next]_vars
<1>1. CASE ReserveNext
  BY <1>1, AddingIsNext DEF ReserveNext, Next
<1>. QED  BY <1>1 DEF reserveVars, vars

LEMMA ReserveKeeps ==
    ASSUME IInv, Kept, [ReserveNext]_reserveVars
    PROVE  Kept'
<1>1. CASE UNCHANGED reserveVars
  BY <1>1, NothingKept DEF reserveVars
<1>2. CASE ReserveNext
  BY <1>2, NewKept, NewFromSliceKept, CopyDataInKept, ReallocateInKept,
     AddingKept, PopKept, FreeKept DEF ReserveNext
<1>. QED  BY <1>1, <1>2

\* ReserveIsKept: up to the length an array was made for, has been, or had room
\* reserved for, every call that adds to it succeeds in the block it is in,
\* whatever it was popped, reallocated or copied from in between.
THEOREM ReserveIsKeptCorrect == ReserveSpec => ReserveIsKept
<1>1. ReserveInit => IInv /\ Kept
  BY InitKeeps DEF ReserveInit, Init, Kept, IsLive
<1>2. IInv /\ Kept /\ [ReserveNext]_reserveVars => IInv' /\ Kept'
  BY ReserveNextIsNext, NextKeeps, ReserveKeeps
<1>3. IInv /\ Kept /\ [ReserveNext]_reserveVars
        => [\A h \in Live, n \in Additions :
              Arr(h).len + n <= promised[h] /\ Adding(h, n)
                 => ret' = "OK" /\ self' = self]_reserveVars
  <2>. SUFFICES ASSUME IInv, Kept, NEW h \in Live, NEW n \in Additions,
                       Adding(h, n), Arr(h).len + n <= promised[h]
                PROVE  ret' = "OK" /\ self' = self
    OBVIOUS
  <2>1. h \in Handle /\ IsLive(h) /\ n \in Nat /\ AddsRoom(h, n)
    BY AddingAdds DEF Live
  <2>2. Good(Arr(h)) /\ promised[h] \in Nat /\ promised[h] <= Len(Arr(h).data)
    BY <2>1, LiveIs DEF Kept
  <2>3. /\ RestCap(Arr(h)) = Len(Arr(h).data) - Arr(h).len
        /\ Arr(h).len \in Nat /\ Len(Arr(h).data) \in Nat
    BY <2>2, RestCapNat, LenProperties DEF Good, ArrVES
  <2>4. RestCap(Arr(h)) >= n
    BY <2>1, <2>2, <2>3
  <2>. QED  BY <2>1, <2>3, <2>4 DEF AddsRoom
<1>. QED  BY <1>1, <1>2, <1>3, PTL DEF ReserveSpec, ReserveIsKept
=============================================================================
