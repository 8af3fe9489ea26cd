--------------------------- MODULE HashMapProofs ----------------------------
(***************************************************************************)
(* Proofs about HashMap and HashMapPointers, for every set of keys and     *)
(* values, every hash, every capacity and every sequence of sets and       *)
(* growths.                                                                *)
(***************************************************************************)
EXTENDS HashMapPointers, FiniteSetTheorems, WellFoundedInduction, TLAPS

-----------------------------------------------------------------------------
(* Arithmetic.                                                             *)

LEMMA LeastElement ==
    ASSUME NEW S, S \subseteq Nat, S # {}
    PROVE  \E x \in S : \A y \in S : x <= y
<1>1. PICK R : /\ IsWellFoundedOn(R, Nat)
               /\ \A x, y \in Nat : x < y => <<x, y>> \in R
  <2> DEFINE T == OpToRel(<, Nat)
  <2>1. IsWellFoundedOn(T, Nat)
    BY NatLessThanWellFounded
  <2>2. \A x, y \in Nat : x < y => <<x, y>> \in T
    BY DEF OpToRel
  <2> HIDE DEF T
  <2> QED
    BY <2>1, <2>2
<1>2. IsWellFoundedOn(R, Nat)
  BY <1>1
<1>3. PICK x \in S : \A y \in S : ~ (<<y, x>> \in R)
  BY <1>2, WFMin
<1>4. ASSUME NEW y \in S PROVE x <= y
  <2>1. x \in Nat /\ y \in Nat /\ ~(y < x)
    BY <1>1, <1>3
  <2> QED
    BY <2>1
<1> QED
  BY <1>4

LEMMA Remainder ==
    ASSUME NEW c \in Nat \ {0}, NEW q \in Int, NEW b \in 0..(c - 1)
    PROVE  ((c * q) + b) % c = b
OBVIOUS

LEMMA Division ==
    ASSUME NEW c \in Nat \ {0}, NEW h \in Nat
    PROVE  \E q \in Int : \E r \in 0..(c - 1) : h = (c * q) + r
<1>1. h % c \in 0..(c - 1) /\ h \div c \in Int
  OBVIOUS
<1>2. h = (c * (h \div c)) + (h % c)
  OBVIOUS
<1> QED
  BY <1>1, <1>2

\* Linear probing visits every bucket.
LEMMA ProbingReaches ==
    ASSUME NEW c \in Nat \ {0}, NEW h \in Nat, NEW b \in 0..(c - 1)
    PROVE  \E j \in 0..(c - 1) : (h + j) % c = b
<1>1. PICK q \in Int : \E r \in 0..(c - 1) : h = (c * q) + r
  BY Division
<1>2. PICK r \in 0..(c - 1) : h = (c * q) + r
  BY <1>1
<1>3. CASE b >= r
  <2>1. PICK j \in 0..(c - 1) : j = b - r
    BY <1>3
  <2>2. h + j = (c * q) + b
    BY <1>2, <2>1
  <2> QED
    BY <2>1, <2>2, Remainder
<1>4. CASE b < r
  <2>1. PICK j \in 0..(c - 1) : j = b - r + c
    BY <1>4
  <2>2. PICK p \in Int : p = q + 1
    OBVIOUS
  <2>3. h + j = (c * p) + b
    BY <1>2, <2>1, <2>2
  <2> QED
    BY <2>1, <2>3, Remainder
<1> QED
  BY <1>3, <1>4

-----------------------------------------------------------------------------
(* Maps and what the operations make of them.                              *)

IsMap(m) == m.cap \in 1..MaxCap /\ m \in Maps(m.cap)

LEMMA MapFields ==
    ASSUME NEW m, IsMap(m)
    PROVE  /\ m.cap \in Nat \ {0} /\ m.cap <= MaxCap
           /\ Slots(m) = 0..(m.cap - 1)
           /\ m.buckets \in [Slots(m) -> Slots(m) \union {Free}]
           /\ m.keys \in [Slots(m) -> AnyKey]
           /\ m.values \in [Slots(m) -> AnyValue]
           /\ m.count \in 0..(m.cap - 1)
           /\ m = [cap |-> m.cap, buckets |-> m.buckets, keys |-> m.keys,
                   values |-> m.values, count |-> m.count]
           /\ m # NoMap
BY CapAssumption, NoneAssumption DEF IsMap, Maps, Slots

LEMMA NewMapIsMap ==
    ASSUME NEW cap \in 1..MaxCap
    PROVE  /\ IsMap(NewMap(cap)) /\ NewMap(cap).cap = cap
           /\ NewMap(cap).count = 0
           /\ \A b \in Slots(NewMap(cap)) : NewMap(cap).buckets[b] = Free
           /\ \A s \in Slots(NewMap(cap)) : NewMap(cap).keys[s] = Zero
<1>1. cap \in Nat \ {0}
  BY CapAssumption
<1> QED
  BY <1>1 DEF NewMap, IsMap, Maps, Slots, AnyKey, AnyValue

LEMMA ExtendedIsMap ==
    ASSUME NEW m, IsMap(m), NEW cap \in 1..MaxCap, cap > m.cap
    PROVE  /\ IsMap(Extended(m, cap))
           /\ Extended(m, cap).cap = cap /\ Extended(m, cap).count = m.count
           /\ \A b \in Slots(Extended(m, cap)) :
                 Extended(m, cap).buckets[b] = Free
           /\ \A s \in Slots(Extended(m, cap)) : Extended(m, cap).keys[s] =
                 IF s < m.cap THEN m.keys[s] ELSE Zero
<1>1. cap \in Nat \ {0}
  BY CapAssumption
<1>2. \A s \in 0..(cap - 1) : s < m.cap => s \in Slots(m)
  BY MapFields
<1> DEFINE keys == [s \in 0..(cap - 1) |->
                       IF s < m.cap THEN m.keys[s] ELSE Zero]
           values == [s \in 0..(cap - 1) |->
                         IF s < m.cap THEN m.values[s] ELSE ZeroValue]
           buckets == [b \in 0..(cap - 1) |-> Free]
<1>3. /\ keys \in [0..(cap - 1) -> AnyKey]
      /\ values \in [0..(cap - 1) -> AnyValue]
      /\ buckets \in [0..(cap - 1) -> 0..(cap - 1) \union {Free}]
      /\ m.count \in 0..(cap - 1)
  BY <1>1, <1>2, MapFields DEF AnyKey, AnyValue
<1>4. Extended(m, cap) = [cap |-> cap, buckets |-> buckets, keys |-> keys,
                          values |-> values, count |-> m.count]
  BY DEF Extended
<1>5. /\ \A b \in 0..(cap - 1) : buckets[b] = Free
      /\ \A s \in 0..(cap - 1) :
            keys[s] = IF s < m.cap THEN m.keys[s] ELSE Zero
  OBVIOUS
<1> HIDE DEF keys, values, buckets
<1> QED
  BY <1>1, <1>3, <1>4, <1>5 DEF IsMap, Maps, Slots

LEMMA AddedIsMap ==
    ASSUME NEW m, IsMap(m), NEW b \in Slots(m), NEW e \in Entries,
           m.count < m.cap - 1
    PROVE  /\ IsMap(Added(m, b, e))
           /\ Added(m, b, e).cap = m.cap
           /\ Added(m, b, e).count = m.count + 1
           /\ Added(m, b, e).buckets = [m.buckets EXCEPT ![b] = m.count]
           /\ Added(m, b, e).keys = [m.keys EXCEPT ![m.count] = e.key]
<1>1. m.count \in Slots(m) /\ m.count + 1 \in 0..(m.cap - 1)
  BY MapFields
<1>2. e.key \in AnyKey /\ e.value \in AnyValue
  BY DEF Entries, AnyKey, AnyValue
<1> DEFINE buckets == [m.buckets EXCEPT ![b] = m.count]
           keys == [m.keys EXCEPT ![m.count] = e.key]
           values == [m.values EXCEPT ![m.count] = e.value]
<1>3. /\ buckets \in [Slots(m) -> Slots(m) \union {Free}]
      /\ keys \in [Slots(m) -> AnyKey]
      /\ values \in [Slots(m) -> AnyValue]
  BY <1>1, <1>2, MapFields
<1>4. Added(m, b, e) = [cap |-> m.cap, buckets |-> buckets, keys |-> keys,
                        values |-> values, count |-> m.count + 1]
  BY DEF Added
<1> HIDE DEF keys, values, buckets
<1>5. IsMap(Added(m, b, e))
  BY <1>1, <1>3, <1>4, MapFields DEF IsMap, Maps, Slots
<1> QED
  BY <1>4, <1>5 DEF keys, buckets

LEMMA ValueSetIsMap ==
    ASSUME NEW m, IsMap(m), NEW s \in Slots(m), NEW v \in Value
    PROVE  LET n == [m EXCEPT !.values[s] = v] IN
           /\ IsMap(n) /\ n.cap = m.cap /\ n.count = m.count
           /\ n.buckets = m.buckets /\ n.keys = m.keys
<1> DEFINE values == [m.values EXCEPT ![s] = v]
<1>1. values \in [Slots(m) -> AnyValue]
  BY MapFields DEF AnyValue
<1>2. [m EXCEPT !.values[s] = v] =
        [cap |-> m.cap, buckets |-> m.buckets, keys |-> m.keys,
         values |-> values, count |-> m.count]
  <2>1. PICK bs, ks, vs, c, n : m = [cap |-> c, buckets |-> bs, keys |-> ks,
                                     values |-> vs, count |-> n]
    BY MapFields
  <2> QED
    BY <2>1
<1> HIDE DEF values
<1> QED
  BY <1>1, <1>2, MapFields DEF IsMap, Maps, Slots

LEMMA BucketSetIsMap ==
    ASSUME NEW m, IsMap(m), NEW b \in Slots(m), NEW s \in Slots(m)
    PROVE  LET n == [m EXCEPT !.buckets[b] = s] IN
           /\ IsMap(n) /\ n.cap = m.cap /\ n.count = m.count
           /\ n.buckets = [m.buckets EXCEPT ![b] = s] /\ n.keys = m.keys
<1> DEFINE buckets == [m.buckets EXCEPT ![b] = s]
<1>1. buckets \in [Slots(m) -> Slots(m) \union {Free}]
  BY MapFields
<1>2. [m EXCEPT !.buckets[b] = s] =
        [cap |-> m.cap, buckets |-> buckets, keys |-> m.keys,
         values |-> m.values, count |-> m.count]
  BY MapFields
<1> HIDE DEF buckets
<1> QED
  BY <1>1, <1>2, MapFields DEF IsMap, Maps, Slots, buckets

-----------------------------------------------------------------------------
(* hashmap_get_bucket: the first bucket of the probe sequence at which it  *)
(* stops, if there is one.                                                 *)

LEMMA ProbeIsSlot ==
    ASSUME NEW m, IsMap(m), NEW h \in Nat, NEW j \in Slots(m)
    PROVE  Probe(m, h, j) \in Slots(m)
<1>1. m.cap \in Nat \ {0} /\ h + j \in Nat
  BY MapFields
<1> QED
  BY <1>1 DEF Probe, Slots

LEMMA FirstStop ==
    ASSUME NEW m, IsMap(m), NEW k, NEW h \in Nat,
           \E j \in Slots(m) : Stops(m, k, h, j)
    PROVE  \E j \in Slots(m) :
              /\ Stops(m, k, h, j)
              /\ \A l \in 0..(j - 1) : ~Stops(m, k, h, l)
              /\ GetBucket(m, k, h) = Probe(m, h, j)
<1> DEFINE S == {j \in Slots(m) : Stops(m, k, h, j)}
           First(j) == /\ Stops(m, k, h, j)
                       /\ \A l \in 0..(j - 1) : ~Stops(m, k, h, l)
<1>1. PICK x \in S : \A y \in S : x <= y
  <2>1. S \subseteq Nat /\ S # {}
    BY DEF Slots
  <2> QED
    BY <2>1, LeastElement
<1>2. First(x)
  <2>1. x \in Slots(m) /\ m.cap \in Nat
    BY MapFields
  <2>2. \A l \in 0..(x - 1) : l \in Slots(m) /\ ~(x <= l)
    BY <2>1 DEF Slots
  <2> QED
    BY <1>1, <2>2
<1>3. \E j \in Slots(m) : First(j)
  BY <1>1, <1>2
<1> DEFINE c == CHOOSE j \in Slots(m) : First(j)
<1>4. c \in Slots(m) /\ First(c)
  BY <1>3
<1>5. GetBucket(m, k, h) = Probe(m, h, c)
  BY DEF GetBucket
<1> QED
  BY <1>4, <1>5

\* There is one such bucket only.
LEMMA FirstStopUnique ==
    ASSUME NEW m, IsMap(m), NEW k, NEW h \in Nat, NEW j \in Slots(m),
           Stops(m, k, h, j),
           \A l \in 0..(j - 1) : ~Stops(m, k, h, l)
    PROVE  GetBucket(m, k, h) = Probe(m, h, j)
<1>1. PICK x \in Slots(m) :
         /\ Stops(m, k, h, x)
         /\ \A l \in 0..(x - 1) : ~Stops(m, k, h, l)
         /\ GetBucket(m, k, h) = Probe(m, h, x)
  BY FirstStop
<1>2. x \in Nat /\ j \in Nat
  BY DEF Slots
<1>3. ~(x < j) /\ ~(j < x)
  BY <1>1, <1>2
<1> QED
  BY <1>1, <1>2, <1>3

LEMMA GetBucketType ==
    ASSUME NEW m, IsMap(m), NEW k, NEW h \in Nat
    PROVE  /\ GetBucket(m, k, h) \in Slots(m) \union {-1}
           /\ -1 \notin Slots(m)
<1>1. ASSUME \E j \in Slots(m) : Stops(m, k, h, j)
      PROVE  GetBucket(m, k, h) \in Slots(m)
  BY <1>1, FirstStop, ProbeIsSlot
<1>2. ASSUME ~ \E j \in Slots(m) : Stops(m, k, h, j)
      PROVE  GetBucket(m, k, h) = -1
  BY <1>2 DEF GetBucket
<1>3. -1 \notin Slots(m)
  BY MapFields DEF Slots
<1> QED
  BY <1>1, <1>2, <1>3

\* The bucket found is free or points at the key.
LEMMA GetBucketStops ==
    ASSUME NEW m, IsMap(m), NEW k, NEW h \in Nat, GetBucket(m, k, h) # -1
    PROVE  LET slot == m.buckets[GetBucket(m, k, h)] IN
           slot = Free \/ m.keys[slot] = k
<1>1. \E j \in Slots(m) : Stops(m, k, h, j)
  BY DEF GetBucket
<1> QED
  BY <1>1, FirstStop DEF Stops

\* A free bucket ends every search.
LEMMA FreeBucketFound ==
    ASSUME NEW m, IsMap(m), NEW k, NEW h \in Nat,
           NEW b \in Slots(m), m.buckets[b] = Free
    PROVE  GetBucket(m, k, h) \in Slots(m)
<1>1. PICK j \in Slots(m) : Probe(m, h, j) = b
  <2>1. m.cap \in Nat \ {0}
    BY MapFields
  <2> QED
    BY <2>1, ProbingReaches DEF Slots, Probe
<1>2. Stops(m, k, h, j)
  BY <1>1 DEF Stops
<1> QED
  BY <1>2, FirstStop, ProbeIsSlot

-----------------------------------------------------------------------------
(* Type correctness.                                                       *)

HInv ==
    /\ TypeOK
    /\ Idle => out_map = NoMap /\ arg = NoArg
    /\ ret = "running" => map # NoMap
    /\ Setting => arg # NoArg
    /\ Growing => /\ out_map.cap > map.cap
                  /\ out_map.count = map.count
                  /\ i <= map.cap

\* What a set under way and the hashes of keys are.
LEMMA HashesAreNat ==
    ASSUME TypeOK, NEW k \in AnyKey
    PROVE  Hashes(k) \subseteq HashValues /\ HashValues \subseteq Nat
BY HashAssumption DEF TypeOK, Hashes

LEMMA ArgIsEntry ==
    ASSUME TypeOK, arg # NoArg
    PROVE  arg \in Entries /\ arg.key \in AnyKey /\ arg.hash \in Nat
           /\ arg.value \in Value
BY HashAssumption DEF TypeOK, Entries, AnyKey

LEMMA TypeMaps ==
    ASSUME TypeOK
    PROVE  (map = NoMap \/ IsMap(map)) /\ (out_map = NoMap \/ IsMap(out_map))
BY DEF TypeOK, IsMap

\* Adding to a map with room leaves a map.
LEMMA AddToIsMap ==
    ASSUME TypeOK, arg # NoArg, NEW m, IsMap(m), m.count < m.cap - 1,
           AddTo(m)
    PROVE  IsMap(map') /\ arg' = NoArg /\ ret' \in {"OK", "panic"}
<1> DEFINE b == GetBucket(m, arg.key, arg.hash)
<1>1. b \in Slots(m) \union {-1}
  BY ArgIsEntry, GetBucketType
<1>2. CASE b = -1
  BY <1>2 DEF AddTo
<1>3. CASE b \in Slots(m)
  <2>1. b # -1
    BY <1>3, ArgIsEntry, GetBucketType
  <2>2. map' = Added(m, b, arg) /\ arg' = NoArg /\ ret' = "OK"
    BY <2>1 DEF AddTo
  <2>3. IsMap(Added(m, b, arg))
    BY <1>3, ArgIsEntry, AddedIsMap
  <2> QED
    BY <2>2, <2>3
<1> QED
  BY <1>1, <1>2, <1>3

LEMMA NewCapGrows ==
    ASSUME NEW m, IsMap(m), NEW fit \in Nat, NewCap(m, fit) <= MaxCap
    PROVE  NewCap(m, fit) \in 1..MaxCap /\ NewCap(m, fit) > m.cap
BY MapFields, CapAssumption DEF NewCap

LEMMA BeginGrowInv ==
    ASSUME HInv, IsMap(map), out_map = NoMap, NEW fit \in Nat,
           BeginGrow(fit)
    PROVE  HInv'
<1> DEFINE n == Extended(map, NewCap(map, fit))
<1>1. /\ NewCap(map, fit) \in 1..MaxCap /\ NewCap(map, fit) > map.cap
  BY NewCapGrows DEF BeginGrow
<1>2. IsMap(n) /\ n.cap = NewCap(map, fit) /\ n.count = map.count /\ n # NoMap
  BY <1>1, ExtendedIsMap, MapFields
<1>3. map # NoMap /\ map.cap \in Nat /\ MaxCap \in Nat
  BY MapFields, CapAssumption
<1>4. UNCHANGED <<key_hash, map>> /\ i' = 0
  BY DEF BeginGrow
<1> HIDE DEF n
<1>5. CASE out_map' = n /\ ret' = "running" /\ UNCHANGED arg
  BY <1>1, <1>2, <1>3, <1>4, <1>5
  DEF HInv, TypeOK, IsMap, Idle, Setting, Growing
<1>6. CASE ret' = "MEM_ALLOC" /\ arg' = NoArg /\ UNCHANGED out_map
  BY <1>3, <1>4, <1>6 DEF HInv, TypeOK, IsMap, Idle, Setting, Growing
<1> QED
  BY <1>5, <1>6 DEF BeginGrow, n

\* A step keeps the type and the state of the call under way consistent.
LEMMA StepInv == HInv /\ [Next]_vars => HInv'
<1> SUFFICES ASSUME HInv, [Next]_vars
             PROVE  HInv'
  OBVIOUS
<1> USE DEF HInv
<1>a. TypeOK /\ (map = NoMap \/ IsMap(map)) /\ (out_map = NoMap \/ IsMap(out_map))
  BY TypeMaps
<1>b. MaxCap \in Nat
  BY CapAssumption
<1>1. ASSUME NEW cap \in Caps, New(cap) PROVE HInv'
  <2>1. IsMap(NewMap(cap)) /\ NewMap(cap) # NoMap
    BY NewMapIsMap, MapFields, CapAssumption
  <2>2. map' = NewMap(cap) \/ map' = map
    BY <1>1 DEF New
  <2>3. out_map' = out_map /\ out_map = NoMap /\ arg' = NoArg
    BY <1>1 DEF New, NoGrowth
  <2>4. ret' \in {"OK", "MEM_ALLOC"} /\ i' = i /\ key_hash' = key_hash
    BY <1>1 DEF New, NoGrowth
  <2> QED
    BY <1>a, <2>1, <2>2, <2>3, <2>4 DEF TypeOK, IsMap, Idle, Setting, Growing
<1>2. CASE FreeMap
  BY <1>2 DEF FreeMap, NoGrowth, TypeOK, Idle, Setting, Growing
<1>3. ASSUME NEW e \in Entries, Set(e) PROVE HInv'
  BY <1>3, NoneAssumption DEF Set, NoGrowth, TypeOK, Idle, Setting, Growing
<1>4. CASE SetPresent
  <2> DEFINE b == GetBucket(map, arg.key, arg.hash)
             n == [map EXCEPT !.values[map.buckets[b]] = arg.value]
  <2>1. /\ ret = "running" /\ out_map = NoMap /\ IsMap(map) /\ arg # NoArg
        /\ b # -1 /\ map.buckets[b] # Free
    BY <1>4, <1>a DEF SetPresent, Setting, Present
  <2>2. map.buckets[b] \in Slots(map)
    BY <2>1, ArgIsEntry, GetBucketType, MapFields
  <2>3. IsMap(n) /\ n # NoMap
    BY <2>1, <2>2, ArgIsEntry, ValueSetIsMap, MapFields
  <2>4. /\ map' = n /\ ret' = "OK" /\ arg' = NoArg
        /\ out_map' = out_map /\ i' = i /\ key_hash' = key_hash
    BY <1>4 DEF SetPresent, NoGrowth
  <2> HIDE DEF n
  <2> QED
    BY <1>a, <2>1, <2>3, <2>4 DEF TypeOK, IsMap, Idle, Setting, Growing
<1>5. CASE SetNew
  <2>1. /\ ret = "running" /\ out_map = NoMap /\ IsMap(map) /\ arg # NoArg
        /\ map.count < map.cap - 1 /\ AddTo(map)
        /\ out_map' = out_map /\ i' = i /\ key_hash' = key_hash
    BY <1>5, <1>a DEF SetNew, Setting, NoGrowth
  <2>2. IsMap(map') /\ arg' = NoArg /\ ret' \in {"OK", "panic"}
    BY <2>1, AddToIsMap
  <2> QED
    BY <1>a, <2>1, <2>2 DEF TypeOK, IsMap, Idle, Setting, Growing
<1>6. CASE SetGrowing
  <2>1. IsMap(map) /\ out_map = NoMap /\ BeginGrow(2)
    BY <1>6, <1>a DEF SetGrowing, Setting
  <2> QED
    BY <2>1, BeginGrowInv
<1>7. ASSUME NEW fit \in Fits, GrowUnneeded(fit) PROVE HInv'
  BY <1>7 DEF GrowUnneeded, NoGrowth, TypeOK, Idle, Setting, Growing
<1>8. ASSUME NEW fit \in Fits, Grow(fit) PROVE HInv'
  <2>1. IsMap(map) /\ out_map = NoMap /\ BeginGrow(fit) /\ fit \in Nat
    BY <1>8, <1>a, CapAssumption DEF Grow
  <2> QED
    BY <2>1, BeginGrowInv
<1>9. CASE Reinsert
  <2>1. /\ ret = "running" /\ IsMap(out_map) /\ IsMap(map)
        /\ out_map.cap > map.cap /\ out_map.count = map.count
        /\ i < map.cap /\ i' = i + 1
        /\ UNCHANGED <<key_hash, map, arg>>
    BY <1>9, <1>a DEF Reinsert, Growing
  <2>2. /\ i \in Nat /\ map.cap \in Nat /\ out_map.cap \in Nat
        /\ map.cap <= MaxCap /\ i \in Slots(out_map)
    BY <2>1, MapFields DEF TypeOK
  <2>3. out_map.keys[i] \in AnyKey
    BY <2>1, <2>2, MapFields
  <2>4. PICK h \in Hashes(out_map.keys[i]) :
           LET b == GetBucket(out_map, out_map.keys[i], h) IN
           IF b = -1
           THEN ret' = "panic" /\ UNCHANGED out_map
           ELSE out_map' = [out_map EXCEPT !.buckets[b] = i] /\ UNCHANGED ret
    BY <1>9 DEF Reinsert
  <2> DEFINE b == GetBucket(out_map, out_map.keys[i], h)
             n == [out_map EXCEPT !.buckets[b] = i]
  <2>5. h \in Nat
    BY <2>3, HashesAreNat
  <2>6. CASE b = -1
    <3>1. ret' = "panic" /\ out_map' = out_map
      BY <2>4, <2>6
    <3> QED
      BY <1>a, <1>b, <2>1, <2>2, <3>1
      DEF TypeOK, IsMap, Idle, Setting, Growing
  <2>7. CASE b # -1
    <3>1. out_map' = n /\ ret' = ret
      BY <2>4, <2>7
    <3>2. b \in Slots(out_map)
      BY <2>1, <2>5, <2>7, GetBucketType
    <3>3. IsMap(n) /\ n.cap = out_map.cap /\ n.count = out_map.count
      <4> HIDE DEF b
      <4> QED
        BY <2>1, <2>2, <3>2, BucketSetIsMap
    <3> HIDE DEF n
    <3>4. n # NoMap
      BY <3>3, MapFields
    <3> QED
      BY <1>a, <1>b, <2>1, <2>2, <3>1, <3>3, <3>4
      DEF TypeOK, IsMap, Idle, Setting, Growing
  <2> QED
    BY <2>6, <2>7
<1>10. CASE EndGrow
  <2>1. /\ ret = "running" /\ IsMap(out_map) /\ IsMap(map)
        /\ out_map.cap > map.cap /\ out_map.count = map.count
        /\ out_map' = NoMap /\ i' = 0 /\ key_hash' = key_hash
    BY <1>10, <1>a DEF EndGrow, Growing
  <2>2. out_map.count < out_map.cap - 1 /\ out_map # NoMap
    BY <2>1, MapFields
  <2>3. IsMap(map') /\ arg' = NoArg /\ ret' \in {"OK", "panic"}
    <3>1. CASE arg = NoArg
      BY <1>10, <2>1, <3>1 DEF EndGrow
    <3>2. CASE arg # NoArg
      BY <1>10, <1>a, <2>1, <2>2, <3>2, AddToIsMap DEF EndGrow
    <3> QED
      BY <3>1, <3>2
  <2> QED
    BY <1>a, <1>b, <2>1, <2>3 DEF TypeOK, IsMap, Idle, Setting, Growing
<1>11. CASE UNCHANGED vars
  BY <1>11 DEF vars, TypeOK, Idle, Setting, Growing
<1> QED
  BY <1>1, <1>2, <1>3, <1>4, <1>5, <1>6, <1>7, <1>8, <1>9, <1>10, <1>11
  DEF Next

LEMMA InitInv == Init => HInv
BY CapAssumption DEF Init, HInv, TypeOK, Idle, Setting, Growing

\* The map and the one that replaces it stay maps, and a set under way has
\* what it was called with, for all keys, hashes and capacities.
THEOREM TypeCorrect == Spec => []TypeOK
<1>1. HInv => TypeOK
  BY DEF HInv
<1> QED
  BY InitInv, StepInv, <1>1, PTL DEF Spec

-----------------------------------------------------------------------------
(* Every search ends.  At most one bucket more than there are keys is in   *)
(* use: slots that were never set all hold the zero key, and growing gives *)
(* all of them the same bucket.                                            *)

UnsetZero(m) == \A s \in Slots(m) : s >= m.count => m.keys[s] = Zero
Spare(m) == UnsetZero(m) /\ Cardinality(Used(m)) <= m.count + 1

PInv ==
    /\ NoPanic
    /\ map # NoMap => Spare(map)
    /\ Growing =>
          /\ UnsetZero(out_map)
          /\ i <= out_map.count => Cardinality(Used(out_map)) <= i
          /\ i > out_map.count => Spare(out_map) /\ Found(out_map, Zero)

LEMMA UsedIsFinite ==
    ASSUME NEW m, IsMap(m)
    PROVE  /\ IsFiniteSet(Slots(m)) /\ Cardinality(Slots(m)) = m.cap
           /\ Used(m) \subseteq Slots(m) /\ IsFiniteSet(Used(m))
           /\ Cardinality(Used(m)) \in Nat
<1>1. m.cap \in Nat \ {0}
  BY MapFields
<1>2. IsFiniteSet(Slots(m)) /\ Cardinality(Slots(m)) = m.cap
  <2>1. PICK t \in Int : t = m.cap - 1
    BY <1>1
  <2>2. /\ IsFiniteSet(0..t)
        /\ Cardinality(0..t) = IF 0 > t THEN 0 ELSE t - 0 + 1
    <3>1. 0 \in Int
      OBVIOUS
    <3> QED
      BY <2>1, <3>1, FS_Interval, Zenon
  <2>3. Slots(m) = 0..t
    BY <2>1 DEF Slots
  <2>4. (IF 0 > t THEN 0 ELSE t - 0 + 1) = m.cap
    BY <1>1, <2>1
  <2> QED
    BY <2>2, <2>3, <2>4, Zenon
<1>3. Used(m) \subseteq Slots(m)
  BY DEF Used
<1>4. IsFiniteSet(Used(m))
  BY <1>2, <1>3, FS_Subset
<1> QED
  BY <1>2, <1>3, <1>4, FS_CardinalityType

\* With fewer buckets in use than there are, every search succeeds.
LEMMA BucketFound ==
    ASSUME NEW m, IsMap(m), Cardinality(Used(m)) < m.cap,
           NEW k, NEW h \in Nat
    PROVE  GetBucket(m, k, h) \in Slots(m)
<1>1. Used(m) # Slots(m)
  BY UsedIsFinite, MapFields
<1>2. PICK b \in Slots(m) : m.buckets[b] = Free
  BY <1>1 DEF Used
<1> QED
  BY <1>2, FreeBucketFound

\* Pointing a bucket at a slot puts that bucket in use.
LEMMA UsedAfter ==
    ASSUME NEW m, IsMap(m), NEW n, n.cap = m.cap,
           NEW b \in Slots(m), NEW s \in Slots(m),
           n.buckets = [m.buckets EXCEPT ![b] = s]
    PROVE  /\ Used(n) = Used(m) \union {b}
           /\ Cardinality(Used(n)) <= Cardinality(Used(m)) + 1
           /\ b \in Used(m) => Cardinality(Used(n)) = Cardinality(Used(m))
<1>1. Used(n) = Used(m) \union {b}
  <2>1. Slots(n) = Slots(m) /\ s # Free
    BY MapFields, FreeAssumption DEF Slots
  <2>2. \A c \in Slots(m) : n.buckets[c] = IF c = b THEN s ELSE m.buckets[c]
    BY MapFields
  <2> QED
    BY <2>1, <2>2 DEF Used
<1>2. IsFiniteSet(Used(m)) /\ Cardinality(Used(m)) \in Nat
  BY UsedIsFinite
<1>3. CASE b \in Used(m)
  <2>1. Used(n) = Used(m)
    BY <1>1, <1>3
  <2> QED
    BY <1>1, <1>2, <2>1
<1>4. CASE b \notin Used(m)
  <2>1. Cardinality(Used(m) \union {b}) = Cardinality(Used(m)) + 1
    BY <1>2, <1>4, FS_AddElement
  <2> QED
    BY <1>1, <1>2, <1>4, <2>1
<1> QED
  BY <1>3, <1>4

\* Once the bucket found for a key points at a slot with that key, the key is
\* found there.
LEMMA FoundAfter ==
    ASSUME NEW m, NEW n, NEW s, NEW k, NEW h, NEW b,
           IsMap(m), IsMap(n), n.cap = m.cap, n.keys = m.keys,
           s \in Slots(m), k = m.keys[s], h \in Nat,
           b = GetBucket(m, k, h), b # -1,
           n.buckets[b] = s,
           \A c \in Slots(m) : c # b => n.buckets[c] = m.buckets[c]
    PROVE  GetBucket(n, k, h) = b
<1>1. \E j \in Slots(m) : Stops(m, k, h, j)
  BY DEF GetBucket
<1>2. PICK j \in Slots(m) : /\ Stops(m, k, h, j)
                            /\ \A l \in 0..(j - 1) : ~Stops(m, k, h, l)
                            /\ GetBucket(m, k, h) = Probe(m, h, j)
  BY <1>1, FirstStop
<1>3. b \in Slots(m) /\ b = Probe(m, h, j)
  BY <1>2, ProbeIsSlot
<1>5. \A l \in Slots(m) : Probe(n, h, l) = Probe(m, h, l)
  BY DEF Probe
<1>6. Stops(n, k, h, j)
  BY <1>3, <1>5 DEF Stops
<1>7. ASSUME NEW l \in 0..(j - 1) PROVE ~Stops(n, k, h, l)
  <2>1. l \in Slots(m)
    BY MapFields DEF Slots
  <2>2. ~Stops(m, k, h, l)
    BY <1>2
  <2>3. Probe(m, h, l) # b /\ Probe(m, h, l) \in Slots(m)
    BY <1>2, <1>3, <2>1, <2>2, ProbeIsSlot DEF Stops
  <2>4. n.buckets[Probe(m, h, l)] = m.buckets[Probe(m, h, l)]
    BY <2>3
  <2> QED
    BY <1>5, <2>1, <2>2, <2>4 DEF Stops
<1>8. j \in Slots(n)
  BY DEF Slots
<1>9. GetBucket(n, k, h) = Probe(n, h, j)
  BY <1>6, <1>7, <1>8, FirstStopUnique
<1> QED
  BY <1>3, <1>5, <1>9

LEMMA AddToSpare ==
    ASSUME TypeOK, arg # NoArg, NEW m, IsMap(m), m.count < m.cap - 1,
           Spare(m), AddTo(m)
    PROVE  ret' = "OK" /\ Spare(map')
<1> DEFINE b == GetBucket(m, arg.key, arg.hash)
<1>1. m.count \in Nat /\ m.cap \in Nat /\ m.count \in Slots(m)
      /\ Cardinality(Used(m)) \in Nat
  BY MapFields, UsedIsFinite
<1>2. b \in Slots(m) /\ b # -1
  <2>1. Cardinality(Used(m)) < m.cap
    BY <1>1 DEF Spare
  <2> QED
    BY <2>1, ArgIsEntry, BucketFound, GetBucketType
<1>3. ret' = "OK" /\ map' = Added(m, b, arg)
  BY <1>2 DEF AddTo
<1> HIDE DEF b
<1> DEFINE n == Added(m, b, arg)
<1>4. /\ n.cap = m.cap /\ n.count = m.count + 1
      /\ n.buckets = [m.buckets EXCEPT ![b] = m.count]
      /\ n.keys = [m.keys EXCEPT ![m.count] = arg.key]
      /\ IsMap(n)
  BY <1>2, ArgIsEntry, AddedIsMap
<1> HIDE DEF n
<1>5. Cardinality(Used(n)) <= n.count + 1
  <2>1. Cardinality(Used(n)) <= Cardinality(Used(m)) + 1
    BY <1>1, <1>2, <1>4, UsedAfter
  <2> QED
    BY <1>1, <1>4, <2>1, UsedIsFinite DEF Spare
<1>6. UnsetZero(n)
  <2>1. Slots(n) = Slots(m) /\ Slots(m) \subseteq Nat
    BY <1>4 DEF Slots
  <2> QED
    BY <1>1, <1>4, <2>1, MapFields DEF Spare, UnsetZero
<1> QED
  BY <1>3, <1>5, <1>6 DEF Spare, n

LEMMA BeginGrowSpare ==
    ASSUME HInv, PInv, IsMap(map), NEW fit \in Nat, BeginGrow(fit),
           Setting \/ Idle
    PROVE  PInv'
<1> DEFINE n == Extended(map, NewCap(map, fit))
<1>1. map # NoMap /\ map.count \in Nat /\ Spare(map)
  BY MapFields DEF PInv
<1>2. /\ NewCap(map, fit) \in 1..MaxCap /\ NewCap(map, fit) > map.cap
      /\ map' = map /\ i' = 0 /\ out_map = NoMap
      /\ \/ out_map' = n /\ ret' = "running"
         \/ ret' = "MEM_ALLOC" /\ out_map' = out_map
  BY NewCapGrows DEF BeginGrow, HInv, Setting
<1>3. /\ IsMap(n) /\ n.cap = NewCap(map, fit) /\ n.count = map.count
      /\ \A b \in Slots(n) : n.buckets[b] = Free
      /\ \A s \in Slots(n) : n.keys[s] = IF s < map.cap THEN map.keys[s] ELSE Zero
  BY <1>2, ExtendedIsMap
<1> HIDE DEF n
<1>4. UnsetZero(n)
  <2>1. \A s \in Slots(n) : s < map.cap => s \in Slots(map)
    BY <1>3, MapFields DEF Slots
  <2> QED
    BY <1>1, <1>3, <2>1 DEF Spare, UnsetZero
<1>5. Cardinality(Used(n)) = 0
  <2>1. Used(n) = {}
    BY <1>3 DEF Used
  <2> QED
    BY <2>1, FS_EmptySet
<1> QED
  BY <1>1, <1>2, <1>3, <1>4, <1>5 DEF PInv, NoPanic, Growing

LEMMA StepSpare ==
    ASSUME ByAddress = FALSE
    PROVE  HInv /\ PInv /\ [Next]_vars => PInv'
<1> SUFFICES ASSUME HInv, PInv, [Next]_vars
             PROVE  PInv'
  OBVIOUS
<1>a. /\ TypeOK
      /\ map = NoMap \/ IsMap(map)
      /\ out_map = NoMap \/ IsMap(out_map)
  BY TypeMaps DEF HInv
<1>b. /\ Idle => out_map = NoMap /\ arg = NoArg
      /\ ret = "running" => map # NoMap
      /\ Setting => arg # NoArg
      /\ Growing => /\ out_map.cap > map.cap
                    /\ out_map.count = map.count
                    /\ i <= map.cap
  BY DEF HInv
<1>1. ASSUME NEW cap \in Caps, New(cap) PROVE PInv'
  <2> DEFINE n == NewMap(cap)
  <2>1. /\ IsMap(n) /\ n.count = 0
        /\ \A b \in Slots(n) : n.buckets[b] = Free
        /\ \A s \in Slots(n) : n.keys[s] = Zero
    BY NewMapIsMap, CapAssumption
  <2> HIDE DEF n
  <2>2. Cardinality(Used(n)) = 0
    <3>1. Used(n) = {}
      BY <2>1 DEF Used
    <3> QED
      BY <3>1, FS_EmptySet
  <2>3. Spare(n)
    BY <2>1, <2>2 DEF Spare, UnsetZero
  <2>4. /\ map' = n \/ map' = map
        /\ ret' \in {"OK", "MEM_ALLOC"} /\ map = NoMap
    BY <1>1 DEF New, n
  <2> QED
    BY <2>3, <2>4 DEF PInv, NoPanic, Growing
<1>2. CASE FreeMap
  BY <1>2 DEF FreeMap, PInv, NoPanic, Growing
<1>3. ASSUME NEW e \in Entries, Set(e) PROVE PInv'
  BY <1>3, <1>b DEF Set, NoGrowth, PInv, NoPanic, Growing
<1>4. CASE SetPresent
  <2> DEFINE b == GetBucket(map, arg.key, arg.hash)
             n == [map EXCEPT !.values[map.buckets[b]] = arg.value]
  <2>1. /\ IsMap(map) /\ map # NoMap /\ arg # NoArg
        /\ b # -1 /\ map.buckets[b] # Free
    BY <1>4, <1>a, <1>b DEF SetPresent, Setting, Present
  <2>2. map.buckets[b] \in Slots(map)
    BY <1>a, <2>1, ArgIsEntry, GetBucketType, MapFields
  <2>3. /\ n.cap = map.cap /\ n.count = map.count
        /\ n.buckets = map.buckets /\ n.keys = map.keys
    BY <1>a, <2>1, <2>2, ArgIsEntry, ValueSetIsMap
  <2>4. map' = n /\ ret' = "OK"
    BY <1>4 DEF SetPresent
  <2> HIDE DEF n
  <2>5. Spare(n)
    BY <2>1, <2>3 DEF PInv, Spare, UnsetZero, Used, Slots
  <2> QED
    BY <2>4, <2>5 DEF PInv, NoPanic, Growing
<1>5. CASE SetNew
  <2>1. /\ IsMap(map) /\ map # NoMap /\ arg # NoArg
        /\ map.count < map.cap - 1 /\ AddTo(map)
    BY <1>5, <1>a, <1>b DEF SetNew, Setting
  <2>2. ret' = "OK" /\ Spare(map')
    BY <1>a, <2>1, AddToSpare DEF PInv
  <2> QED
    BY <2>2 DEF PInv, NoPanic, Growing
<1>6. CASE SetGrowing
  <2>1. IsMap(map) /\ Setting /\ BeginGrow(2)
    BY <1>6, <1>a, <1>b DEF SetGrowing, Setting
  <2> QED
    BY <2>1, BeginGrowSpare
<1>7. ASSUME NEW fit \in Fits, GrowUnneeded(fit) PROVE PInv'
  BY <1>7 DEF GrowUnneeded, NoGrowth, PInv, NoPanic, Growing
<1>8. ASSUME NEW fit \in Fits, Grow(fit) PROVE PInv'
  <2>1. IsMap(map) /\ Idle /\ BeginGrow(fit) /\ fit \in Nat
    BY <1>8, <1>a, CapAssumption DEF Grow
  <2> QED
    BY <2>1, BeginGrowSpare
<1>9. CASE Reinsert
  <2> DEFINE k == out_map.keys[i]
             h == key_hash[k]
             b == GetBucket(out_map, k, h)
             n == [out_map EXCEPT !.buckets[b] = i]
  <2>1. /\ Growing /\ IsMap(out_map) /\ IsMap(map) /\ map # NoMap
        /\ out_map.cap > map.cap /\ out_map.count = map.count
        /\ i < map.cap /\ i' = i + 1 /\ map' = map
        /\ key_hash' = key_hash
    BY <1>9, <1>a, <1>b DEF Reinsert, Growing
  <2>2. /\ i \in Nat /\ map.cap \in Nat /\ out_map.cap \in Nat
        /\ out_map.count \in Nat /\ out_map.count < map.cap
        /\ i \in Slots(out_map) /\ Cardinality(Used(out_map)) \in Nat
    BY <1>a, <2>1, MapFields, UsedIsFinite DEF TypeOK
  <2>3. k \in AnyKey /\ h \in Nat /\ Hashes(k) = {h}
    <3>1. k \in AnyKey
      BY <2>1, <2>2, MapFields
    <3> QED
      BY <1>a, <3>1, HashesAreNat DEF Hashes
  <2>4. UnsetZero(out_map)
    BY <2>1 DEF PInv
  <2>5. b \in Slots(out_map) /\ b # -1
    <3>1. Cardinality(Used(out_map)) < out_map.cap
      BY <2>1, <2>2 DEF PInv, Spare
    <3> QED
      BY <2>1, <2>3, <3>1, BucketFound, GetBucketType
  <2>6. out_map' = n /\ ret' = ret
    BY <1>9, <2>3, <2>5 DEF Reinsert
  <2>7. /\ IsMap(n) /\ n.cap = out_map.cap /\ n.count = out_map.count
        /\ n.buckets = [out_map.buckets EXCEPT ![b] = i]
        /\ n.keys = out_map.keys
    <3> HIDE DEF b
    <3> QED
      BY <2>1, <2>2, <2>5, BucketSetIsMap
  <2>8. GetBucket(n, k, h) = b /\ n.buckets[b] = i
    <3>1. b = GetBucket(out_map, k, h) /\ h \in Nat /\ k = out_map.keys[i]
      BY <2>3
    <3> HIDE DEF n, h, k, b
    <3>2. /\ IsMap(out_map) /\ IsMap(n) /\ n.cap = out_map.cap
          /\ n.keys = out_map.keys /\ i \in Slots(out_map) /\ b # -1
      BY <2>1, <2>2, <2>5, <2>7
    <3>3. n.buckets[b] = i
      BY <2>1, <2>5, <2>7, MapFields
    <3>4. \A c \in Slots(out_map) : c # b => n.buckets[c] = out_map.buckets[c]
      BY <2>1, <2>5, <2>7, MapFields
    <3> QED
      BY <3>1, <3>2, <3>3, <3>4, FoundAfter
  <2>9. /\ Cardinality(Used(n)) <= Cardinality(Used(out_map)) + 1
        /\ b \in Used(out_map) =>
              Cardinality(Used(n)) = Cardinality(Used(out_map))
        /\ Cardinality(Used(n)) \in Nat
    <3> HIDE DEF n, b
    <3> QED
      BY <2>1, <2>2, <2>5, <2>7, UsedAfter, UsedIsFinite
  <2>10. UnsetZero(n)
    <3> HIDE DEF n
    <3> QED
      BY <2>4, <2>7 DEF UnsetZero, Slots
  <2> HIDE DEF n, b, h
  <2>11. CASE i < out_map.count
    <3>1. Cardinality(Used(n)) <= i + 1
      BY <2>1, <2>2, <2>9, <2>11 DEF PInv
    <3> QED
      BY <2>1, <2>2, <2>6, <2>7, <2>10, <2>11, <3>1
      DEF PInv, NoPanic, Growing
  <2>12. CASE i >= out_map.count
    <3>1. k = Zero
      BY <2>2, <2>4, <2>12 DEF UnsetZero
    <3>2. Found(n, Zero)
      <4>1. i # Free
        BY <2>2, FreeAssumption
      <4> QED
        BY <2>5, <2>8, <3>1, <4>1 DEF Found, h
    <3>3. Cardinality(Used(n)) <= n.count + 1
      <4>1. CASE i = out_map.count
        BY <2>1, <2>2, <2>7, <2>9, <4>1 DEF PInv
      <4>2. CASE i > out_map.count
        <5>1. Found(out_map, Zero) /\ Spare(out_map)
          BY <2>1, <4>2 DEF PInv
        <5>2. b \in Used(out_map)
          BY <2>5, <3>1, <5>1 DEF Found, Used, b, h
        <5> QED
          BY <2>2, <2>7, <2>9, <5>1, <5>2 DEF Spare
      <4> QED
        BY <2>2, <2>12, <4>1, <4>2
    <3>4. Spare(n) /\ i' > n.count
      BY <2>1, <2>2, <2>7, <2>10, <2>12, <3>3 DEF Spare
    <3> QED
      BY <2>1, <2>2, <2>6, <2>7, <2>10, <3>2, <3>4
      DEF PInv, NoPanic, Growing, Found
  <2> QED
    BY <2>2, <2>11, <2>12
<1>10. CASE EndGrow
  <2>1. /\ Growing /\ IsMap(out_map) /\ IsMap(map)
        /\ out_map.cap > map.cap /\ out_map.count = map.count
        /\ i = map.cap /\ out_map' = NoMap
    BY <1>10, <1>a, <1>b DEF EndGrow, Growing
  <2>2. out_map.count < out_map.cap - 1 /\ i > out_map.count
    BY <2>1, MapFields
  <2>3. Spare(out_map)
    BY <2>1, <2>2 DEF PInv
  <2>4. ret' = "OK" /\ Spare(map')
    <3>1. CASE arg = NoArg
      BY <1>10, <2>3, <3>1 DEF EndGrow
    <3>2. CASE arg # NoArg
      BY <1>10, <1>a, <2>1, <2>2, <2>3, <3>2, AddToSpare DEF EndGrow
    <3> QED
      BY <3>1, <3>2
  <2> QED
    BY <2>4 DEF PInv, NoPanic, Growing
<1>11. CASE UNCHANGED vars
  BY <1>11 DEF vars, PInv, NoPanic, Growing, Found
<1> QED
  BY <1>1, <1>2, <1>3, <1>4, <1>5, <1>6, <1>7, <1>8, <1>9, <1>10, <1>11
  DEF Next

LEMMA InitSpare == Init => PInv
BY DEF Init, PInv, NoPanic, Growing

\* No lookup that needs a bucket goes without one, when keys are hashed by
\* their value: hashmap_add_key_val and the reinsertion always find one, for
\* all keys, hashes, capacities and sequences of sets and growths.
THEOREM PanicFree ==
    ASSUME ByAddress = FALSE
    PROVE  Spec => []NoPanic
<1>1. HInv /\ PInv /\ [Next]_vars => (HInv /\ PInv)'
  BY StepInv, StepSpare
<1>2. PInv => NoPanic
  BY DEF PInv
<1> QED
  BY InitInv, InitSpare, <1>1, <1>2, PTL DEF Spec

\* Growing costs the map one bucket more than its keys need, and never more.
THEOREM SpareBucketCorrect ==
    ASSUME ByAddress = FALSE
    PROVE  Spec => []OneSpareBucket
<1>1. HInv /\ PInv /\ [Next]_vars => (HInv /\ PInv)'
  BY StepInv, StepSpare
<1>2. PInv => OneSpareBucket
  BY DEF PInv, Spare, OneSpareBucket
<1> QED
  BY InitInv, InitSpare, <1>1, <1>2, PTL DEF Spec

-----------------------------------------------------------------------------
(* Lookups.  The invariant of linear probing: on the way to a bucket that  *)
(* points at a slot, from the hash of its key, no bucket is free.  Buckets *)
(* in use stay in use, so the way stays; and as no two slots have the same *)
(* key, any bucket met before with that key points at the same slot.       *)

Reachable(m, s) ==
    \E j \in Slots(m) :
        /\ m.buckets[Probe(m, key_hash[m.keys[s]], j)] = s
        /\ \A l \in 0..(j - 1) :
              m.buckets[Probe(m, key_hash[m.keys[s]], l)] # Free
Indexed(m, n) == \A s \in 0..(n - 1) : Reachable(m, s)

Keyed(m) ==
    /\ UnsetZero(m)
    /\ \A s \in 0..(m.count - 1) : m.keys[s] \in Key
    /\ \A s, t \in 0..(m.count - 1) : m.keys[s] = m.keys[t] => s = t

HashOK == key_hash \in [AnyKey -> Nat]

LEMMA KeyHashType == TypeOK => HashOK
BY HashAssumption DEF TypeOK, HashOK

\* The slots in use.
LEMMA CountSlots ==
    ASSUME NEW m, IsMap(m), NEW s \in 0..(m.count - 1)
    PROVE  s \in Slots(m) /\ s \in Nat /\ s < m.count /\ s # Free
           /\ m.keys[s] \in AnyKey
BY MapFields, FreeAssumption DEF Slots

\* A bucket found for a key of the caller is free or leads to the one slot in
\* use that has the key.
LEMMA FoundIsKeyed ==
    ASSUME NEW m, IsMap(m), Keyed(m), HashOK, Zero \notin Key,
           NEW k \in Key, Found(m, k)
    PROVE  SlotOf(m, k) \in 0..(m.count - 1) /\ m.keys[SlotOf(m, k)] = k
<1>1. key_hash[k] \in Nat
  BY DEF HashOK, AnyKey
<1>2. GetBucket(m, k, key_hash[k]) \in Slots(m) /\ SlotOf(m, k) # Free
  BY <1>1, GetBucketType DEF Found, SlotOf
<1>3. m.keys[SlotOf(m, k)] = k
  BY <1>1, <1>2, GetBucketStops, GetBucketType DEF SlotOf
<1>4. SlotOf(m, k) \in Slots(m)
  BY <1>2, MapFields DEF SlotOf
<1>5. ~(SlotOf(m, k) >= m.count)
  BY <1>3, <1>4 DEF Keyed, UnsetZero
<1> QED
  BY <1>3, <1>4, <1>5, MapFields DEF Slots

LEMMA ReachableIsFound ==
    ASSUME NEW m, IsMap(m), Keyed(m), HashOK, Zero \notin Key,
           NEW s \in 0..(m.count - 1), Reachable(m, s)
    PROVE  Found(m, m.keys[s]) /\ SlotOf(m, m.keys[s]) = s
<1> DEFINE k == m.keys[s]
           h == key_hash[k]
<1>1. k \in Key /\ h \in Nat /\ s \in Slots(m) /\ s # Free
  BY CountSlots DEF Keyed, HashOK, AnyKey
<1>2. PICK j \in Slots(m) :
         /\ m.buckets[Probe(m, h, j)] = s
         /\ \A l \in 0..(j - 1) : m.buckets[Probe(m, h, l)] # Free
  BY DEF Reachable
<1> HIDE DEF h
<1>3. Stops(m, k, h, j)
  BY <1>2 DEF Stops
<1>4. PICK x \in Slots(m) :
         /\ Stops(m, k, h, x)
         /\ \A l \in 0..(x - 1) : ~Stops(m, k, h, l)
         /\ GetBucket(m, k, h) = Probe(m, h, x)
  BY <1>1, <1>3, FirstStop
<1>5. x \in Nat /\ j \in Nat
  BY DEF Slots
<1>6. m.buckets[Probe(m, h, x)] # Free
  BY <1>1, <1>2, <1>3, <1>4, <1>5
<1>7. GetBucket(m, k, h) # -1
  BY <1>1, <1>4, ProbeIsSlot, GetBucketType
<1>8. Found(m, k)
  BY <1>4, <1>6, <1>7 DEF Found, h
<1>9. SlotOf(m, k) \in 0..(m.count - 1) /\ m.keys[SlotOf(m, k)] = k
  BY <1>1, <1>8, FoundIsKeyed
<1>10. SlotOf(m, k) = s
  BY <1>9 DEF Keyed
<1> QED
  BY <1>8, <1>10

\* Looking for the key object finds the same slot.
LEMMA ReachableIsInterned ==
    ASSUME NEW m, IsMap(m), HashOK,
           NEW s \in 0..(m.count - 1), Reachable(m, s)
    PROVE  LET b == GetBucketByIntern(m, s, key_hash[m.keys[s]]) IN
           b # -1 /\ m.buckets[b] = s
<1> DEFINE h == key_hash[m.keys[s]]
           First(j) == /\ InternStops(m, s, h, j)
                       /\ \A l \in 0..(j - 1) : ~InternStops(m, s, h, l)
           S == {j \in Slots(m) : InternStops(m, s, h, j)}
<1>1. h \in Nat /\ s # Free
  BY CountSlots DEF HashOK
<1>2. PICK j \in Slots(m) :
         /\ m.buckets[Probe(m, h, j)] = s
         /\ \A l \in 0..(j - 1) : m.buckets[Probe(m, h, l)] # Free
  BY DEF Reachable
<1>3. j \in S
  BY <1>2 DEF InternStops
<1>4. PICK x \in S : \A y \in S : x <= y
  <2>1. S \subseteq Nat /\ S # {}
    BY <1>3 DEF Slots
  <2> QED
    BY <2>1, LeastElement
<1>5. x \in Slots(m) /\ First(x)
  <2>1. \A l \in 0..(x - 1) : l \in Slots(m) /\ ~(x <= l)
    BY <1>4, MapFields DEF Slots
  <2> QED
    BY <1>4, <2>1
<1> DEFINE c == CHOOSE t \in Slots(m) : First(t)
<1>6. c \in Slots(m) /\ First(c)
  BY <1>5
<1>7. GetBucketByIntern(m, s, h) = Probe(m, h, c)
  BY <1>3 DEF GetBucketByIntern
<1>8. m.buckets[Probe(m, h, c)] = s
  <2> HIDE DEF c, h
  <2>1. c \in Nat /\ j \in Nat /\ ~(j < c)
    BY <1>2, <1>3, <1>6 DEF Slots
  <2>2. m.buckets[Probe(m, h, c)] \in {Free, s}
    BY <1>6 DEF InternStops
  <2> QED
    BY <1>2, <2>1, <2>2
<1>9. Probe(m, h, c) \in Slots(m) /\ -1 \notin Slots(m)
  <2> HIDE DEF c, h
  <2> QED
    BY <1>1, <1>6, ProbeIsSlot, GetBucketType
<1> QED
  BY <1>7, <1>8, <1>9

\* A slot stays reachable as long as buckets in use stay in use, and those
\* that point at it stay.
LEMMA StaysReachable ==
    ASSUME NEW m, NEW n, IsMap(m), NEW s, HashOK,
           n.cap = m.cap, n.keys[s] = m.keys[s],
           m.keys[s] \in AnyKey,
           \A c \in Slots(m) : m.buckets[c] # Free => n.buckets[c] # Free,
           \A c \in Slots(m) : m.buckets[c] = s => n.buckets[c] = s,
           Reachable(m, s)
    PROVE  Reachable(n, s)
<1> DEFINE h == key_hash[m.keys[s]]
<1>1. PICK j \in Slots(m) :
         /\ m.buckets[Probe(m, h, j)] = s
         /\ \A l \in 0..(j - 1) : m.buckets[Probe(m, h, l)] # Free
  BY DEF Reachable
<1>2. h \in Nat
  BY DEF HashOK
<1> HIDE DEF h
<1>3. \A l \in Slots(m) : Probe(n, h, l) = Probe(m, h, l)
  BY DEF Probe
<1>4. \A l \in Slots(m) : Probe(m, h, l) \in Slots(m)
  BY <1>2, ProbeIsSlot
<1>5. \A l \in 0..(j - 1) : l \in Slots(m)
  BY MapFields DEF Slots
<1>6. n.buckets[Probe(n, h, j)] = s
  BY <1>1, <1>3, <1>4
<1>7. \A l \in 0..(j - 1) : n.buckets[Probe(n, h, l)] # Free
  BY <1>1, <1>3, <1>4, <1>5
<1>8. j \in Slots(n) /\ h = key_hash[n.keys[s]]
  BY DEF Slots, h
<1> QED
  BY <1>6, <1>7, <1>8 DEF Reachable

\* The bucket that a search for its key ends at makes a slot reachable.
LEMMA BecomesReachable ==
    ASSUME NEW m, NEW n, IsMap(m), NEW s, HashOK,
           n.cap = m.cap,
           NEW k \in AnyKey, n.keys[s] = k,
           NEW b, b = GetBucket(m, k, key_hash[k]), b # -1,
           n.buckets[b] = s,
           \A c \in Slots(m) : m.buckets[c] # Free => n.buckets[c] # Free
    PROVE  Reachable(n, s)
<1> DEFINE h == key_hash[k]
<1>1. h \in Nat
  BY DEF HashOK
<1>2. \E j \in Slots(m) : Stops(m, k, h, j)
  BY DEF GetBucket
<1>3. PICK j \in Slots(m) : /\ Stops(m, k, h, j)
                            /\ \A l \in 0..(j - 1) : ~Stops(m, k, h, l)
                            /\ GetBucket(m, k, h) = Probe(m, h, j)
  BY <1>1, <1>2, FirstStop
<1> HIDE DEF h
<1>4. \A l \in Slots(m) : Probe(n, h, l) = Probe(m, h, l)
  BY DEF Probe
<1>5. \A l \in Slots(m) : Probe(m, h, l) \in Slots(m)
  BY <1>1, ProbeIsSlot
<1>6. \A l \in 0..(j - 1) : l \in Slots(m)
  BY MapFields DEF Slots
<1>7. n.buckets[Probe(n, h, j)] = s
  BY <1>3, <1>4 DEF h
<1>8. \A l \in 0..(j - 1) : n.buckets[Probe(n, h, l)] # Free
  BY <1>3, <1>4, <1>5, <1>6 DEF Stops
<1>9. j \in Slots(n) /\ h = key_hash[n.keys[s]]
  BY DEF Slots, h
<1> QED
  BY <1>7, <1>8, <1>9 DEF Reachable

-----------------------------------------------------------------------------
(* What the operations do to lookups.                                      *)

\* n holds what m does and one more key.
Gains(m, n, k, v) ==
    /\ n.count = m.count + 1
    /\ n.keys[m.count] = k /\ n.values[m.count] = v
    /\ \A s \in 0..(m.count - 1) :
          n.keys[s] = m.keys[s] /\ n.values[s] = m.values[s]

\* The maps agree on their slots in use.
SameSlots(m, n) ==
    /\ n.count = m.count
    /\ \A s \in 0..(m.count - 1) :
          n.keys[s] = m.keys[s] /\ n.values[s] = m.values[s]

Fresh(m, k) == \A s \in 0..(m.count - 1) : m.keys[s] # k

\* n holds what m holds, and finds the first j of its slots.
Rebuilt(m, n, j) ==
    /\ Keyed(n) /\ SameSlots(m, n)
    /\ \A s \in 0..(m.count - 1) : s < j => Reachable(n, s)

MapLooks == map # NoMap => Keyed(map) /\ Indexed(map, map.count)
ArgHashed == arg # NoArg => arg.hash = key_hash[arg.key]
OutLooks == Growing => /\ Rebuilt(map, out_map, i)
                       /\ arg # NoArg => Fresh(map, arg.key)

LInv == MapLooks /\ ArgHashed /\ OutLooks

\* A key that is not found is in no slot.
LEMMA AbsentIsFresh ==
    ASSUME NEW m, IsMap(m), Keyed(m), Indexed(m, m.count), HashOK,
           Zero \notin Key, NEW k \in Key, ~Found(m, k)
    PROVE  Fresh(m, k)
<1> SUFFICES ASSUME NEW s \in 0..(m.count - 1), m.keys[s] = k
             PROVE  FALSE
  BY DEF Fresh
<1>1. Reachable(m, s)
  BY DEF Indexed
<1> QED
  BY <1>1, ReachableIsFound

LEMMA FreshStops ==
    ASSUME NEW m, IsMap(m), Keyed(m), HashOK, Zero \notin Key,
           NEW k \in Key, Fresh(m, k),
           NEW b, b = GetBucket(m, k, key_hash[k]), b # -1
    PROVE  b \in Slots(m) /\ m.buckets[b] = Free
<1>1. key_hash[k] \in Nat
  BY DEF HashOK, AnyKey
<1>2. b \in Slots(m)
  BY <1>1, GetBucketType
<1>3. ASSUME m.buckets[b] # Free PROVE FALSE
  <2>1. Found(m, k) /\ SlotOf(m, k) = m.buckets[b]
    BY <1>3 DEF Found, SlotOf
  <2> QED
    BY <2>1, FoundIsKeyed DEF Fresh
<1> QED
  BY <1>2, <1>3

\* Adding a key that no slot has yet.
LEMMA AddToKeeps ==
    ASSUME TypeOK, arg # NoArg, NEW m, IsMap(m), m.count < m.cap - 1,
           arg.hash = key_hash[arg.key], Zero \notin Key,
           Keyed(m), Indexed(m, m.count), Fresh(m, arg.key), AddTo(m),
           ret' # "panic"
    PROVE  \E n : /\ map' = n
                  /\ IsMap(n) /\ Keyed(n) /\ Indexed(n, n.count)
                  /\ Gains(m, n, arg.key, arg.value)
<1> DEFINE b == GetBucket(m, arg.key, arg.hash)
<1>1. b # -1 /\ map' = Added(m, b, arg)
  BY DEF AddTo
<1>2. HashOK /\ arg.key \in Key /\ arg.key \in AnyKey /\ arg \in Entries
      /\ arg.hash = key_hash[arg.key]
  BY KeyHashType, ArgIsEntry DEF Entries
<1>3. b \in Slots(m) /\ m.buckets[b] = Free
  BY <1>1, <1>2, FreshStops
<1>4. b = GetBucket(m, arg.key, key_hash[arg.key])
  BY <1>2
<1> HIDE DEF b
<1> DEFINE n == Added(m, b, arg)
<1>5. /\ IsMap(n) /\ n.cap = m.cap /\ n.count = m.count + 1
      /\ n.buckets = [m.buckets EXCEPT ![b] = m.count]
      /\ n.keys = [m.keys EXCEPT ![m.count] = arg.key]
  BY <1>2, <1>3, AddedIsMap
<1>6. n.values = [m.values EXCEPT ![m.count] = arg.value]
  BY DEF Added
<1> HIDE DEF n
<1>7. /\ m.count \in Nat /\ m.count \in Slots(m) /\ Slots(n) = Slots(m)
      /\ Slots(m) \subseteq Nat /\ m.count # Free
      /\ n.cap \in Nat
  BY <1>5, MapFields, FreeAssumption DEF Slots
<1>8. /\ n.keys[m.count] = arg.key /\ n.values[m.count] = arg.value
      /\ \A s \in Slots(m) : s # m.count =>
            n.keys[s] = m.keys[s] /\ n.values[s] = m.values[s]
      /\ n.buckets[b] = m.count
      /\ \A c \in Slots(m) : c # b => n.buckets[c] = m.buckets[c]
  BY <1>3, <1>5, <1>6, <1>7, MapFields
<1>9. \A s \in 0..(m.count - 1) : s \in Slots(m) /\ s # m.count
  BY CountSlots
<1>10. 0..(n.count - 1) = 0..(m.count - 1) \union {m.count}
  BY <1>5, <1>7
<1>11. Keyed(n)
  <2>1. UnsetZero(n)
    BY <1>5, <1>7, <1>8 DEF Keyed, UnsetZero
  <2>2. \A s \in 0..(n.count - 1) : n.keys[s] \in Key
    BY <1>2, <1>8, <1>9, <1>10 DEF Keyed
  <2>3. ASSUME NEW s \in 0..(n.count - 1), NEW t \in 0..(n.count - 1),
               n.keys[s] = n.keys[t]
        PROVE  s = t
    BY <1>8, <1>9, <1>10, <2>3 DEF Keyed, Fresh
  <2> QED
    BY <2>1, <2>2, <2>3 DEF Keyed
<1>12. Indexed(n, n.count)
  <2>1. ASSUME NEW s \in 0..(m.count - 1) PROVE Reachable(n, s)
    <3>1. Reachable(m, s)
      BY DEF Indexed
    <3>2. n.keys[s] = m.keys[s] /\ s # Free /\ m.keys[s] \in AnyKey
      BY <1>8, <1>9, CountSlots
    <3>3. \A c \in Slots(m) : m.buckets[c] # Free => n.buckets[c] # Free
      BY <1>7, <1>8
    <3>4. \A c \in Slots(m) : m.buckets[c] = s => n.buckets[c] = s
      BY <1>3, <1>8, <3>2
    <3> QED
      BY <1>2, <1>5, <3>1, <3>2, <3>3, <3>4, StaysReachable
  <2>2. Reachable(n, m.count)
    <3>1. \A c \in Slots(m) : m.buckets[c] # Free => n.buckets[c] # Free
      BY <1>7, <1>8
    <3>2. n.cap = m.cap /\ n.keys[m.count] = arg.key /\ n.buckets[b] = m.count
      BY <1>5, <1>8
    <3>3. HashOK /\ arg.key \in AnyKey /\ b # -1
      BY <1>1, <1>2 DEF b
    <3> QED
      BY <1>4, <3>1, <3>2, <3>3, BecomesReachable
  <2> QED
    BY <1>10, <2>1, <2>2 DEF Indexed
<1>13. map' = n
  BY <1>1 DEF n
<1>14. /\ map' = n
       /\ IsMap(n) /\ Keyed(n) /\ Indexed(n, n.count)
       /\ Gains(m, n, arg.key, arg.value)
  BY <1>5, <1>8, <1>9, <1>11, <1>12, <1>13 DEF Gains
<1> QED
  BY <1>14, Zenon

\* The parts of the invariant after a step.
LEMMA MapLooksAfter ==
    ASSUME NEW n, map' = n, key_hash' = key_hash,
           Keyed(n), Indexed(n, n.count)
    PROVE  MapLooks'
BY DEF MapLooks, Keyed, UnsetZero, Indexed, Reachable, Slots, Probe

LEMMA MapLooksStays ==
    ASSUME map' = map, key_hash' = key_hash, MapLooks
    PROVE  MapLooks'
BY DEF MapLooks, Keyed, UnsetZero, Indexed, Reachable, Slots, Probe

LEMMA OutLooksAfter ==
    ASSUME NEW n, out_map' = n, key_hash' = key_hash, map' = map,
           NEW j, i' = j, Rebuilt(map, n, j),
           arg' # NoArg => Fresh(map, arg'.key)
    PROVE  OutLooks'
BY DEF OutLooks, Rebuilt, SameSlots, Fresh, Keyed, UnsetZero, Reachable,
       Slots, Probe

-----------------------------------------------------------------------------

\* A map that has just been extended.
LEMMA BeginGrowLooks ==
    ASSUME HInv, LInv, IsMap(map), out_map = NoMap, NEW fit \in Nat,
           BeginGrow(fit), arg # NoArg => Fresh(map, arg.key)
    PROVE  LInv'
<1> DEFINE n == Extended(map, NewCap(map, fit))
<1>1. /\ map # NoMap /\ map.count \in Nat /\ Keyed(map)
      /\ map.count < map.cap /\ map.cap \in Nat
  BY MapFields DEF LInv, MapLooks
<1>2. /\ NewCap(map, fit) \in 1..MaxCap /\ NewCap(map, fit) > map.cap
      /\ map' = map /\ i' = 0 /\ key_hash' = key_hash
      /\ \/ out_map' = n /\ ret' = "running" /\ arg' = arg
         \/ ret' = "MEM_ALLOC" /\ out_map' = out_map /\ arg' = NoArg
  BY NewCapGrows DEF BeginGrow
<1>3. /\ IsMap(n) /\ n.cap = NewCap(map, fit) /\ n.count = map.count
      /\ \A s \in Slots(n) : n.keys[s] = IF s < map.cap THEN map.keys[s] ELSE Zero
  BY <1>2, ExtendedIsMap
<1>0. \A s \in Slots(n) : s < map.cap => n.values[s] = map.values[s]
  BY <1>3 DEF Extended, Slots
<1> HIDE DEF n
<1>4. \A s \in 0..(map.count - 1) : /\ s \in Slots(n) /\ n.keys[s] = map.keys[s]
                                    /\ n.values[s] = map.values[s]
  BY <1>0, <1>1, <1>2, <1>3 DEF Slots
<1>5. UnsetZero(n)
  <2>1. \A s \in Slots(n) : s < map.cap => s \in Slots(map)
    BY <1>3, MapFields DEF Slots
  <2> QED
    BY <1>1, <1>3, <2>1 DEF Keyed, UnsetZero
<1>6. Keyed(n)
  BY <1>1, <1>3, <1>4, <1>5 DEF Keyed
<1>7. Rebuilt(map, n, 0)
  BY <1>1, <1>3, <1>4, <1>6 DEF Rebuilt, SameSlots
<1>8. MapLooks' /\ ArgHashed'
  BY <1>2, MapLooksStays DEF LInv, ArgHashed
<1>9. OutLooks'
  <2>1. CASE out_map' = n /\ arg' = arg
    BY <1>2, <1>7, <2>1, OutLooksAfter
  <2>2. CASE out_map' = out_map
    BY <2>2 DEF OutLooks, Growing
  <2> QED
    BY <1>2, <2>1, <2>2
<1> QED
  BY <1>8, <1>9 DEF LInv

\* One iteration of the loop of hashmap_grow, b being the bucket it found.
LEMMA ReinsertRebuilds ==
    ASSUME NEW m, IsMap(m), NEW o, IsMap(o), NEW j \in Slots(m), HashOK,
           Zero \notin Key, Rebuilt(m, o, j), m.cap < o.cap,
           NEW b \in Slots(o), b = GetBucket(o, o.keys[j], key_hash[o.keys[j]])
    PROVE  Rebuilt(m, [o EXCEPT !.buckets[b] = j], j + 1)
<1> DEFINE n == [o EXCEPT !.buckets[b] = j]
<1>1. /\ j \in Slots(o) /\ j \in Nat /\ m.count \in Nat /\ m.count < m.cap
      /\ m.cap \in Nat /\ o.cap \in Nat /\ o.count = m.count /\ j # Free
      /\ o.keys[j] \in AnyKey /\ b # -1
  <2>1. o.cap \in Nat /\ -1 \notin 0..(o.cap - 1)
    BY MapFields
  <2> QED
    BY <2>1, MapFields, FreeAssumption DEF Slots, Rebuilt, SameSlots
<1>2. /\ IsMap(n) /\ n.cap = o.cap /\ n.count = o.count
      /\ n.buckets = [o.buckets EXCEPT ![b] = j] /\ n.keys = o.keys
  BY <1>1, BucketSetIsMap
<1>0. n.values = o.values
  OBVIOUS
<1> HIDE DEF n
<1>3. /\ n.buckets[b] = j
      /\ \A c \in Slots(o) : c # b => n.buckets[c] = o.buckets[c]
  BY <1>2, MapFields
<1>4. \A c \in Slots(o) : o.buckets[c] # Free => n.buckets[c] # Free
  BY <1>1, <1>3
<1>5. Keyed(n) /\ SameSlots(m, n)
  BY <1>0, <1>2 DEF Rebuilt, Keyed, SameSlots, UnsetZero, Slots
<1>6. ASSUME NEW s \in 0..(m.count - 1), s < j PROVE Reachable(n, s)
  <2>1. Reachable(o, s)
    BY <1>6 DEF Rebuilt
  <2>2. s \in Slots(o) /\ s \in Nat /\ s # Free /\ o.keys[s] \in Key
        /\ s \in 0..(o.count - 1)
    BY <1>1, CountSlots DEF Rebuilt, Keyed
  <2>3. o.buckets[b] # s
    <3>1. SUFFICES ASSUME o.buckets[b] = s PROVE FALSE
      OBVIOUS
    <3>2. o.keys[s] = o.keys[j]
      <4>1. key_hash[o.keys[j]] \in Nat
        BY <1>1 DEF HashOK
      <4> QED
        BY <1>1, <2>2, <3>1, <4>1, GetBucketStops
    <3>3. j >= o.count
      BY <1>1, <1>6, <2>2, <3>2 DEF Rebuilt, Keyed
    <3> QED
      BY <1>1, <2>2, <3>2, <3>3 DEF Rebuilt, Keyed, UnsetZero
  <2>4. \A c \in Slots(o) : o.buckets[c] = s => n.buckets[c] = s
    BY <1>3, <2>3
  <2>5. n.cap = o.cap /\ n.keys[s] = o.keys[s] /\ o.keys[s] \in AnyKey
    BY <1>2, <2>2 DEF AnyKey
  <2> QED
    BY <1>4, <2>1, <2>4, <2>5, StaysReachable
<1>7. Reachable(n, j)
  <2>1. n.cap = o.cap /\ n.keys[j] = o.keys[j] /\ n.buckets[b] = j
    BY <1>2, <1>3
  <2> QED
    BY <1>1, <1>4, <2>1, BecomesReachable
<1>8. \A s \in 0..(m.count - 1) : s < j + 1 => Reachable(n, s)
  <2>1. \A s \in 0..(m.count - 1) : s < j + 1 => s < j \/ s = j
    BY <1>1
  <2> QED
    BY <1>6, <1>7, <2>1
<1>9. Rebuilt(m, n, j + 1)
  BY <1>5, <1>8 DEF Rebuilt
<1> QED
  BY <1>9 DEF n

LEMMA InitLooks == Init => LInv
BY DEF Init, LInv, MapLooks, ArgHashed, OutLooks, Growing

\* A call that changes no map.
LEMMA SameMaps ==
    ASSUME LInv, map' = map, key_hash' = key_hash, ~Growing',
           arg' # NoArg => arg'.hash = key_hash[arg'.key]
    PROVE  LInv'
BY MapLooksStays DEF LInv, ArgHashed, OutLooks

LEMMA StepLooks ==
    ASSUME ByAddress = FALSE, Zero \notin Key
    PROVE  HInv /\ PInv /\ LInv /\ [Next]_vars => LInv'
<1> SUFFICES ASSUME HInv, PInv, LInv, [Next]_vars
             PROVE  LInv'
  OBVIOUS
<1>a. /\ TypeOK /\ HashOK
      /\ map = NoMap \/ IsMap(map)
      /\ out_map = NoMap \/ IsMap(out_map)
      /\ ret' # "panic"
  BY TypeMaps, KeyHashType, StepSpare DEF HInv, PInv, NoPanic
<1>b. /\ Idle => out_map = NoMap /\ arg = NoArg
      /\ ret = "running" => map # NoMap
      /\ Setting => arg # NoArg
      /\ Growing => /\ out_map.cap > map.cap
                    /\ out_map.count = map.count
                    /\ i <= map.cap
  BY DEF HInv
<1>c. /\ map # NoMap => Keyed(map) /\ Indexed(map, map.count)
      /\ arg # NoArg => arg.hash = key_hash[arg.key] /\ arg.key \in Key
                        /\ arg \in Entries
      /\ Growing => /\ Rebuilt(map, out_map, i)
                    /\ arg # NoArg => Fresh(map, arg.key)
  BY <1>a, ArgIsEntry DEF LInv, MapLooks, ArgHashed, OutLooks, Entries
<1>d. Setting /\ ~Present(arg) => Fresh(map, arg.key)
  <2> SUFFICES ASSUME Setting, ~Present(arg) PROVE Fresh(map, arg.key)
    OBVIOUS
  <2>1. IsMap(map) /\ Keyed(map) /\ Indexed(map, map.count) /\ arg.key \in Key
    BY <1>a, <1>b, <1>c DEF Setting
  <2>2. ~Found(map, arg.key)
    BY <1>b, <1>c DEF Present, Found
  <2> QED
    BY <1>a, <2>1, <2>2, AbsentIsFresh
<1>1. ASSUME NEW cap \in Caps, New(cap) PROVE LInv'
  <2> DEFINE n == NewMap(cap)
  <2>1. /\ IsMap(n) /\ n.count = 0
        /\ \A s \in Slots(n) : n.keys[s] = Zero
    BY NewMapIsMap, CapAssumption
  <2>2. /\ map' = n \/ map' = map
        /\ arg' = NoArg /\ key_hash' = key_hash /\ ~Growing'
    BY <1>1, <1>b DEF New, NoGrowth, Growing
  <2> HIDE DEF n
  <2>3. Keyed(n) /\ Indexed(n, n.count)
    BY <2>1 DEF Keyed, UnsetZero, Indexed
  <2>4. MapLooks'
    BY <2>2, <2>3, MapLooksAfter, MapLooksStays DEF LInv
  <2> QED
    BY <2>2, <2>4 DEF LInv, ArgHashed, OutLooks
<1>2. CASE FreeMap
  <2>1. map' = NoMap /\ arg' = NoArg /\ ~Growing'
    BY <1>2, <1>b DEF FreeMap, NoGrowth, Growing
  <2> QED
    BY <2>1 DEF LInv, MapLooks, ArgHashed, OutLooks
<1>3. ASSUME NEW e \in Entries, Set(e) PROVE LInv'
  <2>1. /\ map' = map /\ key_hash' = key_hash /\ ~Growing'
        /\ arg'.hash = key_hash[arg'.key]
    BY <1>3, <1>b DEF Set, NoGrowth, Growing, Hashes
  <2> QED
    BY <2>1, SameMaps
<1>4. CASE SetPresent
  <2> DEFINE b == GetBucket(map, arg.key, arg.hash)
             n == [map EXCEPT !.values[map.buckets[b]] = arg.value]
  <2>1. /\ IsMap(map) /\ map # NoMap /\ arg # NoArg
        /\ b # -1 /\ map.buckets[b] # Free
    BY <1>4, <1>a, <1>b DEF SetPresent, Setting, Present
  <2>2. map.buckets[b] \in Slots(map)
    BY <1>a, <2>1, ArgIsEntry, GetBucketType, MapFields
  <2>3. /\ n.cap = map.cap /\ n.count = map.count
        /\ n.buckets = map.buckets /\ n.keys = map.keys
    BY <1>a, <2>1, <2>2, ArgIsEntry, ValueSetIsMap
  <2>4. /\ map' = n /\ arg' = NoArg /\ key_hash' = key_hash /\ ~Growing'
    BY <1>4 DEF SetPresent, NoGrowth, Growing
  <2> HIDE DEF n
  <2>5. Keyed(n)
    BY <1>c, <2>1, <2>3 DEF Keyed, UnsetZero, Slots
  <2>6. Indexed(n, n.count)
    BY <1>c, <2>1, <2>3 DEF Indexed, Reachable, Slots, Probe
  <2>7. MapLooks'
    BY <2>4, <2>5, <2>6, MapLooksAfter
  <2> QED
    BY <2>4, <2>7 DEF LInv, ArgHashed, OutLooks
<1>5. CASE SetNew
  <2>1. /\ IsMap(map) /\ map # NoMap /\ arg # NoArg
        /\ map.count < map.cap - 1 /\ AddTo(map) /\ Fresh(map, arg.key)
        /\ key_hash' = key_hash /\ ~Growing' /\ arg' = NoArg
    BY <1>5, <1>a, <1>b, <1>d DEF SetNew, Setting, NoGrowth, AddTo, Growing
  <2>2. PICK n : map' = n /\ Keyed(n) /\ Indexed(n, n.count)
    BY <1>a, <1>c, <2>1, AddToKeeps
  <2>3. MapLooks'
    BY <2>1, <2>2, MapLooksAfter
  <2> QED
    BY <2>1, <2>3 DEF LInv, ArgHashed, OutLooks
<1>6. CASE SetGrowing
  <2>1. IsMap(map) /\ out_map = NoMap /\ BeginGrow(2) /\ Fresh(map, arg.key)
    BY <1>6, <1>a, <1>b, <1>d DEF SetGrowing, Setting
  <2> QED
    BY <2>1, BeginGrowLooks
<1>7. ASSUME NEW fit \in Fits, GrowUnneeded(fit) PROVE LInv'
  <2>1. /\ map' = map /\ key_hash' = key_hash /\ ~Growing' /\ arg' = NoArg
    BY <1>7, <1>b DEF GrowUnneeded, NoGrowth, Growing
  <2> QED
    BY <2>1, SameMaps
<1>8. ASSUME NEW fit \in Fits, Grow(fit) PROVE LInv'
  <2>1. /\ IsMap(map) /\ out_map = NoMap /\ BeginGrow(fit) /\ fit \in Nat
        /\ arg = NoArg
    BY <1>8, <1>a, <1>b, CapAssumption DEF Grow
  <2> QED
    BY <2>1, BeginGrowLooks
<1>9. CASE Reinsert
  <2> DEFINE k == out_map.keys[i]
             b == GetBucket(out_map, k, key_hash[k])
             n == [out_map EXCEPT !.buckets[b] = i]
  <2>1. /\ Growing /\ IsMap(out_map) /\ IsMap(map) /\ map # NoMap
        /\ out_map.cap > map.cap /\ i < map.cap /\ i' = i + 1 /\ map' = map
        /\ key_hash' = key_hash /\ arg' = arg
    BY <1>9, <1>a, <1>b DEF Reinsert, Growing
  <2>2. /\ i \in Nat /\ i \in Slots(map) /\ i \in Slots(out_map)
        /\ map.cap < out_map.cap
    BY <1>a, <2>1, MapFields DEF TypeOK
  <2>3. k \in AnyKey /\ key_hash[k] \in Nat /\ Hashes(k) = {key_hash[k]}
    BY <1>a, <2>1, <2>2, MapFields DEF Hashes, HashOK
  <2>4. b \in Slots(out_map) \union {-1}
    BY <2>1, <2>3, GetBucketType
  <2>5. out_map' = n /\ b # -1
    BY <1>9, <1>a, <2>3 DEF Reinsert
  <2> HIDE DEF b
  <2>6. b \in Slots(out_map) /\ b = GetBucket(out_map, k, key_hash[k])
    BY <2>4, <2>5 DEF b
  <2>7. Rebuilt(map, n, i + 1)
    BY <1>a, <1>c, <2>1, <2>2, <2>6, ReinsertRebuilds
  <2> HIDE DEF n
  <2>8. OutLooks'
    BY <1>c, <2>1, <2>5, <2>7, OutLooksAfter
  <2>9. MapLooks' /\ ArgHashed'
    BY <2>1, MapLooksStays DEF LInv, ArgHashed
  <2> QED
    BY <2>8, <2>9 DEF LInv
<1>10. CASE EndGrow
  <2>1. /\ Growing /\ IsMap(out_map) /\ IsMap(map)
        /\ out_map.cap > map.cap /\ out_map.count = map.count
        /\ i = map.cap /\ out_map' = NoMap /\ key_hash' = key_hash
        /\ ~Growing' /\ Rebuilt(map, out_map, i)
        /\ arg' = NoArg
    BY <1>10, <1>a, <1>b, <1>c DEF EndGrow, Growing, AddTo
  <2>2. out_map.count < out_map.cap - 1
    BY <2>1, MapFields
  <2>3. Keyed(out_map) /\ Indexed(out_map, out_map.count)
    <3>1. \A s \in 0..(map.count - 1) : s < i
      BY <2>1, MapFields
    <3> QED
      BY <2>1, <3>1 DEF Rebuilt, Indexed
  <2>4. CASE arg = NoArg
    <3>1. map' = out_map
      BY <1>10, <2>4 DEF EndGrow
    <3>2. MapLooks'
      BY <2>1, <2>3, <3>1, MapLooksAfter
    <3> QED
      BY <2>1, <3>2 DEF LInv, ArgHashed, OutLooks
  <2>5. CASE arg # NoArg
    <3>1. AddTo(out_map)
      BY <1>10, <2>5 DEF EndGrow
    <3>2. Fresh(out_map, arg.key)
      BY <1>c, <2>1, <2>5 DEF Fresh, Rebuilt, SameSlots
    <3>3. PICK n : map' = n /\ Keyed(n) /\ Indexed(n, n.count)
      BY <1>a, <1>c, <2>1, <2>2, <2>3, <2>5, <3>1, <3>2, AddToKeeps
    <3>4. MapLooks'
      BY <2>1, <3>3, MapLooksAfter
    <3> QED
      BY <2>1, <3>4 DEF LInv, ArgHashed, OutLooks
  <2> QED
    BY <2>4, <2>5
<1>11. CASE UNCHANGED vars
  <2>1. /\ map' = map /\ out_map' = out_map /\ i' = i /\ arg' = arg
        /\ key_hash' = key_hash /\ Growing' = Growing
    BY <1>11 DEF vars, Growing
  <2>2. CASE Growing
    <3>1. OutLooks'
      BY <1>c, <2>1, <2>2, OutLooksAfter
    <3> QED
      BY <2>1, <3>1, MapLooksStays DEF LInv, ArgHashed
  <2>3. CASE ~Growing
    BY <1>c, <2>1, <2>3, SameMaps
  <2> QED
    BY <2>2, <2>3
<1> QED
  BY <1>1, <1>2, <1>3, <1>4, <1>5, <1>6, <1>7, <1>8, <1>9, <1>10, <1>11
  DEF Next

\* What the invariant says of lookups.
LEMMA LooksAgree ==
    ASSUME HInv, LInv, Zero \notin Key
    PROVE  LookupAgrees
<1>1. TypeOK /\ HashOK /\ (map = NoMap \/ IsMap(map))
      /\ (out_map = NoMap \/ IsMap(out_map))
  BY TypeMaps, KeyHashType DEF HInv
<1>2. ASSUME map # NoMap PROVE IterationAgrees(map) /\ InternAgrees(map)
  <2>1. IsMap(map) /\ Keyed(map)
        /\ \A s \in 0..(map.count - 1) : Reachable(map, s)
    BY <1>1, <1>2 DEF LInv, MapLooks, Indexed
  <2>2. \A s \in 0..(map.count - 1) :
           Found(map, map.keys[s]) /\ SlotOf(map, map.keys[s]) = s
    BY <1>1, <2>1, ReachableIsFound
  <2>3. \A k \in Key : Found(map, k) =>
           SlotOf(map, k) \in 0..(map.count - 1) /\ map.keys[SlotOf(map, k)] = k
    BY <1>1, <2>1, FoundIsKeyed
  <2>4. IterationAgrees(map)
    BY <2>2, <2>3 DEF IterationAgrees
  <2>5. InternAgrees(map)
    BY <1>1, <2>1, ReachableIsInterned DEF InternAgrees
  <2> QED
    BY <2>4, <2>5
<1>3. ReinsertedFound
  <2> SUFFICES ASSUME Growing, NEW s \in 0..(i - 1), s < map.count
               PROVE  Found(out_map, map.keys[s])
                      /\ SlotOf(out_map, map.keys[s]) = s
    BY DEF ReinsertedFound
  <2>1. /\ IsMap(out_map) /\ map # NoMap /\ i \in Nat /\ IsMap(map)
        /\ Keyed(out_map) /\ SameSlots(map, out_map)
        /\ \A t \in 0..(map.count - 1) : t < i => Reachable(out_map, t)
    BY <1>1 DEF Growing, HInv, TypeOK, LInv, OutLooks, Rebuilt
  <2>2. s \in 0..(map.count - 1) /\ s < i
    BY <2>1, MapFields
  <2>3. /\ Reachable(out_map, s) /\ s \in 0..(out_map.count - 1)
        /\ out_map.keys[s] = map.keys[s]
    BY <2>1, <2>2 DEF SameSlots
  <2> QED
    BY <1>1, <2>1, <2>3, ReachableIsFound
<1> QED
  BY <1>2, <1>3 DEF LookupAgrees

\* Looking a key up, iterating over the map and looking up an interned key
\* agree, in every state and whatever grew in between, provided that keys are
\* hashed by their value and no key set is the zero key.
THEOREM LookupCorrect ==
    ASSUME ByAddress = FALSE, Zero \notin Key
    PROVE  Spec => []LookupAgrees
<1>1. HInv /\ PInv /\ LInv /\ [Next]_vars => (HInv /\ PInv /\ LInv)'
  BY StepInv, StepSpare, StepLooks
<1>2. HInv /\ LInv => LookupAgrees
  BY LooksAgree
<1> QED
  BY InitInv, InitSpare, InitLooks, <1>1, <1>2, PTL DEF Spec

-----------------------------------------------------------------------------
(* The dictionary.  A caller sees the slots in use: d is what lookups in m *)
(* show of them.                                                           *)

KeysIn(m) == {m.keys[s] : s \in 0..(m.count - 1)}
Described(m, d) ==
    /\ d = [k \in DOMAIN d |-> d[k]]
    /\ DOMAIN d = KeysIn(m)
    /\ \A s \in 0..(m.count - 1) : d[m.keys[s]] = m.values[s]

View == IF map = NoMap THEN Contents = Dictionary!Empty
                       ELSE Described(map, Contents)

LEMMA LooksView ==
    ASSUME Zero \notin Key
    PROVE  HInv /\ LInv => View
<1> SUFFICES ASSUME HInv, LInv PROVE View
  OBVIOUS
<1>1. CASE map = NoMap
  BY <1>1 DEF View, Contents, Dictionary!Empty
<1>2. CASE map # NoMap
  <2> DEFINE D == {k \in Key : Found(map, k)}
             d == [k \in D |-> map.values[SlotOf(map, k)]]
  <2>1. Contents = d
    BY <1>2 DEF Contents
  <2>2. IterationAgrees(map) /\ Keyed(map)
    BY <1>2, LooksAgree DEF LookupAgrees, LInv, MapLooks
  <2>3. D = KeysIn(map)
    BY <2>2 DEF IterationAgrees, Keyed, KeysIn
  <2>4. \A s \in 0..(map.count - 1) : d[map.keys[s]] = map.values[s]
    <3> TAKE s \in 0..(map.count - 1)
    <3>1. map.keys[s] \in D /\ map.keys[s] \in Key
      BY <2>3 DEF KeysIn
    <3>2. SlotOf(map, map.keys[s]) = s
      BY <2>2, <3>1 DEF IterationAgrees
    <3> QED
      BY <3>1, <3>2
  <2> HIDE DEF D
  <2>5. DOMAIN d = D /\ d = [k \in DOMAIN d |-> d[k]]
    OBVIOUS
  <2> HIDE DEF d
  <2>6. Described(map, d)
    BY <2>3, <2>4, <2>5 DEF Described
  <2> QED
    BY <1>2, <2>1, <2>6 DEF View
<1> QED
  BY <1>1, <1>2

Updated(d, k, v) ==
    [x \in DOMAIN d \union {k} |-> IF x = k THEN v ELSE d[x]]

\* n holds v in slot s, and otherwise what m does.
Changes(m, n, s, v) ==
    /\ n.count = m.count /\ n.keys = m.keys /\ n.values[s] = v
    /\ \A t \in 0..(m.count - 1) : t # s => n.values[t] = m.values[t]

LEMMA SameContents ==
    ASSUME NEW m, NEW n, SameSlots(m, n),
           NEW d, Described(m, d), NEW e, Described(n, e)
    PROVE  e = d
<1>1. KeysIn(n) = KeysIn(m)
  BY DEF SameSlots, KeysIn
<1>2. DOMAIN e = DOMAIN d
  BY <1>1 DEF Described
<1>3. ASSUME NEW k \in DOMAIN d PROVE e[k] = d[k]
  <2>1. PICK s \in 0..(m.count - 1) : k = m.keys[s]
    BY <1>3 DEF Described, KeysIn
  <2> QED
    BY <2>1 DEF Described, SameSlots
<1> QED
  BY <1>2, <1>3 DEF Described

LEMMA NoContents ==
    ASSUME NEW m, m.count = 0, NEW d, Described(m, d)
    PROVE  d = Dictionary!Empty
<1>1. DOMAIN d = {}
  BY DEF Described, KeysIn
<1> QED
  BY <1>1 DEF Described, Dictionary!Empty

LEMMA AddedContents ==
    ASSUME NEW m, NEW n, NEW k, NEW v, m.count \in Nat,
           Gains(m, n, k, v), Fresh(m, k),
           NEW d, Described(m, d), NEW e, Described(n, e)
    PROVE  e = Updated(d, k, v)
<1>0. /\ n.count = m.count + 1
      /\ n.keys[m.count] = k /\ n.values[m.count] = v
      /\ \A s \in 0..(m.count - 1) :
            n.keys[s] = m.keys[s] /\ n.values[s] = m.values[s]
  BY DEF Gains
<1>1. 0..(n.count - 1) = 0..(m.count - 1) \union {m.count}
  BY <1>0
<1>2. DOMAIN e = DOMAIN d \union {k}
  BY <1>0, <1>1 DEF Described, KeysIn
<1>3. ASSUME NEW x \in DOMAIN e PROVE e[x] = IF x = k THEN v ELSE d[x]
  <2>1. PICK s \in 0..(n.count - 1) : x = n.keys[s]
    BY <1>3 DEF Described, KeysIn
  <2>2. e[x] = n.values[s]
    BY <2>1 DEF Described
  <2>3. CASE s = m.count
    BY <1>0, <2>1, <2>2, <2>3
  <2>4. CASE s \in 0..(m.count - 1)
    <3>1. x = m.keys[s] /\ n.values[s] = m.values[s] /\ x # k
      BY <1>0, <2>1, <2>4 DEF Fresh
    <3>2. d[x] = m.values[s]
      BY <2>4, <3>1 DEF Described
    <3> QED
      BY <2>2, <3>1, <3>2
  <2> QED
    BY <1>1, <2>3, <2>4
<1> QED
  BY <1>2, <1>3 DEF Described, Updated

LEMMA ChangedContents ==
    ASSUME NEW m, NEW n, NEW s \in 0..(m.count - 1), NEW v, Keyed(m),
           Changes(m, n, s, v),
           NEW d, Described(m, d), NEW e, Described(n, e)
    PROVE  e = Updated(d, m.keys[s], v)
<1> DEFINE k == m.keys[s]
<1>1. DOMAIN e = DOMAIN d /\ k \in DOMAIN d
  BY DEF Described, KeysIn, Changes
<1>2. ASSUME NEW x \in DOMAIN d PROVE e[x] = IF x = k THEN v ELSE d[x]
  <2>1. PICK t \in 0..(m.count - 1) : x = m.keys[t]
    BY <1>2 DEF Described, KeysIn
  <2>2. e[x] = n.values[t] /\ d[x] = m.values[t]
    BY <2>1 DEF Described, Changes
  <2>3. x = k <=> t = s
    BY <2>1 DEF Keyed
  <2> QED
    BY <2>2, <2>3 DEF Changes
<1>3. DOMAIN e = DOMAIN d \union {k}
  BY <1>1
<1> HIDE DEF k
<1>4. e = [x \in DOMAIN d \union {k} |-> IF x = k THEN v ELSE d[x]]
  BY <1>1, <1>2, <1>3 DEF Described
<1> QED
  BY <1>4 DEF k, Updated

LEMMA PendingIs ==
    TypeOK => /\ arg = NoArg => Pending = NoArg
              /\ arg # NoArg => /\ Pending # NoArg
                                /\ Pending \in Dictionary!Entry
                                /\ Pending.key = arg.key
                                /\ Pending.value = arg.value
<1>1. ASSUME TypeOK, arg # NoArg
      PROVE  /\ Pending \in Dictionary!Entry
             /\ Pending = [key |-> arg.key, value |-> arg.value]
  BY <1>1, ArgIsEntry DEF Pending, Dictionary!Entry, Entries
<1> QED
  BY <1>1, NoneAssumption DEF Pending, Dictionary!Entry

\* A step in which neither the map nor the set under way changes what a
\* caller sees of them.
LEMMA SameView ==
    ASSUME View, View', map' = map
    PROVE  Contents' = Contents
<1>1. CASE map = NoMap
  BY <1>1 DEF View, Dictionary!Empty
<1>2. CASE map # NoMap
  <2>1. Described(map, Contents) /\ Described(map, Contents')
    BY <1>2 DEF View
  <2>2. SameSlots(map, map)
    BY DEF SameSlots
  <2> HIDE DEF Contents
  <2> QED
    BY <2>1, <2>2, SameContents
<1> QED
  BY <1>1, <1>2

\* The end of hashmap_add_key_val is the dictionary's set.
LEMMA AddToRefines ==
    ASSUME TypeOK, arg # NoArg, NEW m, IsMap(m), m.count < m.cap - 1,
           arg.hash = key_hash[arg.key], Zero \notin Key,
           Keyed(m), Indexed(m, m.count), Fresh(m, arg.key), AddTo(m),
           ret' # "panic", Described(m, Contents), View'
    PROVE  /\ Contents' = Updated(Contents, arg.key, arg.value)
           /\ ret' = "OK" /\ arg' = NoArg
<1>1. PICK n : /\ map' = n
               /\ IsMap(n) /\ Keyed(n) /\ Indexed(n, n.count)
               /\ Gains(m, n, arg.key, arg.value)
  BY AddToKeeps
<1>2. ret' = "OK" /\ arg' = NoArg
  BY DEF AddTo
<1>3. n # NoMap /\ m.count \in Nat
  BY <1>1, MapFields
<1>4. Described(n, Contents')
  BY <1>1, <1>3 DEF View
<1> HIDE DEF Contents
<1>5. Fresh(m, arg.key) /\ Described(m, Contents)
  OBVIOUS
<1>6. Contents' = Updated(Contents, arg.key, arg.value)
  BY <1>1, <1>3, <1>4, <1>5, AddedContents
<1> QED
  BY <1>2, <1>6

LEMMA StepRefines ==
    ASSUME ByAddress = FALSE, Zero \notin Key
    PROVE  HInv /\ PInv /\ LInv /\ View /\ HInv' /\ View' /\ [Next]_vars
              => [Dictionary!Next]_(Dictionary!vars)
<1> SUFFICES ASSUME HInv, PInv, LInv, View, HInv', View', [Next]_vars
             PROVE  [Dictionary!Next]_(Dictionary!vars)
  OBVIOUS
<1>a. /\ TypeOK /\ TypeOK' /\ HashOK
      /\ map = NoMap \/ IsMap(map)
      /\ out_map = NoMap \/ IsMap(out_map)
      /\ ret' # "panic"
  BY TypeMaps, KeyHashType, StepSpare DEF HInv, PInv, NoPanic
<1>b. /\ Idle => out_map = NoMap /\ arg = NoArg
      /\ ret = "running" => map # NoMap
      /\ Setting => arg # NoArg
      /\ Growing => /\ out_map.cap > map.cap
                    /\ out_map.count = map.count
                    /\ i <= map.cap
  BY DEF HInv
<1>c. /\ map # NoMap => Keyed(map) /\ Indexed(map, map.count)
      /\ arg # NoArg => arg.hash = key_hash[arg.key] /\ arg.key \in Key
                        /\ arg \in Entries
      /\ Growing => /\ Rebuilt(map, out_map, i)
                    /\ arg # NoArg => Fresh(map, arg.key)
  BY <1>a, ArgIsEntry DEF LInv, MapLooks, ArgHashed, OutLooks, Entries
<1>d. Setting /\ ~Present(arg) => Fresh(map, arg.key)
  <2> SUFFICES ASSUME Setting, ~Present(arg) PROVE Fresh(map, arg.key)
    OBVIOUS
  <2>1. IsMap(map) /\ Keyed(map) /\ Indexed(map, map.count) /\ arg.key \in Key
    BY <1>a, <1>b, <1>c DEF Setting
  <2>2. ~Found(map, arg.key)
    BY <1>b, <1>c DEF Present, Found
  <2> QED
    BY <1>a, <2>1, <2>2, AbsentIsFresh
<1>e. /\ arg = NoArg => Pending = NoArg
      /\ arg # NoArg => /\ Pending # NoArg
                        /\ Pending.key = arg.key /\ Pending.value = arg.value
  BY <1>a, PendingIs
<1>f. /\ arg' = NoArg => Pending' = NoArg
      /\ arg' = arg => Pending' = Pending
      /\ \A e \in Entries : arg' = e => Pending' \in Dictionary!Entry
  BY NoneAssumption DEF Pending, Dictionary!Entry, Entries
<1>g. map' = map => Contents' = Contents
  BY SameView
<1> HIDE DEF Contents, Pending
<1>1. ASSUME NEW cap \in Caps, New(cap)
      PROVE  Dictionary!Clear \/ Dictionary!Grow
  <2> DEFINE n == NewMap(cap)
  <2>1. IsMap(n) /\ n.count = 0 /\ n # NoMap
    BY NewMapIsMap, CapAssumption, MapFields
  <2>2. arg = NoArg /\ arg' = NoArg
    BY <1>1, <1>b DEF New
  <2> HIDE DEF n
  <2>3. CASE map' = n /\ ret' = "OK"
    <3>1. Described(n, Contents')
      BY <2>1, <2>3 DEF View
    <3>2. Contents' = Dictionary!Empty
      BY <2>1, <3>1, NoContents
    <3> QED
      BY <1>e, <1>f, <2>2, <2>3, <3>2 DEF Dictionary!Clear
  <2>4. CASE map' = map /\ ret' = "MEM_ALLOC"
    BY <1>e, <1>f, <1>g, <2>2, <2>4 DEF Dictionary!Grow
  <2> QED
    BY <1>1, <2>3, <2>4 DEF New, n
<1>2. CASE FreeMap
  <2>1. arg = NoArg /\ arg' = NoArg /\ ret' = "OK" /\ map' = NoMap
    BY <1>2, <1>b DEF FreeMap
  <2>2. Contents' = Dictionary!Empty
    BY <2>1 DEF View
  <2>3. Dictionary!Clear
    BY <1>e, <1>f, <2>1, <2>2 DEF Dictionary!Clear
  <2> QED
    BY <2>3 DEF Dictionary!Next
<1>3. ASSUME NEW e \in Entries, Set(e)
      PROVE  Dictionary!Begin(Pending') /\ Pending' \in Dictionary!Entry
  <2>1. map' = map /\ ret' = "running" /\ ret # "running" /\ arg' = e
    BY <1>3 DEF Set, Idle
  <2> QED
    BY <1>f, <1>g, <2>1 DEF Dictionary!Begin
<1>4. CASE SetPresent
  <2> DEFINE b == GetBucket(map, arg.key, arg.hash)
             s == map.buckets[b]
             n == [map EXCEPT !.values[s] = arg.value]
  <2>1. /\ IsMap(map) /\ map # NoMap /\ arg # NoArg
        /\ b # -1 /\ map.buckets[b] # Free
    BY <1>4, <1>a, <1>b DEF SetPresent, Setting, Present
  <2>2. s \in 0..(map.count - 1) /\ map.keys[s] = arg.key
    <3>1. Found(map, arg.key) /\ SlotOf(map, arg.key) = s
      BY <1>c, <2>1 DEF Found, SlotOf
    <3> QED
      BY <1>a, <1>c, <2>1, <3>1, FoundIsKeyed
  <2>3. map' = n /\ arg' = NoArg /\ ret' = "OK"
    BY <1>4 DEF SetPresent
  <2> HIDE DEF s
  <2>4. s \in Slots(map) /\ arg.value \in Value
    BY <1>a, <2>1, <2>2, CountSlots, ArgIsEntry
  <2>5. /\ IsMap(n) /\ n.count = map.count /\ n.keys = map.keys
    BY <2>1, <2>4, ValueSetIsMap
  <2>6. n.values = [map.values EXCEPT ![s] = arg.value]
    OBVIOUS
  <2> HIDE DEF n
  <2>7. /\ n.values[s] = arg.value
        /\ \A t \in 0..(map.count - 1) : t # s => n.values[t] = map.values[t]
    BY <2>1, <2>4, <2>6, MapFields, CountSlots
  <2>8. Described(map, Contents) /\ Described(n, Contents')
    BY <2>1, <2>3, <2>5, MapFields DEF View
  <2>9. Contents' = Updated(Contents, map.keys[s], arg.value)
    <3>1. Changes(map, n, s, arg.value)
      BY <2>5, <2>7 DEF Changes
    <3> QED
      BY <1>c, <2>1, <2>2, <2>8, <3>1, ChangedContents
  <2>10. Dictionary!Set
    BY <1>e, <1>f, <2>1, <2>2, <2>3, <2>9 DEF Dictionary!Set, Updated
  <2> QED
    BY <2>10 DEF Dictionary!Next
<1>5. CASE SetNew
  <2>1. /\ IsMap(map) /\ map # NoMap /\ arg # NoArg
        /\ map.count < map.cap - 1 /\ AddTo(map) /\ Fresh(map, arg.key)
        /\ Described(map, Contents)
    BY <1>5, <1>a, <1>b, <1>d DEF SetNew, Setting, View
  <2>2. /\ Contents' = Updated(Contents, arg.key, arg.value)
        /\ ret' = "OK" /\ arg' = NoArg
    BY <1>a, <1>c, <2>1, AddToRefines
  <2>3. Dictionary!Set
    BY <1>e, <1>f, <2>1, <2>2 DEF Dictionary!Set, Updated
  <2> QED
    BY <2>3 DEF Dictionary!Next
<1>6. CASE SetGrowing
  <2>1. /\ map # NoMap /\ arg # NoArg /\ BeginGrow(2) /\ Fresh(map, arg.key)
        /\ ret = "running" /\ map' = map
    BY <1>6, <1>b, <1>d DEF SetGrowing, Setting, BeginGrow
  <2>2. CASE ret' = "running" /\ arg' = arg
    BY <1>f, <1>g, <2>1, <2>2 DEF Dictionary!vars
  <2>3. CASE ret' = "MEM_ALLOC" /\ arg' = NoArg
    <3>1. arg.key \notin DOMAIN Contents
      BY <2>1 DEF View, Described, KeysIn, Fresh
    <3>2. Dictionary!Refuse
      BY <1>e, <1>f, <1>g, <2>1, <2>3, <3>1 DEF Dictionary!Refuse
    <3> QED
      BY <3>2 DEF Dictionary!Next
  <2> QED
    BY <2>1, <2>2, <2>3 DEF BeginGrow
<1>7. ASSUME NEW fit \in Fits, GrowUnneeded(fit) PROVE Dictionary!Grow
  <2>1. map' = map /\ arg = NoArg /\ arg' = NoArg /\ ret' = "OK"
    BY <1>7, <1>b DEF GrowUnneeded
  <2> QED
    BY <1>e, <1>f, <1>g, <2>1 DEF Dictionary!Grow
<1>8. ASSUME NEW fit \in Fits, Grow(fit) PROVE Dictionary!Grow
  <2>1. /\ map' = map /\ arg = NoArg /\ arg' = NoArg
        /\ ret' \in {"running", "MEM_ALLOC"}
    BY <1>8, <1>b DEF Grow, BeginGrow
  <2> QED
    BY <1>e, <1>f, <1>g, <2>1 DEF Dictionary!Grow
<1>9. CASE Reinsert
  <2>1. map' = map /\ arg' = arg /\ ret' = ret
    BY <1>9, <1>a DEF Reinsert
  <2> QED
    BY <1>f, <1>g, <2>1 DEF Dictionary!vars
<1>10. CASE EndGrow
  <2>1. /\ Growing /\ IsMap(out_map) /\ IsMap(map) /\ map # NoMap
        /\ out_map.cap > map.cap /\ out_map.count = map.count
        /\ i = map.cap /\ Rebuilt(map, out_map, i)
    BY <1>10, <1>a, <1>b, <1>c DEF EndGrow, Growing
  <2>2. /\ out_map.count < out_map.cap - 1 /\ out_map # NoMap
        /\ map.count \in Nat
    BY <2>1, MapFields
  <2>3. Keyed(out_map) /\ Indexed(out_map, out_map.count)
        /\ SameSlots(map, out_map)
    <3>1. \A s \in 0..(map.count - 1) : s < i
      BY <2>1, MapFields
    <3> QED
      BY <2>1, <3>1 DEF Rebuilt, Indexed
  <2>4. Described(map, Contents)
    BY <2>1 DEF View
  <2>5. CASE arg = NoArg
    <3>1. map' = out_map /\ ret' = "OK" /\ arg' = NoArg
      BY <1>10, <2>5 DEF EndGrow
    <3>2. Described(out_map, Contents')
      BY <2>2, <3>1 DEF View
    <3>3. Contents' = Contents
      BY <2>3, <2>4, <3>2, SameContents
    <3>4. Dictionary!Grow
      BY <1>e, <1>f, <2>5, <3>1, <3>3 DEF Dictionary!Grow
    <3> QED
      BY <3>4 DEF Dictionary!Next
  <2>6. CASE arg # NoArg
    <3>1. AddTo(out_map)
      BY <1>10, <2>6 DEF EndGrow
    <3>2. Fresh(out_map, arg.key)
      BY <1>c, <2>1, <2>6 DEF Fresh, Rebuilt, SameSlots
    <3>3. Described(out_map, Contents)
      <4>1. KeysIn(out_map) = KeysIn(map)
        BY <2>3 DEF KeysIn, SameSlots
      <4> QED
        BY <2>3, <2>4, <4>1 DEF Described, SameSlots
    <3>4. /\ Contents' = Updated(Contents, arg.key, arg.value)
          /\ ret' = "OK" /\ arg' = NoArg
      BY <1>a, <1>c, <2>1, <2>2, <2>3, <2>6, <3>1, <3>2, <3>3, AddToRefines
    <3>5. Dictionary!Set
      BY <1>e, <1>f, <2>6, <3>4 DEF Dictionary!Set, Updated
    <3> QED
      BY <3>5 DEF Dictionary!Next
  <2> QED
    BY <2>5, <2>6
<1>11. CASE UNCHANGED vars
  BY <1>11, <1>f, <1>g DEF vars, Dictionary!vars
<1> QED
  BY <1>1, <1>2, <1>3, <1>4, <1>5, <1>6, <1>7, <1>8, <1>9, <1>10, <1>11
  DEF Next, Dictionary!Next

LEMMA InitRefines == Init => Dictionary!Init
BY DEF Init, Dictionary!Init, Contents, Pending, Dictionary!Empty

\* The hash map implements a dictionary: a set changes its key and nothing
\* else, growing and failed allocations change nothing, and only a set of a
\* new key can be refused.
THEOREM DictionaryCorrect ==
    ASSUME ByAddress = FALSE, Zero \notin Key
    PROVE  Spec => IsDictionary
<1>1. HInv /\ PInv /\ LInv /\ [Next]_vars => (HInv /\ PInv /\ LInv)'
  BY StepInv, StepSpare, StepLooks
<1>2. HInv /\ LInv => View
  BY LooksView
<1>3. HInv /\ PInv /\ LInv /\ View /\ HInv' /\ View' /\ [Next]_vars
         => [Dictionary!Next]_(Dictionary!vars)
  BY StepRefines
<1> QED
  BY InitInv, InitSpare, InitLooks, InitRefines, <1>1, <1>2, <1>3, PTL
  DEF Spec, IsDictionary, Dictionary!Spec

-----------------------------------------------------------------------------
(* The pointer a caller keeps from hashmap_get.                            *)

HeldInv ==
    held # NoPointer =>
        /\ map # NoMap
        /\ held.slot \in 0..(map.count - 1)
        /\ held.key \in Key /\ map.keys[held.slot] = held.key

\* The room that was asked for and not used is there: in the map, or in the one
\* that is about to replace it.
RoomInv ==
    /\ room \in Nat
    /\ map = NoMap => room = 0
    /\ map # NoMap /\ room > 0 =>
          IF out_map = NoMap THEN map.count + room < map.cap
          ELSE arg = NoArg /\ map.count + room < out_map.cap

\* Whatever the caller does with the pointer, the map makes a step of its own.
LEMMA PointerSteps == [PointerNext]_pointerVars => [Next]_vars
<1> SUFFICES ASSUME [PointerNext]_pointerVars
             PROVE  [Next]_vars
  OBVIOUS
<1>1. ASSUME NEW k \in Key, Get(k) PROVE UNCHANGED vars
  BY <1>1 DEF Get
<1>2. CASE Forget
  BY <1>2 DEF Forget
<1>3. ASSUME NEW e \in Entries, SetValue(e) \/ SetOwn(e) PROVE Next
  <2>1. Set(e)
    BY <1>3 DEF SetValue, SetOwn
  <2> QED
    BY <2>1 DEF Next
<1>4. CASE InPlace
  BY <1>4 DEF InPlace, Next
<1>5. CASE TakeRoom
  BY <1>5 DEF TakeRoom, Next
<1>6. ASSUME NEW fit \in Fits, AskRoom(fit) PROVE Next
  BY <1>6 DEF AskRoom, Next
<1>7. CASE Freeing
  BY <1>7 DEF Freeing, Next
<1>8. CASE ReadFreed
  BY <1>8 DEF ReadFreed
<1>9. CASE UNCHANGED pointerVars
  BY <1>9 DEF pointerVars
<1> QED
  BY <1>1, <1>2, <1>3, <1>4, <1>5, <1>6, <1>7, <1>8, <1>9 DEF PointerNext

\* No step but those that free the block moves a slot.
Kept == /\ map' # NoMap
        /\ \A s \in 0..(map.count - 1) :
              s \in 0..(map'.count - 1) /\ map'.keys[s] = map.keys[s]

LEMMA HeldAfter ==
    ASSUME HeldInv, held' = held, Kept
    PROVE  HeldInv'
BY DEF HeldInv, Kept

LEMMA SetKeeps ==
    ASSUME HInv, PInv, LInv, ByAddress = FALSE, Zero \notin Key, HInv', PInv',
           map # NoMap, SetPresent \/ SetNew
    PROVE  Kept
<1>1. TypeOK /\ IsMap(map) /\ arg # NoArg /\ HashOK /\ map.count \in Nat
  BY TypeMaps, KeyHashType, MapFields DEF HInv, SetPresent, SetNew
<1>2. CASE SetPresent
  <2> DEFINE b == GetBucket(map, arg.key, arg.hash)
             n == [map EXCEPT !.values[map.buckets[b]] = arg.value]
  <2>1. b # -1 /\ map.buckets[b] # Free /\ map' = n
    BY <1>2 DEF SetPresent, Present
  <2>2. map.buckets[b] \in Slots(map)
    BY <1>1, <2>1, ArgIsEntry, GetBucketType, MapFields
  <2>3. IsMap(n) /\ n.count = map.count /\ n.keys = map.keys
    BY <1>1, <2>2, ArgIsEntry, ValueSetIsMap
  <2> HIDE DEF n
  <2> QED
    BY <2>1, <2>3, MapFields DEF Kept
<1>3. CASE SetNew
  <2>1. map.count < map.cap - 1 /\ AddTo(map) /\ ~Present(arg)
    BY <1>3 DEF SetNew
  <2>2. /\ Keyed(map) /\ Indexed(map, map.count)
        /\ arg.hash = key_hash[arg.key] /\ arg.key \in Key
    BY <1>1, ArgIsEntry DEF LInv, MapLooks, ArgHashed, Entries
  <2>3. Fresh(map, arg.key)
    <3>1. ~Found(map, arg.key)
      BY <2>1, <2>2 DEF Present, Found
    <3> QED
      BY <1>1, <2>2, <3>1, AbsentIsFresh
  <2>4. ret' # "panic"
    BY DEF PInv, NoPanic
  <2>5. PICK n : map' = n /\ IsMap(n) /\ Gains(map, n, arg.key, arg.value)
    BY <1>1, <2>1, <2>2, <2>3, <2>4, AddToKeeps
  <2> QED
    BY <1>1, <2>5, MapFields DEF Kept, Gains
<1> QED
  BY <1>2, <1>3

LEMMA StepHeld ==
    ASSUME ByAddress = FALSE, Zero \notin Key
    PROVE  HInv /\ PInv /\ LInv /\ HeldInv /\ HInv' /\ PInv'
              /\ [PointerNext]_pointerVars => HeldInv'
<1> SUFFICES ASSUME HInv, PInv, LInv, HeldInv, HInv', PInv',
                    [PointerNext]_pointerVars
             PROVE  HeldInv'
  OBVIOUS
<1>a. TypeOK /\ (map = NoMap \/ IsMap(map)) /\ HashOK
  BY TypeMaps, KeyHashType DEF HInv
<1>b. map' = map /\ map # NoMap => Kept
  BY <1>a, MapFields DEF Kept
<1>1. ASSUME NEW k \in Key, Get(k) PROVE HeldInv'
  <2>1. /\ map' = map /\ map # NoMap /\ Found(map, k)
        /\ held' = [key |-> k, slot |-> SlotOf(map, k)]
    BY <1>1 DEF Get, vars
  <2>2. /\ SlotOf(map, k) \in 0..(map.count - 1)
        /\ map.keys[SlotOf(map, k)] = k
    BY <1>a, <2>1, FoundIsKeyed DEF LInv, MapLooks
  <2> HIDE DEF SlotOf
  <2> QED
    BY <2>1, <2>2 DEF HeldInv
<1>2. CASE Forget
  BY <1>2 DEF Forget, HeldInv
<1>3. ASSUME NEW e \in Entries, SetValue(e) \/ SetOwn(e) PROVE HeldInv'
  <2>1. map' = map /\ map # NoMap /\ held' = held
    BY <1>3 DEF SetValue, SetOwn, Set
  <2> QED
    BY <1>b, <2>1, HeldAfter
<1>4. CASE InPlace
  <2>1. held' = held
    BY <1>4 DEF InPlace
  <2>2. ASSUME NEW cap \in Caps, New(cap) PROVE HeldInv'
    <3>1. map = NoMap
      BY <2>2 DEF New
    <3> QED
      BY <2>1, <3>1 DEF HeldInv
  <2>3. CASE SetPresent
    <3>1. map # NoMap
      BY <2>3 DEF SetPresent, Setting, HInv
    <3> QED
      BY <2>1, <2>3, <3>1, SetKeeps, HeldAfter
  <2>4. CASE SetGrowing \/ Reinsert
    <3>1. map' = map /\ map # NoMap
      BY <2>4 DEF SetGrowing, Setting, BeginGrow, Reinsert, Growing, HInv
    <3> QED
      BY <1>b, <2>1, <3>1, HeldAfter
  <2> QED
    BY <1>4, <2>2, <2>3, <2>4 DEF InPlace
<1>5. CASE TakeRoom
  <2>1. map # NoMap /\ held' = held /\ SetNew
    BY <1>5 DEF TakeRoom, SetNew, Setting, HInv
  <2> QED
    BY <2>1, SetKeeps, HeldAfter
<1>6. ASSUME NEW fit \in Fits, AskRoom(fit) PROVE HeldInv'
  <2>1. map' = map /\ map # NoMap /\ held' = held
    BY <1>6 DEF AskRoom, GrowUnneeded, Grow, BeginGrow
  <2> QED
    BY <1>b, <2>1, HeldAfter
<1>7. CASE Freeing
  BY <1>7 DEF Freeing, HeldInv
<1>8. CASE ReadFreed
  BY <1>8 DEF ReadFreed, vars, HeldInv
<1>9. CASE UNCHANGED pointerVars
  BY <1>9 DEF pointerVars, vars, HeldInv
<1> QED
  BY <1>1, <1>2, <1>3, <1>4, <1>5, <1>6, <1>7, <1>8, <1>9 DEF PointerNext

LEMMA AlwaysHeld ==
    ASSUME ByAddress = FALSE, Zero \notin Key
    PROVE  PointerSpec => [](HInv /\ PInv /\ LInv /\ HeldInv)
<1>1. PointerInit => HInv /\ PInv /\ LInv /\ HeldInv
  BY InitInv, InitSpare, InitLooks DEF PointerInit, HeldInv
<1>2. HInv /\ PInv /\ LInv /\ [PointerNext]_pointerVars
         => (HInv /\ PInv /\ LInv)'
  BY PointerSteps, StepInv, StepSpare, StepLooks
<1>3. HInv /\ PInv /\ LInv /\ HeldInv /\ HInv' /\ PInv'
         /\ [PointerNext]_pointerVars => HeldInv'
  BY StepHeld
<1> QED
  BY <1>1, <1>2, <1>3, PTL DEF PointerSpec

\* A pointer from hashmap_get stays a pointer to its key's value until the
\* map grows or is freed, whatever keys are set and whatever fails.
THEOREM PointerCorrect ==
    ASSUME ByAddress = FALSE, Zero \notin Key
    PROVE  PointerSpec => []PointerIsCurrent
<1>1. HInv /\ LInv /\ HeldInv => PointerIsCurrent
  <2> SUFFICES ASSUME HInv, LInv, HeldInv, held # NoPointer
               PROVE  /\ map # NoMap
                      /\ Found(map, held.key)
                      /\ SlotOf(map, held.key) = held.slot
    BY DEF PointerIsCurrent
  <2>1. /\ map # NoMap /\ held.slot \in 0..(map.count - 1)
        /\ held.key \in Key /\ map.keys[held.slot] = held.key
    BY DEF HeldInv
  <2>2. LookupAgrees
    BY LooksAgree
  <2> QED
    BY <2>1, <2>2 DEF LookupAgrees, IterationAgrees
<1> QED
  BY AlwaysHeld, <1>1, PTL

-----------------------------------------------------------------------------
(* The room a program has asked for.                                       *)

\* What a set of a key does to the number of keys and to the capacity.
LEMMA SetCounts ==
    ASSUME HInv, SetPresent \/ SetNew
    PROVE  /\ IsMap(map) /\ IsMap(map') /\ map'.cap = map.cap
           /\ out_map = NoMap /\ out_map' = NoMap
           /\ SetPresent => map'.count = map.count
           /\ map'.count <= map.count + 1
<1>1. /\ TypeOK /\ IsMap(map) /\ arg # NoArg
      /\ out_map = NoMap /\ out_map' = NoMap
  BY TypeMaps DEF HInv, SetPresent, SetNew, Setting, NoGrowth
<1>2. map.count \in Nat
  BY <1>1, MapFields
<1> DEFINE b == GetBucket(map, arg.key, arg.hash)
<1>3. b \in Slots(map) \union {-1}
  BY <1>1, ArgIsEntry, GetBucketType
<1>4. CASE SetPresent
  <2> DEFINE n == [map EXCEPT !.values[map.buckets[b]] = arg.value]
  <2>1. b # -1 /\ map.buckets[b] # Free /\ map' = n
    BY <1>4 DEF SetPresent, Present
  <2>2. map.buckets[b] \in Slots(map)
    BY <1>1, <1>3, <2>1, MapFields
  <2>3. IsMap(n) /\ n.count = map.count /\ n.cap = map.cap
    BY <1>1, <2>2, ArgIsEntry, ValueSetIsMap
  <2> HIDE DEF n
  <2> QED
    BY <1>1, <1>2, <2>1, <2>3
<1>5. CASE SetNew /\ ~SetPresent
  <2>1. map.count < map.cap - 1 /\ AddTo(map)
    BY <1>5 DEF SetNew
  <2>2. CASE b = -1
    <3>1. map' = map
      BY <2>1, <2>2 DEF AddTo
    <3> QED
      BY <1>1, <1>2, <1>5, <3>1
  <2>3. CASE b # -1
    <3>1. map' = Added(map, b, arg)
      BY <2>1, <2>3 DEF AddTo
    <3>2. /\ IsMap(Added(map, b, arg))
          /\ Added(map, b, arg).cap = map.cap
          /\ Added(map, b, arg).count = map.count + 1
      BY <1>1, <1>3, <2>1, <2>3, ArgIsEntry, AddedIsMap
    <3> QED
      BY <1>1, <1>2, <1>5, <3>1, <3>2
  <2> QED
    BY <2>2, <2>3
<1> QED
  BY <1>4, <1>5

\* A growth the program asks for has room for what it asked, the bucket that
\* the load limit keeps free besides.
LEMMA AskedRoom ==
    ASSUME HInv, RoomInv, NEW fit \in Fits, AskRoom(fit)
    PROVE  RoomInv'
<1>1. /\ map # NoMap /\ IsMap(map) /\ out_map = NoMap /\ map' = map
      /\ arg = NoArg /\ fit \in Nat /\ room \in Nat
  BY TypeMaps, CapAssumption
  DEF AskRoom, GrowUnneeded, Grow, BeginGrow, HInv, RoomInv
<1>2. /\ map.cap \in Nat \ {0} /\ map.count \in Nat /\ map.count <= map.cap - 1
      /\ room > 0 => map.count + room < map.cap
  BY <1>1, MapFields DEF RoomInv
<1>3. /\ room' = IF ret' # "MEM_ALLOC" /\ room < fit THEN fit ELSE room
      /\ room' \in Nat
  BY <1>1 DEF AskRoom
<1>4. CASE GrowUnneeded(fit)
  <2>1. out_map' = NoMap /\ map.cap - map.count > fit
    BY <1>1, <1>4 DEF GrowUnneeded, NoGrowth
  <2>2. room' > 0 => map.count + room' < map.cap
    BY <1>1, <1>2, <1>3, <2>1
  <2> QED
    BY <1>1, <1>3, <2>1, <2>2 DEF RoomInv
<1>5. CASE Grow(fit) /\ ret' = "MEM_ALLOC"
  <2>1. out_map' = NoMap /\ room' = room
    BY <1>1, <1>3, <1>5 DEF Grow, BeginGrow
  <2> QED
    BY <1>1, <1>2, <2>1 DEF RoomInv
<1>6. CASE Grow(fit) /\ ret' # "MEM_ALLOC"
  <2>1. /\ out_map' = Extended(map, NewCap(map, fit)) /\ arg' = NoArg
        /\ NewCap(map, fit) <= MaxCap
    BY <1>1, <1>6 DEF Grow, BeginGrow
  <2>2. /\ NewCap(map, fit) \in Nat /\ NewCap(map, fit) >= map.cap + fit
        /\ NewCap(map, fit) > map.cap
    BY <1>1, <1>2 DEF NewCap
  <2>3. out_map'.cap = NewCap(map, fit) /\ out_map' # NoMap
    <3>1. NewCap(map, fit) \in 1..MaxCap
      BY <1>2, <2>1, <2>2, CapAssumption
    <3>2. /\ IsMap(Extended(map, NewCap(map, fit)))
          /\ Extended(map, NewCap(map, fit)).cap = NewCap(map, fit)
      BY <1>1, <2>2, <3>1, ExtendedIsMap
    <3> QED
      BY <2>1, <3>2, MapFields
  <2>4. room' > 0 => map.count + room' < NewCap(map, fit)
    BY <1>1, <1>2, <1>3, <2>2
  <2> QED
    BY <1>1, <1>3, <2>1, <2>3, <2>4 DEF RoomInv
<1> QED
  BY <1>4, <1>5, <1>6 DEF AskRoom

LEMMA StepRoom ==
    HInv /\ PInv /\ RoomInv /\ HInv' /\ PInv' /\ [PointerNext]_pointerVars
        => RoomInv'
<1> SUFFICES ASSUME HInv, PInv, RoomInv, HInv', PInv',
                    [PointerNext]_pointerVars
             PROVE  RoomInv'
  OBVIOUS
<1>a. /\ room \in Nat /\ ret # "panic" /\ ret' # "panic"
      /\ map # NoMap => map.cap \in Nat /\ map.count \in Nat
  <2>1. room \in Nat /\ ret # "panic" /\ ret' # "panic"
    BY DEF RoomInv, PInv, NoPanic
  <2>2. map # NoMap => IsMap(map)
    BY TypeMaps DEF HInv
  <2> QED
    BY <2>1, <2>2, MapFields
<1>1. ASSUME NEW k \in Key, Get(k) PROVE RoomInv'
  BY <1>1 DEF Get, vars, RoomInv
<1>2. CASE Forget
  BY <1>2 DEF Forget, vars, RoomInv
<1>3. ASSUME NEW e \in Entries, SetValue(e) \/ SetOwn(e) PROVE RoomInv'
  <2>1. /\ map' = map /\ room' = room /\ out_map' = out_map /\ out_map = NoMap
    BY <1>3 DEF SetValue, SetOwn, Set, NoGrowth, HInv
  <2> QED
    BY <2>1 DEF RoomInv
<1>4. CASE InPlace
  <2>1. room' = room
    BY <1>4 DEF InPlace
  <2>2. ASSUME NEW cap \in Caps, New(cap) PROVE RoomInv'
    <3>1. room = 0
      BY <2>2 DEF New, RoomInv
    <3> QED
      BY <2>1, <3>1 DEF RoomInv
  <2>3. CASE SetPresent
    <3>1. /\ IsMap(map) /\ IsMap(map') /\ map'.cap = map.cap
          /\ map'.count = map.count /\ out_map = NoMap /\ out_map' = NoMap
      BY <2>3, SetCounts
    <3>2. map # NoMap /\ map' # NoMap
      BY <3>1, MapFields
    <3> QED
      BY <2>1, <3>1, <3>2 DEF RoomInv
  <2>4. CASE SetGrowing
    <3>1. map # NoMap /\ out_map = NoMap /\ map.count >= map.cap - 1
      BY <2>4 DEF SetGrowing, Setting, HInv
    <3>2. room = 0
      BY <1>a, <3>1 DEF RoomInv
    <3>3. map' = map
      BY <2>4 DEF SetGrowing, BeginGrow
    <3> QED
      BY <2>1, <3>2, <3>3 DEF RoomInv
  <2>5. CASE Reinsert
    <3>1. /\ map' = map /\ arg' = arg /\ out_map # NoMap /\ map # NoMap
          /\ ret' = "running"
      BY <1>a, <2>5 DEF Reinsert, Growing, HInv
    <3>2. PICK b : out_map' = [out_map EXCEPT !.buckets[b] = i]
      BY <1>a, <2>5 DEF Reinsert
    <3>3. IsMap(out_map)
      BY <3>1, TypeMaps DEF HInv
    <3>4. out_map'.cap = out_map.cap
      BY <3>2, <3>3, MapFields
    <3>5. arg = NoArg => out_map' # NoMap
      BY <3>1 DEF HInv, Setting
    <3>6. CASE room = 0
      BY <2>1, <3>1, <3>6 DEF RoomInv
    <3>7. CASE room # 0
      <4>1. room > 0 /\ arg = NoArg /\ map.count + room < out_map.cap
        BY <1>a, <3>1, <3>7 DEF RoomInv
      <4> QED
        BY <1>a, <2>1, <3>1, <3>4, <3>5, <4>1 DEF RoomInv
    <3> QED
      BY <3>6, <3>7
  <2> QED
    BY <1>4, <2>2, <2>3, <2>4, <2>5 DEF InPlace
<1>5. CASE TakeRoom
  <2>1. /\ IsMap(map) /\ IsMap(map') /\ map'.cap = map.cap
        /\ map'.count <= map.count + 1 /\ out_map = NoMap /\ out_map' = NoMap
    BY <1>5, SetCounts DEF TakeRoom
  <2>2. /\ map # NoMap /\ map' # NoMap /\ map'.count \in Nat
        /\ map'.cap \in Nat /\ map.count \in Nat
    BY <2>1, MapFields
  <2>3. room' = (IF room > 0 THEN room - 1 ELSE 0) /\ room' \in Nat
    BY <1>5, <1>a DEF TakeRoom
  <2>4. room' > 0 => map'.count + room' < map'.cap
    BY <1>a, <2>1, <2>2, <2>3 DEF RoomInv
  <2> QED
    BY <2>1, <2>2, <2>3, <2>4 DEF RoomInv
<1>6. ASSUME NEW fit \in Fits, AskRoom(fit) PROVE RoomInv'
  BY <1>6, AskedRoom
<1>7. CASE Freeing
  <2>1. room' = IF map' # NoMap /\ arg = NoArg THEN room ELSE 0
    BY <1>7 DEF Freeing
  <2>2. CASE room' = 0
    BY <2>2 DEF RoomInv
  <2>3. CASE room' # 0
    <3>1. room' = room /\ map' # NoMap /\ arg = NoArg /\ EndGrow
      BY <1>7, <2>1, <2>3 DEF Freeing, FreeMap
    <3>2. /\ map' = out_map /\ out_map' = NoMap /\ out_map # NoMap
          /\ map # NoMap /\ out_map.count = map.count
      BY <3>1 DEF EndGrow, Growing, HInv
    <3> QED
      BY <3>1, <3>2 DEF RoomInv
  <2> QED
    BY <2>2, <2>3
<1>8. CASE ReadFreed
  BY <1>8 DEF ReadFreed, vars, RoomInv
<1>9. CASE UNCHANGED pointerVars
  BY <1>9 DEF pointerVars, vars, RoomInv
<1> QED
  BY <1>1, <1>2, <1>3, <1>4, <1>5, <1>6, <1>7, <1>8, <1>9 DEF PointerNext

\* RoomAskedFor: after hashmap_grow(fit) has returned OK, fit new keys are set
\* without a growth, with no failure, and with pointers into the map in use.
THEOREM RoomCorrect ==
    ASSUME ByAddress = FALSE, Zero \notin Key
    PROVE  PointerSpec => RoomAskedFor
<1>1. PointerInit => HInv /\ PInv /\ LInv /\ RoomInv
  BY InitInv, InitSpare, InitLooks DEF PointerInit, Init, RoomInv
<1>2. HInv /\ PInv /\ LInv /\ [PointerNext]_pointerVars
         => (HInv /\ PInv /\ LInv)'
  BY PointerSteps, StepInv, StepSpare, StepLooks
<1>3. HInv /\ PInv /\ RoomInv /\ HInv' /\ PInv'
         /\ [PointerNext]_pointerVars => RoomInv'
  BY StepRoom
<1>4. HInv /\ RoomInv /\ PInv' /\ [PointerNext]_pointerVars
         => [Setting /\ room > 0 =>
               ret' = "OK" /\ out_map' = NoMap /\ held' = held]_pointerVars
  <2> SUFFICES ASSUME HInv, RoomInv, PInv', PointerNext, Setting, room > 0
               PROVE  ret' = "OK" /\ out_map' = NoMap /\ held' = held
    OBVIOUS
  <2>1. /\ ret = "running" /\ out_map = NoMap /\ map # NoMap
        /\ IsMap(map) /\ arg # NoArg
    BY TypeMaps DEF HInv, Setting
  <2>2. map.count + room < map.cap /\ room \in Nat
        /\ map.count \in Nat /\ map.cap \in Nat
    BY <2>1, MapFields DEF RoomInv
  <2>3. ~(map.count >= map.cap - 1)
    BY <2>2
  <2>4. /\ SetPresent \/ SetNew
        /\ held' = held
    BY <2>1, <2>3
    DEF PointerNext, Get, Forget, SetValue, SetOwn, Set, InPlace, TakeRoom,
        AskRoom, Freeing, ReadFreed, Idle, New, SetGrowing, Reinsert, Growing,
        GrowUnneeded, Grow, FreeMap, EndGrow
  <2>5. ret' # "panic"
    BY DEF PInv, NoPanic
  <2> QED
    BY <2>1, <2>4, <2>5 DEF SetPresent, SetNew, AddTo, NoGrowth
<1> QED
  BY <1>1, <1>2, <1>3, <1>4, PTL DEF PointerSpec, RoomAskedFor

-----------------------------------------------------------------------------
(* The parts of the block.                                                 *)

\* Where four parts go, and how much is asked for them.
LEMMA FourPlaces ==
    ASSUME NEW base \in Nat, NEW p, NEW q, NEW r, NEW s
    PROVE  LET place == B!Places(base, <<p, q, r, s>>) IN
           /\ place[1] = base
           /\ place[2] = B!AlignForward(place[1] + p.size, q.align)
           /\ place[3] = B!AlignForward(place[2] + q.size, r.align)
           /\ place[4] = B!AlignForward(place[3] + r.size, s.align)
<1> DEFINE parts == <<p, q, r, s>>
           a1 == base
           a2 == B!AlignForward(a1 + p.size, q.align)
           a3 == B!AlignForward(a2 + q.size, r.align)
           a4 == B!AlignForward(a3 + r.size, s.align)
           F(f) == [n \in 1..Len(parts) |->
                       IF n = 1 THEN base
                       ELSE B!AlignForward(f[n - 1] + parts[n - 1].size,
                                           parts[n].align)]
           g == <<a1, a2, a3, a4>>
           c == CHOOSE f : f = F(f)
<1>0. /\ Len(parts) = 4 /\ 1..4 = {1, 2, 3, 4}
      /\ parts[1] = p /\ parts[2] = q /\ parts[3] = r /\ parts[4] = s
  OBVIOUS
<1>1. g = F(g)
  <2> HIDE DEF parts, a1, a2, a3, a4
  <2>1. /\ g[1] = a1 /\ g[2] = a2 /\ g[3] = a3 /\ g[4] = a4
        /\ g = [n \in 1..4 |-> g[n]]
    OBVIOUS
  <2> HIDE DEF g
  <2>2. F(g) = [n \in 1..4 |->
                       IF n = 1 THEN base
                       ELSE B!AlignForward(g[n - 1] + parts[n - 1].size,
                                           parts[n].align)]
    BY <1>0
  <2>3. /\ F(g)[1] = a1 /\ F(g)[2] = a2 /\ F(g)[3] = a3 /\ F(g)[4] = a4
    BY <1>0, <2>1, <2>2 DEF a1, a2, a3, a4
  <2> QED
    BY <1>0, <2>1, <2>2, <2>3
<1>2. c = F(c)
  <2> HIDE DEF g, F
  <2> QED
    BY <1>1
<1>3. B!Places(base, parts) = c
  BY DEF B!Places
<1> HIDE DEF c, a1, a2, a3, a4, parts
<1>4. c[1] = base /\ c[2] = B!AlignForward(c[1] + p.size, q.align)
      /\ c[3] = B!AlignForward(c[2] + q.size, r.align)
      /\ c[4] = B!AlignForward(c[3] + r.size, s.align)
  BY <1>0, <1>2
<1> QED
  BY <1>3, <1>4 DEF parts

LEMMA FourSizes ==
    ASSUME NEW p, NEW q, NEW r, NEW s
    PROVE  B!SizeOf(<<p, q, r, s>>) =
              p.size + B!Pad(p, q) + q.size + B!Pad(q, r) + r.size
                     + B!Pad(r, s) + s.size
<1> DEFINE parts == <<p, q, r, s>>
           a1 == p.size
           a2 == a1 + B!Pad(p, q) + q.size
           a3 == a2 + B!Pad(q, r) + r.size
           a4 == a3 + B!Pad(r, s) + s.size
           F(f) == [n \in 1..Len(parts) |->
                       IF n = 1 THEN parts[1].size
                       ELSE f[n - 1] + B!Pad(parts[n - 1], parts[n])
                                     + parts[n].size]
           g == <<a1, a2, a3, a4>>
           c == CHOOSE f : f = F(f)
<1>0. /\ Len(parts) = 4 /\ 1..4 = {1, 2, 3, 4}
      /\ parts[1] = p /\ parts[2] = q /\ parts[3] = r /\ parts[4] = s
  OBVIOUS
<1>1. g = F(g)
  <2> HIDE DEF parts, a1, a2, a3, a4
  <2>1. /\ g[1] = a1 /\ g[2] = a2 /\ g[3] = a3 /\ g[4] = a4
        /\ g = [n \in 1..4 |-> g[n]]
    OBVIOUS
  <2> HIDE DEF g
  <2>2. F(g) = [n \in 1..4 |->
                       IF n = 1 THEN parts[1].size
                       ELSE g[n - 1] + B!Pad(parts[n - 1], parts[n])
                                     + parts[n].size]
    BY <1>0
  <2>3. /\ F(g)[1] = a1 /\ F(g)[2] = a2 /\ F(g)[3] = a3 /\ F(g)[4] = a4
    BY <1>0, <2>1, <2>2 DEF a1, a2, a3, a4
  <2> QED
    BY <1>0, <2>1, <2>2, <2>3
<1>2. c = F(c)
  <2> HIDE DEF g, F
  <2> QED
    BY <1>1
<1>3. B!SizeOf(parts) = c[4]
  BY <1>0 DEF B!SizeOf
<1> HIDE DEF c, parts
<1>4. c[1] = a1 /\ c[2] = c[1] + B!Pad(p, q) + q.size
      /\ c[3] = c[2] + B!Pad(q, r) + r.size
      /\ c[4] = c[3] + B!Pad(r, s) + s.size
  BY <1>0, <1>2
<1> QED
  BY <1>3, <1>4 DEF parts

LEMMA Times ==
    ASSUME NEW a \in {4, 8}, NEW x \in Nat, (x % a) = 0, NEW c \in Nat
    PROVE  \E k \in Nat : c * x = a * k
<1>1. PICK y \in Nat : x = a * y
  <2>1. CASE a = 4
    <3>1. x \div 4 \in Nat /\ x = 4 * (x \div 4)
      BY <2>1
    <3> QED
      BY <2>1, <3>1
  <2>2. CASE a = 8
    <3>1. x \div 8 \in Nat /\ x = 8 * (x \div 8)
      BY <2>2
    <3> QED
      BY <2>2, <3>1
  <2> QED
    BY <2>1, <2>2
<1>2. c * y \in Nat /\ c * x = a * (c * y)
  BY <1>1
<1> QED
  BY <1>2

\* Parts with sizes that are multiples of their alignments.
LEMMA PartsOfMap ==
    ASSUME NEW cap \in Nat, NEW key \in Types, NEW value \in Types
    PROVE  LET parts == MapParts(cap, key, value) IN
           B!Apart(0, parts) /\ B!Aligned(0, parts)
<1> DEFINE p == Header
           q == B!Part(cap * Bucket.size, Bucket.align)
           r == B!Part(cap * key.size, key.align)
           s == B!Part(cap * value.size, value.align)
           place == B!Places(0, <<p, q, r, s>>)
<1>1. PICK x \in Nat : p.size = 8 * x
  <2>1. Header.size \in Nat /\ (Header.size % 8) = 0
    BY TypeAssumption DEF Laid
  <2>2. \E k \in Nat : 1 * Header.size = 8 * k
    BY <2>1, Times
  <2> QED
    BY <2>1, <2>2
<1>2. PICK y \in Nat : q.size = 8 * y
  <2>1. Bucket.size \in Nat /\ (Bucket.size % 8) = 0
    BY TypeAssumption DEF Laid
  <2>2. \E k \in Nat : cap * Bucket.size = 8 * k
    BY <2>1, Times
  <2> QED
    BY <2>2 DEF B!Part
<1>3. PICK z \in Nat : r.size = r.align * z
  <2>1. key.align \in {4, 8} /\ key.size \in Nat /\ (key.size % key.align) = 0
    BY TypeAssumption DEF Laid
  <2>2. \E k \in Nat : cap * key.size = key.align * k
    <3>1. PICK a \in {4, 8}, n \in Nat : a = key.align /\ n = key.size
      BY <2>1
    <3>2. (n % a) = 0
      BY <2>1, <3>1
    <3>3. \E k \in Nat : cap * n = a * k
      BY <3>2, Times
    <3> QED
      BY <3>1, <3>3
  <2> QED
    BY <2>2 DEF B!Part
<1>4. /\ p.align = 8 /\ q.align = 8
      /\ r.align \in {4, 8} /\ s.align \in {4, 8} /\ s.size \in Nat
  BY TypeAssumption DEF Laid, B!Part
<1> HIDE DEF p, q, r, s
<1>5. /\ place[1] = 0
      /\ place[2] = B!AlignForward(place[1] + p.size, q.align)
      /\ place[3] = B!AlignForward(place[2] + q.size, r.align)
      /\ place[4] = B!AlignForward(place[3] + r.size, s.align)
  BY FourPlaces
<1>6. B!SizeOf(<<p, q, r, s>>) =
         p.size + B!Pad(p, q) + q.size + B!Pad(q, r) + r.size
                + B!Pad(r, s) + s.size
  BY FourSizes
<1> HIDE DEF place
<1>7. place[2] = 8 * x /\ place[2] % 8 = 0
  BY <1>1, <1>4, <1>5 DEF B!AlignForward
<1>8. place[3] = 8 * (x + y) /\ place[3] % r.align = 0
  <2>1. place[2] + q.size = 8 * (x + y)
    BY <1>2, <1>7
  <2>2. ((8 * (x + y)) % r.align) = 0
    <3>1. CASE r.align = 4
      BY <3>1
    <3>2. CASE r.align = 8
      BY <3>2
    <3> QED
      BY <1>4, <3>1, <3>2
  <2> QED
    BY <1>5, <2>1, <2>2 DEF B!AlignForward
<1>9. /\ place[4] % s.align = 0 /\ place[4] \in Nat
      /\ place[3] + r.size <= place[4]
      /\ place[4] <= place[3] + r.size + B!Pad(r, s)
  <2> DEFINE e == place[3] + r.size
  <2>1. CASE r.align = 8 /\ s.align = 8
    BY <1>3, <1>5, <1>8, <2>1 DEF B!AlignForward, B!Pad
  <2>2. CASE r.align = 8 /\ s.align = 4
    BY <1>3, <1>5, <1>8, <2>2 DEF B!AlignForward, B!Pad
  <2>3. CASE r.align = 4 /\ s.align = 4
    BY <1>3, <1>5, <1>8, <2>3 DEF B!AlignForward, B!Pad
  <2>4. CASE r.align = 4 /\ s.align = 8
    BY <1>3, <1>5, <1>8, <2>4 DEF B!AlignForward, B!Pad
  <2> QED
    BY <1>4, <2>1, <2>2, <2>3, <2>4
<1>10. B!Pad(p, q) = 0 /\ B!Pad(q, r) = 0
  BY <1>4 DEF B!Pad
<1> DEFINE parts == <<p, q, r, s>>
<1>0. /\ Len(parts) = 4 /\ 2..4 = {2, 3, 4} /\ DOMAIN parts = {1, 2, 3, 4}
      /\ parts[1] = p /\ parts[2] = q /\ parts[3] = r /\ parts[4] = s
  OBVIOUS
<1>11. place = B!Places(0, parts) /\ parts = MapParts(cap, key, value)
  BY DEF place, p, q, r, s, MapParts
<1> HIDE DEF parts
<1>12. B!Apart(0, parts)
  <2>1. /\ place[1] + parts[1].size <= place[2]
        /\ place[2] + parts[2].size <= place[3]
        /\ place[3] + parts[3].size <= place[4]
    BY <1>0, <1>1, <1>2, <1>5, <1>7, <1>8, <1>9
  <2>2. place[4] + parts[4].size <= 0 + B!SizeOf(parts)
    <3>1. B!Pad(r, s) \in Nat /\ r.size \in Nat
      BY <1>3, <1>4 DEF B!Pad
    <3> QED
      BY <1>0, <1>1, <1>2, <1>4, <1>6, <1>8, <1>9, <1>10, <3>1 DEF parts
  <2>3. \A n \in 2..Len(parts) : place[n - 1] + parts[n - 1].size <= place[n]
    BY <1>0, <2>1
  <2> QED
    BY <1>0, <1>11, <2>2, <2>3 DEF B!Apart
<1>13. B!Aligned(0, parts)
  <2>1. \A n \in DOMAIN parts : place[n] % parts[n].align = 0
    BY <1>0, <1>4, <1>5, <1>7, <1>8, <1>9
  <2> QED
    BY <1>11, <2>1 DEF B!Aligned
<1> QED
  BY <1>11, <1>12, <1>13

\* The parts of the block of a map of any capacity lie inside it, apart and
\* aligned, for keys and values of every size that is a multiple of an
\* alignment of 4 or 8.
THEOREM PartsCorrect == PointerSpec => []PartsFit
<1>1. PointerInit => HInv
  BY InitInv DEF PointerInit
<1>2. HInv /\ [PointerNext]_pointerVars => HInv'
  BY PointerSteps, StepInv
<1>3. HInv => PartsFit
  <2> SUFFICES ASSUME HInv, map # NoMap, NEW key \in Types, NEW value \in Types
               PROVE  LET parts == MapParts(map.cap, key, value) IN
                      B!Apart(0, parts) /\ B!Aligned(0, parts)
    BY DEF PartsFit
  <2>1. map.cap \in Nat
    BY CapAssumption DEF HInv, TypeOK
  <2> QED
    BY <2>1, PartsOfMap
<1> QED
  BY <1>1, <1>2, <1>3, PTL DEF PointerSpec

-----------------------------------------------------------------------------
(* Keys stay.                                                              *)

LEMMA LooksNow ==
    ASSUME NEW n, map' = n, key_hash' = key_hash, MapLooks', n # NoMap
    PROVE  Keyed(n) /\ Indexed(n, n.count)
BY DEF MapLooks, Keyed, UnsetZero, Indexed, Reachable, Slots, Probe

\* Every step that leaves a map leaves each slot in use where it was.
LEMMA NextKept ==
    ASSUME ByAddress = FALSE, Zero \notin Key,
           HInv, PInv, LInv, HInv', PInv', [Next]_vars,
           map # NoMap, map' # NoMap
    PROVE  Kept /\ key_hash' = key_hash
<1>a. TypeOK /\ IsMap(map) /\ HashOK /\ map.count \in Nat
      /\ (out_map = NoMap \/ IsMap(out_map))
  BY TypeMaps, KeyHashType, MapFields DEF HInv
<1>b. map' = map => Kept
  BY DEF Kept
<1>1. ASSUME NEW cap \in Caps, New(cap) PROVE FALSE
  BY <1>1 DEF New
<1>2. CASE FreeMap
  BY <1>2 DEF FreeMap
<1>3. ASSUME NEW e \in Entries, Set(e) PROVE Kept /\ key_hash' = key_hash
  BY <1>3, <1>b DEF Set, NoGrowth
<1>4. CASE SetPresent \/ SetNew
  <2>1. Kept
    BY <1>4, SetKeeps
  <2>2. key_hash' = key_hash
    BY <1>4 DEF SetPresent, SetNew, NoGrowth
  <2> QED
    BY <2>1, <2>2
<1>5. CASE SetGrowing
  BY <1>5, <1>b DEF SetGrowing, BeginGrow
<1>6. ASSUME NEW fit \in Fits, GrowUnneeded(fit) \/ Grow(fit)
      PROVE  Kept /\ key_hash' = key_hash
  BY <1>6, <1>b DEF GrowUnneeded, Grow, BeginGrow, NoGrowth
<1>7. CASE Reinsert
  BY <1>7, <1>b DEF Reinsert
<1>8. CASE EndGrow
  <2>1. /\ Growing /\ i = map.cap /\ key_hash' = key_hash
        /\ Rebuilt(map, out_map, i) /\ IsMap(out_map)
        /\ out_map.cap > map.cap /\ out_map.count = map.count
        /\ arg # NoArg => Fresh(map, arg.key)
        /\ ret' # "panic"
    BY <1>8, <1>a DEF EndGrow, Growing, HInv, PInv, NoPanic, LInv, OutLooks
  <2>2. /\ SameSlots(map, out_map) /\ Keyed(out_map)
        /\ Indexed(out_map, out_map.count)
        /\ out_map.count < out_map.cap - 1
    <3>1. map.count < map.cap /\ map.cap \in Nat /\ out_map.cap \in Nat
      BY <1>a, <2>1, MapFields
    <3>2. \A s \in 0..(map.count - 1) : s < i
      BY <1>a, <2>1, <3>1
    <3> QED
      BY <1>a, <2>1, <3>1, <3>2 DEF Rebuilt, Indexed
  <2>3. CASE arg = NoArg
    <3>1. map' = out_map
      BY <1>8, <2>3 DEF EndGrow
    <3> QED
      BY <2>1, <2>2, <3>1 DEF Kept, SameSlots
  <2>4. CASE arg # NoArg
    <3>1. AddTo(out_map) /\ arg.hash = key_hash[arg.key]
      BY <1>8, <2>4 DEF EndGrow, LInv, ArgHashed
    <3>2. Fresh(out_map, arg.key)
      BY <2>1, <2>2, <2>4 DEF Fresh, SameSlots
    <3>3. PICK n : map' = n /\ Gains(out_map, n, arg.key, arg.value)
      BY <1>a, <2>1, <2>2, <2>4, <3>1, <3>2, AddToKeeps
    <3> QED
      BY <1>a, <2>1, <2>2, <3>3 DEF Kept, Gains, SameSlots
  <2> QED
    BY <2>3, <2>4
<1>9. CASE UNCHANGED vars
  BY <1>9, <1>b DEF vars
<1> QED
  BY <1>1, <1>2, <1>3, <1>4, <1>5, <1>6, <1>7, <1>8, <1>9 DEF Next

\* A key that was set is found as long as the map exists, when it is hashed by
\* its value and no key is the zero key: the empty string is the only key that
\* a growth can lose.
THEOREM KeysStayCorrect ==
    ASSUME ByAddress = FALSE, Zero \notin Key
    PROVE  Spec => KeysStay
<1>1. HInv /\ PInv /\ LInv /\ [Next]_vars => (HInv /\ PInv /\ LInv)'
  BY StepInv, StepSpare, StepLooks
<1>2. HInv /\ PInv /\ LInv /\ (HInv /\ PInv /\ LInv)' /\ [Next]_vars
         => [map # NoMap /\ map' # NoMap =>
                \A k \in Key : Found(map, k) => Found(map', k)]_vars
  <2> SUFFICES ASSUME HInv, PInv, LInv, HInv', PInv', LInv', [Next]_vars,
                      map # NoMap, map' # NoMap,
                      NEW k \in Key, Found(map, k)
               PROVE  Found(map', k)
    OBVIOUS
  <2>1. Kept /\ key_hash' = key_hash
    BY NextKept
  <2>2. IsMap(map) /\ Keyed(map) /\ HashOK
    BY TypeMaps, KeyHashType DEF HInv, LInv, MapLooks
  <2>3. PICK s \in 0..(map.count - 1) : map.keys[s] = k
    BY <2>2, FoundIsKeyed
  <2>4. PICK n : n = map'
    OBVIOUS
  <2>5. IsMap(n)
    BY <2>4 DEF HInv, TypeOK, IsMap
  <2>6. Keyed(n) /\ Indexed(n, n.count)
    BY <2>1, <2>4, LooksNow DEF LInv
  <2>7. s \in 0..(n.count - 1) /\ n.keys[s] = k
    BY <2>1, <2>3, <2>4 DEF Kept
  <2>8. Found(n, n.keys[s])
    BY <2>2, <2>5, <2>6, <2>7, ReachableIsFound DEF Indexed
  <2> QED
    BY <2>4, <2>7, <2>8
<1> QED
  BY InitInv, InitSpare, InitLooks, <1>1, <1>2, PTL DEF Spec, KeysStay
=============================================================================
