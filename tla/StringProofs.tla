---------------------------- MODULE StringProofs ----------------------------
(***************************************************************************)
(* Proofs about String, for every set of strings and runes, every first    *)
(* capacity, and every bound on the text that a usize_t holds.             *)
(***************************************************************************)
EXTENDS StringViews, SequenceTheorems, TLAPS

\* A usize_t holds every capacity, length and request.
WordHolds ==
    /\ MaxLen + RUNE_ENCODED_MAX_SIZE < Word
    /\ \A cap \in Caps : cap < Word
    /\ \A s \in Strs : Len(s) < Word
    /\ \A n \in Reserves : MaxLen + n < Word

Cell == Byte \union {Junk}

\* The text is within byte_cap, or the buffer has grown to three times that.
Roomy(m) ==
    /\ byte_cap <= Len(m)
    /\ byte_len <= Len(m)
    /\ byte_len > byte_cap => 3 * byte_cap <= Len(m)

IInv ==
    /\ mem \in Seq(Cell)
    /\ byte_cap \in Nat /\ byte_cap < Word
    /\ byte_len \in Nat
    /\ byte_len > byte_cap => byte_len <= MaxLen
    /\ Roomy(mem)
    /\ \A k \in 1..byte_len : mem[k] \in Byte
    /\ asked \in Nat
    /\ ret \in {"OK", "MEM_ALLOC", "panic", "overrun", "undefined"}
    /\ RoomForThreeTimes

-----------------------------------------------------------------------------
(* Arithmetic and sequences.                                               *)

\* An unsigned difference.
LEMMA Difference ==
    ASSUME NEW w \in Nat \ {0}, NEW d \in Int
    PROVE  /\ 0 <= d /\ d < w => d % w = d
           /\ 0 - w <= d /\ d < 0 => d % w = d + w
BY SMT

\* string_rest_cap: what is left of byte_cap, or more than any request.
LEMMA RestCapIs ==
    ASSUME IInv
    PROVE  /\ RestCap \in Nat
           /\ byte_len <= byte_cap => RestCap = byte_cap - byte_len
           /\ byte_len > byte_cap /\ MaxLen < Word
                  => RestCap = Word + byte_cap - byte_len
<1>1. Word \in Nat \ {0} /\ MaxLen \in Nat
  BY CapAssumption
<1>. DEFINE d == byte_cap - byte_len
<1>2. /\ d \in Int /\ d < Word
      /\ byte_len <= byte_cap => 0 <= d
      /\ byte_len > byte_cap /\ MaxLen < Word => 0 - Word <= d /\ d < 0
  BY <1>1 DEF IInv
<1>3. RestCap = d % Word
  BY DEF RestCap
<1>4. byte_cap \in Nat /\ byte_len \in Nat
  BY DEF IInv
<1>5. d = byte_cap - byte_len
  OBVIOUS
<1>. HIDE DEF d
<1>6. d % Word \in Nat
  BY <1>1, <1>2, SMT
<1>7. byte_len <= byte_cap => d % Word = d
  BY <1>1, <1>2, Difference
<1>8. byte_len > byte_cap /\ MaxLen < Word => d % Word = d + Word
  BY <1>1, <1>2, Difference
<1>9. d + Word = Word + byte_cap - byte_len
  BY <1>1, <1>4, <1>5
<1>. QED  BY <1>3, <1>5, <1>6, <1>7, <1>8, <1>9

\* realloc.
LEMMA ResizedIs ==
    ASSUME NEW m \in Seq(Cell), NEW n \in Nat
    PROVE  /\ Resized(m, n) \in Seq(Cell)
           /\ Len(Resized(m, n)) = n
           /\ \A k \in 1..n : k <= Len(m) => Resized(m, n)[k] = m[k]
<1>1. \A k \in 1..n : (IF k <= Len(m) THEN m[k] ELSE Junk) \in Cell
  BY DEF Cell
<1>2. Resized(m, n) \in [1..n -> Cell]
  BY <1>1 DEF Resized
<1>. QED  BY <1>2 DEF Resized

\* memcpy.
LEMMA CopiedIs ==
    ASSUME NEW m \in Seq(Cell), NEW offset \in Nat, NEW s \in Seq(Cell)
    PROVE  /\ Copied(m, offset, s) \in Seq(Cell)
           /\ Len(Copied(m, offset, s)) = Len(m)
           /\ \A k \in 1..Len(m) :
                 Copied(m, offset, s)[k] =
                    IF k > offset /\ k <= offset + Len(s)
                    THEN s[k - offset] ELSE m[k]
<1>1. \A k \in 1..Len(m) :
         /\ k \in (offset + 1)..(offset + Len(s))
               <=> k > offset /\ k <= offset + Len(s)
         /\ k \in (offset + 1)..(offset + Len(s)) => s[k - offset] \in Cell
         /\ m[k] \in Cell
  OBVIOUS
<1>2. Copied(m, offset, s) \in [1..Len(m) -> Cell]
  BY <1>1 DEF Copied
<1>. QED  BY <1>1, <1>2 DEF Copied

-----------------------------------------------------------------------------
(* The buffer once there is room.                                          *)

\* m still holds the text, and n more bytes fit in it, unless the text has
\* outgrown byte_cap; then it has room for three times that.
HasRoom(m, n) ==
    /\ m \in Seq(Cell)
    /\ Roomy(m)
    /\ \A k \in 1..byte_len : m[k] = mem[k]
    /\ byte_len <= byte_cap => byte_len + n <= Len(m)
    /\ byte_len + n > byte_cap => 3 * byte_cap <= Len(m)

\* What the functions that add bytes resize to.
LEMMA GrownSizeIs ==
    ASSUME IInv, NEW n \in Nat
    PROVE  /\ ReserveSize(n) \in Nat /\ GrownSize(n) \in Nat
           /\ ReserveSize(n) >= 2 * byte_cap
           /\ ReserveSize(n) >= byte_cap + n
           /\ GrownSize(n) >= 3 * byte_cap
           /\ GrownSize(n) >= byte_cap + n
<1>1. byte_cap \in Nat
  BY DEF IInv
<1>. QED  BY <1>1, SMT DEF ReserveSize, GrownSize, Larger

\* Growing leaves room for n bytes, when a usize_t holds the length.
LEMMA GrownHasRoom ==
    ASSUME IInv, NEW m \in Seq(Cell), NEW n \in Nat,
           byte_len <= byte_cap, byte_len <= Len(m),
           \A k \in 1..byte_len : m[k] = mem[k]
    PROVE  HasRoom(Resized(m, GrownSize(n)), n)
<1>1. byte_cap \in Nat /\ byte_len \in Nat
  BY DEF IInv
<1>. DEFINE size == GrownSize(n)  new == Resized(m, size)
<1>2. size \in Nat /\ size >= 3 * byte_cap /\ size >= byte_cap + n
  BY GrownSizeIs
<1>3. /\ new \in Seq(Cell) /\ Len(new) = size
      /\ \A k \in 1..size : k <= Len(m) => new[k] = m[k]
  BY <1>2, ResizedIs
<1>. HIDE DEF new, size
<1>4. \A k \in 1..byte_len : new[k] = mem[k]
  BY <1>1, <1>2, <1>3
<1>5. HasRoom(new, n)
  BY <1>1, <1>2, <1>3, <1>4 DEF HasRoom, Roomy
<1>. QED  BY <1>5 DEF new, size

LEMMA BufferHasRoom ==
    ASSUME IInv, NEW n \in Nat, MaxLen < Word,
           byte_len > byte_cap => byte_len + n <= Word
    PROVE  HasRoom(Buffer(n), n)
<1>1. byte_cap \in Nat /\ byte_len \in Nat /\ Word \in Nat
  BY CapAssumption DEF IInv
<1>2. CASE RestCap < n
  <2>1. byte_len <= byte_cap
    BY <1>1, <1>2, RestCapIs
  <2>. QED  BY <1>2, <2>1, GrownHasRoom DEF Buffer, IInv, Roomy
<1>3. CASE ~(RestCap < n)
  <2>1. byte_len <= byte_cap => byte_len + n <= byte_cap
    BY <1>1, <1>3, RestCapIs
  <2>2. Buffer(n) = mem
    BY <1>3 DEF Buffer
  <2>. QED  BY <1>1, <2>1, <2>2 DEF HasRoom, IInv, Roomy
<1>. QED  BY <1>2, <1>3

-----------------------------------------------------------------------------
(* Every step preserves IInv.                                              *)

\* The bytes of the text and of what is added, put where they are to be.
LEMMA PutKeeps ==
    ASSUME IInv, NEW n \in Nat, NEW m, HasRoom(m, n),
           NEW new \in Seq(Cell), Len(new) = Len(m),
           byte_len + n <= Len(m) => \A k \in 1..(byte_len + n) : new[k] \in Byte,
           byte_len + n <= MaxLen, asked' = n, byte_cap' = byte_cap,
           Put(m, new, n)
    PROVE  IInv'
<1>1. byte_cap \in Nat /\ byte_len \in Nat
  BY DEF IInv
<1>2. CASE byte_len + n <= Len(m)
  <2>1. mem' = new /\ byte_len' = byte_len + n /\ ret' = "OK"
    BY <1>2 DEF Put
  <2>2. Roomy(mem)'
    BY <1>1, <1>2, <2>1 DEF HasRoom, Roomy
  <2>3. \A k \in 1..byte_len' : mem'[k] \in Byte
    BY <1>2, <2>1
  <2>. QED  BY <1>1, <2>1, <2>2, <2>3 DEF IInv, RoomForThreeTimes
<1>3. CASE ~(byte_len + n <= Len(m))
  <2>1. mem' = m /\ byte_len' = byte_len /\ ret' = "overrun"
    BY <1>3 DEF Put
  <2>2. byte_len > byte_cap /\ Len(m) \in Nat
    BY <1>1, <1>3 DEF HasRoom
  <2>3. byte_len + n > 3 * byte_cap
    BY <1>1, <1>3, <2>2 DEF HasRoom, Roomy
  <2>4. Roomy(mem)'
    BY <2>1 DEF HasRoom, Roomy
  <2>5. \A k \in 1..byte_len : m[k] \in Byte
    BY DEF HasRoom, IInv
  <2>. QED  BY <2>1, <2>3, <2>4, <2>5 DEF IInv, RoomForThreeTimes, HasRoom
<1>. QED  BY <1>2, <1>3

\* A call that fails for lack of memory leaves everything alone.
LEMMA FailKeeps ==
    ASSUME IInv, NEW n \in Nat, asked' = n,
           ret' \in {"MEM_ALLOC", "panic", "undefined"},
           UNCHANGED <<mem, byte_len, byte_cap>>
    PROVE  IInv'
BY DEF IInv, Roomy, RoomForThreeTimes

LEMMA StrsAreBytes ==
    ASSUME NEW s \in Strs \union Runes
    PROVE  s \in Seq(Byte) /\ s \in Seq(Cell) /\ Len(s) \in Nat
<1>1. s \in Seq(Byte)
  BY StrAssumption
<1>. QED  BY <1>1 DEF Cell

\* Where the bytes of string_append_str end up.
LEMMA AppendedBytes ==
    ASSUME IInv, NEW s \in Strs \union Runes, NEW m, HasRoom(m, Len(s))
    PROVE  LET new == Copied(m, byte_len, s) IN
           /\ new \in Seq(Cell) /\ Len(new) = Len(m)
           /\ byte_len + Len(s) <= Len(m) =>
                 \A k \in 1..(byte_len + Len(s)) :
                    /\ k <= byte_len => new[k] = mem[k]
                    /\ k > byte_len => new[k] = s[k - byte_len]
                    /\ new[k] \in Byte
<1>. DEFINE new == Copied(m, byte_len, s)
<1>1. byte_len \in Nat /\ \A k \in 1..byte_len : mem[k] \in Byte
  BY DEF IInv
<1>2. s \in Seq(Byte) /\ s \in Seq(Cell) /\ Len(s) \in Nat
  BY StrsAreBytes
<1>3. m \in Seq(Cell) /\ Len(m) \in Nat /\ \A k \in 1..byte_len : m[k] = mem[k]
  BY DEF HasRoom
<1>4. /\ new \in Seq(Cell) /\ Len(new) = Len(m)
      /\ \A k \in 1..Len(m) :
            new[k] = IF k > byte_len /\ k <= byte_len + Len(s)
                     THEN s[k - byte_len] ELSE m[k]
  BY <1>1, <1>2, <1>3, CopiedIs
<1>. HIDE DEF new
<1>5. ASSUME byte_len + Len(s) <= Len(m), NEW k \in 1..(byte_len + Len(s))
      PROVE  /\ k <= byte_len => new[k] = mem[k]
             /\ k > byte_len => new[k] = s[k - byte_len]
             /\ new[k] \in Byte
  <2>1. CASE k <= byte_len
    BY <1>1, <1>2, <1>3, <1>4, <1>5, <2>1
  <2>2. CASE k > byte_len
    <3>1. k - byte_len \in 1..Len(s)
      BY <1>1, <1>2, <2>2
    <3>2. s[k - byte_len] \in Byte
      BY <1>2, <3>1
    <3>3. new[k] = s[k - byte_len]
      BY <1>1, <1>2, <1>3, <1>4, <1>5, <2>2
    <3>. QED  BY <1>1, <2>2, <3>2, <3>3
  <2>. QED  BY <1>1, <2>1, <2>2
<1>6. QED  BY <1>4, <1>5 DEF new

\* Where the bytes of string_prepend_str end up.
LEMMA PrependedBytes ==
    ASSUME IInv, NEW s \in Strs \union Runes, NEW m, HasRoom(m, Len(s))
    PROVE  LET new == Copied(Moved(m, Len(s)), 0, s) IN
           /\ new \in Seq(Cell) /\ Len(new) = Len(m)
           /\ byte_len + Len(s) <= Len(m) =>
                 \A k \in 1..(byte_len + Len(s)) :
                    /\ k <= Len(s) => new[k] = s[k]
                    /\ k > Len(s) => new[k] = mem[k - Len(s)]
                    /\ new[k] \in Byte
<1>. DEFINE text == SubSeq(m, 1, byte_len)
            moved == Copied(m, Len(s), text)
            new == Copied(moved, 0, s)
<1>1. byte_len \in Nat /\ \A k \in 1..byte_len : mem[k] \in Byte
  BY DEF IInv
<1>2. s \in Seq(Byte) /\ s \in Seq(Cell) /\ Len(s) \in Nat
  BY StrsAreBytes
<1>3. /\ m \in Seq(Cell) /\ Len(m) \in Nat /\ byte_len <= Len(m)
      /\ \A k \in 1..byte_len : m[k] = mem[k]
  BY DEF HasRoom, Roomy
<1>4. /\ text \in Seq(Cell) /\ Len(text) = byte_len
      /\ \A k \in 1..byte_len : text[k] = m[k]
  BY <1>1, <1>3
<1>5. Moved(m, Len(s)) = moved
  BY DEF Moved
<1>. HIDE DEF text
<1>6. /\ moved \in Seq(Cell) /\ Len(moved) = Len(m)
      /\ \A k \in 1..Len(m) :
            moved[k] = IF k > Len(s) /\ k <= Len(s) + byte_len
                       THEN text[k - Len(s)] ELSE m[k]
  BY <1>2, <1>3, <1>4, CopiedIs
<1>. HIDE DEF moved
<1>7. /\ new \in Seq(Cell) /\ Len(new) = Len(m)
      /\ \A k \in 1..Len(m) :
            new[k] = IF k > 0 /\ k <= 0 + Len(s) THEN s[k - 0] ELSE moved[k]
  BY <1>2, <1>6, CopiedIs
<1>. HIDE DEF new
<1>8. ASSUME byte_len + Len(s) <= Len(m), NEW k \in 1..(byte_len + Len(s))
      PROVE  /\ k <= Len(s) => new[k] = s[k]
             /\ k > Len(s) => new[k] = mem[k - Len(s)]
             /\ new[k] \in Byte
  <2>1. CASE k <= Len(s)
    <3>1. new[k] = s[k]
      BY <1>1, <1>2, <1>3, <1>7, <1>8, <2>1
    <3>2. s[k] \in Byte
      BY <1>1, <1>2, <2>1
    <3>. QED  BY <1>1, <1>2, <2>1, <3>1, <3>2
  <2>2. CASE k > Len(s)
    <3>1. k - Len(s) \in 1..byte_len /\ k \in 1..Len(m)
      BY <1>1, <1>2, <1>3, <1>8, <2>2
    <3>2. new[k] = moved[k] /\ moved[k] = text[k - Len(s)]
      BY <1>1, <1>2, <1>6, <1>7, <2>2, <3>1
    <3>3. text[k - Len(s)] = mem[k - Len(s)] /\ mem[k - Len(s)] \in Byte
      BY <1>1, <1>3, <1>4, <3>1
    <3>. QED  BY <1>1, <1>2, <2>2, <3>2, <3>3
  <2>. QED  BY <1>1, <1>2, <2>1, <2>2
<1>9. QED  BY <1>5, <1>7, <1>8 DEF new

-----------------------------------------------------------------------------
(* The actions.  Each keeps IInv, and is a step of Text or leaves the text *)
(* as it was.                                                              *)

TextStep == T!Next \/ UNCHANGED <<Contents, asked, ret>>

\* The same bytes are the same text: nothing was added, and OK is right only
\* where nothing was to be.
LEMMA SameText ==
    ASSUME IInv, mem' \in Seq(Cell), byte_len' = byte_len,
           byte_len <= Len(mem'), \A k \in 1..byte_len : mem'[k] = mem[k],
           asked' \in Nat, ret' = "OK" => asked' = 0
    PROVE  TextStep
<1>1. byte_len \in Nat /\ byte_len <= Len(mem) /\ mem \in Seq(Cell)
  BY DEF IInv, Roomy
<1>2. SubSeq(mem', 1, byte_len) = SubSeq(mem, 1, byte_len)
  BY <1>1
<1>3. Contents' = Contents
  BY <1>2 DEF Contents
<1>. QED  BY <1>3 DEF TextStep, T!Next, T!Fail, T!Reserve

\* What string_append_str puts.
LEMMA AppendPuts ==
    ASSUME IInv, NEW s \in Strs \union Runes, NEW m, HasRoom(m, Len(s)),
           byte_len + Len(s) <= MaxLen, asked' = Len(s), byte_cap' = byte_cap,
           Put(m, Copied(m, byte_len, s), Len(s))
    PROVE  IInv' /\ TextStep
<1>. DEFINE new == Copied(m, byte_len, s)
<1>1. /\ new \in Seq(Cell) /\ Len(new) = Len(m)
      /\ byte_len + Len(s) <= Len(m) =>
            \A k \in 1..(byte_len + Len(s)) :
               /\ k <= byte_len => new[k] = mem[k]
               /\ k > byte_len => new[k] = s[k - byte_len]
               /\ new[k] \in Byte
  BY AppendedBytes
<1>2. Put(m, new, Len(s))
  OBVIOUS
<1>. HIDE DEF new
<1>3. s \in Seq(Cell) /\ Len(s) \in Nat
  BY StrsAreBytes
<1>4. IInv'
  BY <1>1, <1>2, <1>3, PutKeeps
<1>5. CASE byte_len + Len(s) <= Len(m)
  <2>1. mem' = new /\ byte_len' = byte_len + Len(s) /\ ret' = "OK"
    BY <1>2, <1>5 DEF Put
  <2>2. byte_len \in Nat /\ mem \in Seq(Cell) /\ byte_len <= Len(mem)
    BY DEF IInv, Roomy
  <2>. DEFINE old == SubSeq(mem, 1, byte_len)
              text == SubSeq(new, 1, byte_len + Len(s))
  <2>3. /\ old \in Seq(Cell) /\ Len(old) = byte_len
        /\ \A k \in 1..byte_len : old[k] = mem[k]
    BY <2>2
  <2>4. /\ text \in Seq(Cell) /\ Len(text) = byte_len + Len(s)
        /\ \A k \in 1..(byte_len + Len(s)) : text[k] = new[k]
    BY <2>2, <1>1, <1>3, <1>5
  <2>. HIDE DEF old, text
  <2>5. text = old \o s
    <3>1. old \o s \in Seq(Cell) /\ Len(old \o s) = byte_len + Len(s)
      BY <2>3, <1>3
    <3>2. ASSUME NEW k \in 1..(byte_len + Len(s))
          PROVE  text[k] = (old \o s)[k]
      <4>1. CASE k <= byte_len
        <5>1. (old \o s)[k] = old[k] /\ old[k] = mem[k]
          BY <2>2, <2>3, <1>3, <4>1
        <5>2. k \in 1..byte_len /\ new[k] = mem[k]
          BY <2>2, <1>1, <1>3, <1>5, <4>1
        <5>. QED  BY <2>4, <5>1, <5>2
      <4>2. CASE k > byte_len
        <5>1. (old \o s)[k] = s[k - byte_len]
          BY <2>2, <2>3, <1>3, <4>2
        <5>2. new[k] = s[k - byte_len]
          BY <1>1, <1>5, <4>2
        <5>. QED  BY <2>4, <5>1, <5>2
      <4>3. k <= byte_len \/ k > byte_len
        BY <2>2, <1>3
      <4>. QED  BY <4>1, <4>2, <4>3
    <3>. QED  BY <3>1, <3>2, <2>4, SeqEqual
  <2>6. Contents' = Contents \o s
    BY <2>1, <2>5 DEF Contents, old, text
  <2>7. T!AppendPiece(s)
    BY <2>1, <2>6 DEF T!AppendPiece
  <2>. QED  BY <1>4, <2>7 DEF TextStep, T!Next
<1>6. CASE ~(byte_len + Len(s) <= Len(m))
  <2>1. mem' = m /\ byte_len' = byte_len
    BY <1>6, <1>2 DEF Put
  <2>2. ret' = "overrun"
    BY <1>6, <1>2 DEF Put
  <2>. QED  BY <1>3, <1>4, <2>1, <2>2, SameText DEF HasRoom, Roomy
<1>. QED  BY <1>5, <1>6

\* What string_prepend_str puts.
LEMMA PrependPuts ==
    ASSUME IInv, NEW s \in Strs \union Runes, NEW m, HasRoom(m, Len(s)),
           byte_len + Len(s) <= MaxLen, asked' = Len(s), byte_cap' = byte_cap,
           Put(m, Copied(Moved(m, Len(s)), 0, s), Len(s))
    PROVE  IInv' /\ TextStep
<1>. DEFINE new == Copied(Moved(m, Len(s)), 0, s)
<1>1. /\ new \in Seq(Cell) /\ Len(new) = Len(m)
      /\ byte_len + Len(s) <= Len(m) =>
            \A k \in 1..(byte_len + Len(s)) :
               /\ k <= Len(s) => new[k] = s[k]
               /\ k > Len(s) => new[k] = mem[k - Len(s)]
               /\ new[k] \in Byte
  BY PrependedBytes
<1>2. Put(m, new, Len(s))
  OBVIOUS
<1>. HIDE DEF new
<1>3. s \in Seq(Cell) /\ Len(s) \in Nat
  BY StrsAreBytes
<1>4. IInv'
  BY <1>1, <1>2, <1>3, PutKeeps
<1>5. CASE byte_len + Len(s) <= Len(m)
  <2>1. mem' = new /\ byte_len' = byte_len + Len(s) /\ ret' = "OK"
    BY <1>2, <1>5 DEF Put
  <2>2. byte_len \in Nat /\ mem \in Seq(Cell) /\ byte_len <= Len(mem)
    BY DEF IInv, Roomy
  <2>. DEFINE old == SubSeq(mem, 1, byte_len)
              text == SubSeq(new, 1, byte_len + Len(s))
  <2>3. /\ old \in Seq(Cell) /\ Len(old) = byte_len
        /\ \A k \in 1..byte_len : old[k] = mem[k]
    BY <2>2
  <2>4. /\ text \in Seq(Cell) /\ Len(text) = byte_len + Len(s)
        /\ \A k \in 1..(byte_len + Len(s)) : text[k] = new[k]
    BY <2>2, <1>1, <1>3, <1>5
  <2>. HIDE DEF old, text
  <2>5. text = s \o old
    <3>1. /\ s \o old \in Seq(Cell) /\ Len(s \o old) = Len(s) + Len(old)
          /\ \A k \in 1..(Len(s) + Len(old)) :
                (s \o old)[k] = IF k <= Len(s) THEN s[k] ELSE old[k - Len(s)]
      BY <2>3, <1>3, ConcatProperties
    <3>2. Len(s) + Len(old) = byte_len + Len(s)
      BY <2>2, <2>3, <1>3
    <3>3. ASSUME NEW k \in 1..(byte_len + Len(s))
          PROVE  text[k] = (s \o old)[k]
      <4>1. text[k] = new[k] /\ k \in Int
        BY <2>2, <2>4, <1>3
      <4>2. CASE k <= Len(s)
        BY <1>1, <1>5, <3>1, <3>2, <4>1, <4>2
      <4>3. CASE k > Len(s)
        <5>1. k - Len(s) \in 1..byte_len
          BY <2>2, <1>3, <4>3
        <5>2. (s \o old)[k] = old[k - Len(s)]
          BY <1>3, <3>1, <3>2, <4>1, <4>3
        <5>3. old[k - Len(s)] = mem[k - Len(s)]
          BY <2>3, <5>1
        <5>4. new[k] = mem[k - Len(s)]
          BY <1>1, <1>5, <4>3
        <5>. QED  BY <4>1, <5>2, <5>3, <5>4
      <4>4. k <= Len(s) \/ k > Len(s)
        BY <1>3, <4>1
      <4>. QED  BY <4>2, <4>3, <4>4
    <3>. QED  BY <3>1, <3>2, <3>3, <2>4, SeqEqual
  <2>6. Contents' = s \o Contents
    BY <2>1, <2>5 DEF Contents, old, text
  <2>7. T!PrependPiece(s)
    BY <2>1, <2>6 DEF T!PrependPiece
  <2>. QED  BY <1>4, <2>7 DEF TextStep, T!Next
<1>6. CASE ~(byte_len + Len(s) <= Len(m))
  <2>1. mem' = m /\ byte_len' = byte_len
    BY <1>6, <1>2 DEF Put
  <2>2. ret' = "overrun"
    BY <1>6, <1>2 DEF Put
  <2>. QED  BY <1>3, <1>4, <2>1, <2>2, SameText DEF HasRoom, Roomy
<1>. QED  BY <1>5, <1>6

\* What every call that adds bytes may assume.
LEMMA Begun ==
    ASSUME IInv, WordHolds, NEW n \in Nat, Begin(n)
    PROVE  /\ byte_len + n <= MaxLen /\ asked' = n /\ byte_cap' = byte_cap
           /\ byte_len \in Nat /\ MaxLen \in Nat /\ Word \in Nat
           /\ MaxLen < Word /\ MaxLen + RUNE_ENCODED_MAX_SIZE < Word
BY CapAssumption, SMT DEF IInv, WordHolds, Begin, RUNE_ENCODED_MAX_SIZE

LEMMA FailedCall ==
    ASSUME IInv, WordHolds, NEW n \in Nat, Begin(n),
           ret' \in {"MEM_ALLOC", "panic", "undefined"},
           UNCHANGED <<mem, byte_len>>
    PROVE  IInv' /\ TextStep
<1>1. IInv'
  BY Begun, FailKeeps
<1>2. Contents' = Contents
  BY DEF Contents
<1>3. asked' \in Nat /\ ret' # "OK"
  BY DEF Begin
<1>. QED  BY <1>1, <1>2, <1>3 DEF TextStep, T!Next, T!Fail

LEMMA AppendStrStep ==
    ASSUME IInv, WordHolds, NEW s \in Strs \union Runes, AppendStr(s)
    PROVE  IInv' /\ TextStep
<1>1. Len(s) \in Nat /\ Begin(Len(s))
  BY StrsAreBytes DEF AppendStr
<1>2. /\ byte_len + Len(s) <= MaxLen /\ asked' = Len(s) /\ byte_cap' = byte_cap
      /\ MaxLen < Word /\ byte_len + Len(s) <= Word
  BY <1>1, Begun
<1>3. HasRoom(Buffer(Len(s)), Len(s))
  BY <1>1, <1>2, BufferHasRoom
<1>4. CASE Put(Buffer(Len(s)), Copied(Buffer(Len(s)), byte_len, s), Len(s))
  BY <1>2, <1>3, <1>4, AppendPuts
<1>5. CASE ret' = "MEM_ALLOC" /\ UNCHANGED <<mem, byte_len>>
  BY <1>1, <1>5, FailedCall
<1>. QED  BY <1>4, <1>5 DEF AppendStr

LEMMA PrependStrStep ==
    ASSUME IInv, WordHolds, NEW s \in Strs \union Runes, PrependStr(s)
    PROVE  IInv' /\ TextStep
<1>1. Len(s) \in Nat /\ Begin(Len(s))
  BY StrsAreBytes DEF PrependStr
<1>2. /\ byte_len + Len(s) <= MaxLen /\ asked' = Len(s) /\ byte_cap' = byte_cap
      /\ MaxLen < Word /\ byte_len + Len(s) <= Word
  BY <1>1, Begun
<1>3. HasRoom(Buffer(Len(s)), Len(s))
  BY <1>1, <1>2, BufferHasRoom
<1>4. CASE Put(Buffer(Len(s)), Copied(Moved(Buffer(Len(s)), Len(s)), 0, s), Len(s))
  BY <1>2, <1>3, <1>4, PrependPuts
<1>5. CASE ret' = "MEM_ALLOC" /\ UNCHANGED <<mem, byte_len>>
  BY <1>1, <1>5, FailedCall
<1>. QED  BY <1>4, <1>5 DEF PrependStr

\* The buffer is grown twice, and the second time no smaller.
LEMMA StreamWriteStep ==
    ASSUME IInv, WordHolds, NEW s \in Strs, StreamWrite(s)
    PROVE  IInv' /\ TextStep
<1>1. Len(s) \in Nat /\ Begin(Len(s))
  BY StrsAreBytes DEF StreamWrite
<1>2. /\ byte_len + Len(s) <= MaxLen /\ asked' = Len(s) /\ byte_cap' = byte_cap
      /\ MaxLen < Word /\ byte_len + Len(s) <= Word
  BY <1>1, Begun
<1>. DEFINE reserved == Resized(mem, ReserveSize(Len(s)))
            m == IF RestCap < Len(s)
                 THEN Resized(reserved, GrownSize(Len(s))) ELSE mem
<1>3. HasRoom(m, Len(s))
  <2>1. CASE RestCap < Len(s)
    <3>1. byte_cap \in Nat /\ byte_len \in Nat /\ Word \in Nat /\ mem \in Seq(Cell)
          /\ byte_len <= Len(mem)
      BY CapAssumption DEF IInv, Roomy
    <3>2. byte_len <= byte_cap
      BY <1>1, <1>2, <2>1, <3>1, RestCapIs
    <3>3. ReserveSize(Len(s)) \in Nat /\ ReserveSize(Len(s)) >= byte_cap + Len(s)
      BY <1>1, GrownSizeIs
    <3>4. /\ reserved \in Seq(Cell) /\ Len(reserved) = ReserveSize(Len(s))
          /\ \A k \in 1..ReserveSize(Len(s)) : k <= Len(mem) => reserved[k] = mem[k]
      BY <3>1, <3>3, ResizedIs
    <3>. HIDE DEF reserved
    <3>5. byte_len <= Len(reserved) /\ \A k \in 1..byte_len : reserved[k] = mem[k]
      BY <1>1, <3>1, <3>2, <3>3, <3>4
    <3>6. HasRoom(Resized(reserved, GrownSize(Len(s))), Len(s))
      BY <1>1, <3>2, <3>4, <3>5, GrownHasRoom
    <3>. QED  BY <2>1, <3>6
  <2>2. CASE ~(RestCap < Len(s))
    BY <1>1, <1>2, <2>2, BufferHasRoom DEF Buffer
  <2>. QED  BY <2>1, <2>2
<1>4. CASE Put(m, Copied(m, byte_len, s), Len(s))
  <2>. HIDE DEF m
  <2>. QED  BY <1>2, <1>3, <1>4, AppendPuts
<1>5. CASE ret' = "panic" /\ UNCHANGED <<mem, byte_len>>
  BY <1>1, <1>5, FailedCall
<1>. QED  BY <1>4, <1>5 DEF StreamWrite

LEMMA ReserveCapStep ==
    ASSUME IInv, WordHolds, NEW n \in Reserves, ReserveCap(n)
    PROVE  IInv' /\ TextStep
<1>1. n \in Nat /\ MaxLen + n < Word /\ Begin(0)
  BY CapAssumption DEF WordHolds, ReserveCap
<1>2. /\ asked' = 0 /\ byte_cap' = byte_cap /\ byte_len' = byte_len
      /\ byte_len \in Nat /\ byte_cap \in Nat
      /\ MaxLen \in Nat /\ Word \in Nat /\ MaxLen < Word
  BY <1>1, Begun DEF ReserveCap, IInv
<1>3. CASE ret' = "MEM_ALLOC" /\ UNCHANGED mem
  BY <1>1, <1>2, <1>3, FailedCall
<1>4. CASE ret' = "OK" /\ UNCHANGED mem
  <2>1. IInv'
    BY <1>2, <1>4 DEF IInv, Roomy, RoomForThreeTimes
  <2>. QED  BY <1>2, <1>4, <2>1, SameText DEF IInv, Roomy
<1>5. CASE RestCap < n /\ mem' = Resized(mem, ReserveSize(n)) /\ ret' = "OK"
  <2>1. byte_len <= byte_cap
    BY <1>1, <1>2, <1>5, RestCapIs DEF IInv
  <2>2. ReserveSize(n) \in Nat /\ ReserveSize(n) >= byte_cap + n
    BY <1>1, GrownSizeIs
  <2>3. mem \in Seq(Cell) /\ byte_len <= Len(mem)
        /\ \A k \in 1..byte_len : mem[k] \in Byte
    BY DEF IInv, Roomy
  <2>4. /\ mem' \in Seq(Cell) /\ Len(mem') = ReserveSize(n)
        /\ \A k \in 1..ReserveSize(n) : k <= Len(mem) => mem'[k] = mem[k]
    BY <1>5, <2>2, <2>3, ResizedIs
  <2>5. byte_len <= Len(mem') /\ \A k \in 1..byte_len : mem'[k] = mem[k]
    BY <1>1, <1>2, <2>1, <2>2, <2>3, <2>4
  <2>6. Roomy(mem)'
    BY <1>1, <1>2, <2>1, <2>2, <2>4 DEF Roomy
  <2>7. IInv'
    BY <1>2, <1>5, <2>1, <2>3, <2>4, <2>5, <2>6 DEF IInv, RoomForThreeTimes
  <2>. QED  BY <1>2, <2>4, <2>5, <2>7, SameText
<1>. QED  BY <1>3, <1>4, <1>5 DEF ReserveCap

LEMMA ResetStep ==
    ASSUME IInv, WordHolds, Reset
    PROVE  IInv' /\ TextStep
<1>1. asked' = 0 /\ byte_cap' = byte_cap /\ byte_len' = 0 /\ ret' = "OK" /\ mem' = mem
  BY DEF Reset, Begin
<1>2. IInv'
  BY <1>1 DEF IInv, Roomy, RoomForThreeTimes
<1>3. Contents' = <<>>
  BY <1>1 DEF Contents, IInv
<1>. QED  BY <1>1, <1>2, <1>3 DEF TextStep, T!Next, T!Reset

\* The length counted back from byte_cap is that of the text and the rune,
\* also once the rest capacity has wrapped.
LEMMA RuneLenIs ==
    ASSUME IInv, WordHolds, NEW r \in Runes, Begin(Len(r))
    PROVE  RuneLen(r) = byte_len + Len(r)
<1>1. /\ Len(r) \in Nat /\ byte_cap \in Nat /\ byte_len \in Nat
      /\ Word \in Nat \ {0} /\ MaxLen \in Nat
  BY StrsAreBytes, CapAssumption DEF IInv
<1>2. byte_len + Len(r) <= MaxLen /\ MaxLen < Word
  BY <1>1, Begun
<1>. DEFINE d == byte_cap - (RestCap - Len(r))
<1>3. RuneLen(r) = d % Word
  BY DEF RuneLen
<1>4. CASE byte_len <= byte_cap
  <2>1. d = byte_len + Len(r)
    BY <1>1, <1>4, RestCapIs
  <2>. HIDE DEF d
  <2>2. d \in Int /\ 0 <= d /\ d < Word
    BY <1>1, <1>2, <2>1
  <2>3. d % Word = d
    BY <1>1, <2>2, Difference
  <2>. QED  BY <1>3, <2>1, <2>3
<1>5. CASE byte_len > byte_cap
  <2>1. d = byte_len + Len(r) - Word
    BY <1>1, <1>2, <1>5, RestCapIs
  <2>. HIDE DEF d
  <2>2. d \in Int /\ 0 - Word <= d /\ d < 0
    BY <1>1, <1>2, <2>1
  <2>3. d % Word = d + Word
    BY <1>1, <2>2, Difference
  <2>. QED  BY <1>1, <1>3, <2>1, <2>3
<1>6. byte_len <= byte_cap \/ byte_len > byte_cap
  BY <1>1
<1>. HIDE DEF d
<1>. QED  BY <1>4, <1>5, <1>6

LEMMA AppendRuneStep ==
    ASSUME IInv, WordHolds, NEW r \in Runes, AppendRune(r)
    PROVE  IInv' /\ TextStep
<1>1. Len(r) \in Nat /\ Len(r) <= 4 /\ Begin(Len(r))
  <2>. DEFINE len == Len(r)
  <2>1. len \in 1..4
    BY RuneAssumption
  <2>. HIDE DEF len
  <2>2. len \in Nat /\ len <= 4
    BY <2>1
  <2>3. Begin(Len(r))
    BY DEF AppendRune
  <2>. QED  BY <2>2, <2>3, Zenon DEF len
<1>2. /\ byte_len + Len(r) <= MaxLen /\ asked' = Len(r) /\ byte_cap' = byte_cap
      /\ byte_len \in Nat /\ byte_cap \in Nat /\ MaxLen \in Nat /\ Word \in Nat
      /\ MaxLen < Word /\ MaxLen + 4 < Word
  BY <1>1, Begun DEF IInv, RUNE_ENCODED_MAX_SIZE
<1>. DEFINE m == Buffer(RUNE_ENCODED_MAX_SIZE)
<1>3. HasRoom(m, Len(r))
  <2>1. HasRoom(Buffer(4), 4)
    BY <1>2, BufferHasRoom DEF IInv
  <2>2. m = Buffer(4)
    BY DEF RUNE_ENCODED_MAX_SIZE
  <2>3. HasRoom(m, 4)
    BY <2>1, <2>2
  <2>. HIDE DEF m
  <2>. QED  BY <1>1, <1>2, <2>3 DEF HasRoom, Roomy
<1>4. CASE ret' = "MEM_ALLOC" /\ UNCHANGED <<mem, byte_len>>
  BY <1>1, <1>4, FailedCall
<1>5. CASE ret' = "panic" /\ mem' = m /\ byte_len' = byte_len
  <2>. HIDE DEF m
  <2>1. m \in Seq(Cell) /\ Roomy(m) /\ \A k \in 1..byte_len : m[k] = mem[k]
    BY <1>3 DEF HasRoom
  <2>2. IInv'
    BY <1>1, <1>2, <1>5, <2>1 DEF IInv, Roomy, RoomForThreeTimes
  <2>. QED  BY <1>1, <1>2, <1>5, <2>1, <2>2, SameText DEF Roomy
<1>6. CASE Put(m, Copied(m, byte_len, r), Len(r))
  <2>. HIDE DEF m
  <2>. QED  BY <1>2, <1>3, <1>6, AppendPuts
<1>7. RuneLen(r) = byte_len + Len(r)
  BY <1>1, RuneLenIs
<1>8. \/ ret' = "MEM_ALLOC" /\ UNCHANGED <<mem, byte_len>>
      \/ ret' = "panic" /\ mem' = m /\ byte_len' = byte_len
      \/ Put(m, Copied(m, byte_len, r), Len(r))
  <2>1. RestCap \in Nat /\ Len(m) \in Nat
    BY <1>3, RestCapIs DEF HasRoom
  <2>2. \/ ret' = "MEM_ALLOC" /\ UNCHANGED <<mem, byte_len>>
        \/ CASE RestCap < Len(r) ->
                  ret' = "panic" /\ mem' = m /\ byte_len' = byte_len
             [] RestCap >= Len(r) /\ byte_len + Len(r) > Len(m) ->
                  ret' = "overrun" /\ mem' = m /\ byte_len' = byte_len
             [] OTHER ->
                  /\ mem' = Copied(m, byte_len, r)
                  /\ byte_len' = RuneLen(r)
                  /\ ret' = "OK"
    BY DEF AppendRune
  <2>. HIDE DEF m
  <2>. QED  BY <1>1, <1>2, <1>7, <2>1, <2>2 DEF Put
<1>. QED  BY <1>4, <1>5, <1>6, <1>8

-----------------------------------------------------------------------------
(* The specification.                                                      *)

LEMMA InitKeeps ==
    ASSUME WordHolds, Init
    PROVE  IInv /\ T!Init
<1>1. asked = 0 /\ ret = "OK"
  BY DEF Init
<1>2. CASE \E cap \in Caps :
              mem = Blank(cap) /\ byte_cap = cap /\ byte_len = 0
  <2>1. PICK cap \in Caps : mem = Blank(cap) /\ byte_cap = cap /\ byte_len = 0
    BY <1>2
  <2>2. cap \in Nat /\ cap < Word
    BY CapAssumption DEF WordHolds
  <2>3. mem \in Seq(Cell) /\ Len(mem) = cap
    BY <2>1, <2>2 DEF Blank, Cell
  <2>4. IInv
    BY <1>1, <2>1, <2>2, <2>3 DEF IInv, Roomy, RoomForThreeTimes
  <2>5. Contents = <<>>
    BY <2>1, <2>3 DEF Contents
  <2>. QED  BY <1>1, <2>4, <2>5 DEF T!Init
<1>3. CASE \E s \in Strs : mem = s /\ byte_cap = Len(s) /\ byte_len = Len(s)
  <2>1. PICK s \in Strs : mem = s /\ byte_cap = Len(s) /\ byte_len = Len(s)
    BY <1>3
  <2>2. s \in Seq(Byte) /\ s \in Seq(Cell) /\ Len(s) \in Nat /\ Len(s) < Word
    BY StrsAreBytes DEF WordHolds
  <2>3. IInv
    BY <1>1, <2>1, <2>2 DEF IInv, Roomy, RoomForThreeTimes
  <2>4. Contents = s
    BY <2>1, <2>2 DEF Contents
  <2>. QED  BY <1>1, <2>3, <2>4 DEF T!Init
<1>. QED  BY <1>2, <1>3 DEF Init

LEMMA NextKeeps ==
    ASSUME WordHolds, IInv, [Next]_vars
    PROVE  IInv' /\ TextStep
<1>1. ASSUME NEW s \in Strs, AppendStr(s) PROVE IInv' /\ TextStep
  BY <1>1, AppendStrStep
<1>2. ASSUME NEW s \in Strs, PrependStr(s) PROVE IInv' /\ TextStep
  BY <1>2, PrependStrStep
<1>3. ASSUME NEW s \in Strs, StreamWrite(s) PROVE IInv' /\ TextStep
  BY <1>3, StreamWriteStep
<1>4. ASSUME NEW r \in Runes, AppendRune(r) PROVE IInv' /\ TextStep
  BY <1>4, AppendRuneStep
<1>5. ASSUME NEW n \in Reserves, ReserveCap(n) PROVE IInv' /\ TextStep
  BY <1>5, ReserveCapStep
<1>6. CASE Reset
  BY <1>6, ResetStep
<1>7. CASE UNCHANGED vars
  <2>1. IInv'
    BY <1>7 DEF vars, IInv, Roomy, RoomForThreeTimes
  <2>2. UNCHANGED <<Contents, asked, ret>>
    BY <1>7 DEF vars, Contents
  <2>. QED  BY <2>1, <2>2 DEF TextStep
<1>. QED  BY <1>1, <1>2, <1>3, <1>4, <1>5, <1>6, <1>7 DEF Next

\* The buffer keeps its shape, whatever is added to it and in what order.
LEMMA Invariance ==
    ASSUME WordHolds
    PROVE  Spec => []IInv
<1>1. Init => IInv
  BY InitKeeps
<1>2. IInv /\ [Next]_vars => IInv'
  BY NextKeeps
<1>. QED  BY <1>1, <1>2, PTL DEF Spec

\* Only bytes that were written are ever in the text, and it is inside the
\* buffer: for every set of strings and runes, as long as a usize_t holds
\* their lengths.
THEOREM TypeCorrect ==
    ASSUME WordHolds
    PROVE  Spec => []TypeOK
<1>1. IInv => TypeOK
  BY DEF IInv, TypeOK, Roomy, Cell
<1>. QED  BY <1>1, Invariance, PTL

\* Whoever makes a String grow first, and with whatever reservations before,
\* no byte goes past the buffer until the text and what is added to it exceed
\* three times byte_cap (string_append_str, string_prepend_str,
\* string_append_rune and output_string_stream_write).
THEOREM RoomCorrect ==
    ASSUME WordHolds
    PROVE  Spec => []RoomForThreeTimes
<1>1. IInv => RoomForThreeTimes
  BY DEF IInv
<1>. QED  BY <1>1, Invariance, PTL

\* A String implements a text: a call that returns OK has added its bytes at
\* the end it was to add them to, and any other call has added nothing.
THEOREM ImplementsText ==
    ASSUME WordHolds
    PROVE  Spec => IsText
<1>1. Init => T!Init
  BY InitKeeps
<1>2. IInv /\ [Next]_vars => [T!Next]_<<Contents, asked, ret>>
  BY NextKeeps DEF TextStep
<1>. QED  BY <1>1, <1>2, Invariance, PTL DEF Spec, IsText, T!Spec

-----------------------------------------------------------------------------
(* A String that is given a part of its own text.                          *)

\* With OwnTextIsAdded: once a call stopped, no other begins, so what it found
\* is still there.
VInv == IInv /\ OwnTextIsAdded

LEMMA PartIs ==
    ASSUME IInv, NEW p \in Parts
    PROVE  /\ p[1] \in Nat /\ p[2] \in Nat /\ p[1] + p[2] <= byte_len
           /\ ByteSlice(mem, p[1], p[2]) \in Strs \union Runes
           /\ Len(ByteSlice(mem, p[1], p[2])) = p[2]
<1>1. /\ byte_len \in Nat /\ mem \in Seq(Cell) /\ byte_len <= Len(mem)
  BY DEF IInv, Roomy
<1>2. /\ p[1] \in 0..byte_len /\ p[2] \in 0..byte_len /\ p[1] + p[2] <= byte_len
      /\ ByteSlice(mem, p[1], p[2]) \in Strs \union Runes
  BY DEF Parts
<1>. DEFINE f == p[1]  n == p[2]
<1>3. f \in Nat /\ n \in Nat /\ f + n <= byte_len
  BY <1>1, <1>2
<1>. HIDE DEF f, n
<1>4. Len(SubSeq(mem, f + 1, f + n)) = n
  BY <1>1, <1>3
<1>. QED  BY <1>2, <1>3, <1>4 DEF f, n, ByteSlice

\* Only a buffer that counts its rest rightly is grown.
LEMMA GrowForOwnStep ==
    ASSUME VInv, WordHolds, stop = "no", NEW p \in Parts, GrowForOwn(p[2])
    PROVE  VInv' /\ TextStep
<1>. DEFINE n == p[2]
<1>1. /\ n \in Nat /\ Begin(n) /\ RestCap < n
      /\ \/ Stops("freed")
         \/ ret' = "MEM_ALLOC" /\ UNCHANGED <<mem, byte_len, stop>>
  BY PartIs DEF VInv, GrowForOwn
<1>3. /\ byte_len + n <= MaxLen /\ asked' = n /\ byte_cap' = byte_cap
      /\ byte_len \in Nat /\ byte_cap \in Nat /\ MaxLen \in Nat /\ Word \in Nat
      /\ MaxLen < Word
  <2>. HIDE DEF n
  <2>. QED  BY <1>1, Begun DEF VInv, IInv
<1>4. byte_len' = byte_len /\ mem' = mem /\ ret' \in {"undefined", "MEM_ALLOC"}
  BY <1>1 DEF Stops
<1>. HIDE DEF n
<1>5. IInv' /\ TextStep
  BY <1>1, <1>4, FailedCall DEF VInv
<1>6. byte_len <= byte_cap /\ byte_len + n > byte_cap
  BY <1>1, <1>3, RestCapIs DEF VInv
<1>7. OwnTextIsAdded'
  <2>1. CASE Stops("freed")
    BY <1>3, <1>4, <1>6, <2>1 DEF OwnTextIsAdded, Stops
  <2>2. CASE stop' = stop
    BY <2>2 DEF OwnTextIsAdded
  <2>. QED  BY <1>1, <2>1, <2>2
<1>. QED  BY <1>5, <1>7 DEF VInv

\* A beginning of the text stays where it was when the text is moved.
LEMMA BeginningStays ==
    ASSUME IInv, NEW n \in Nat, n <= byte_len, byte_len + n <= Len(mem)
    PROVE  ReadBack(0, n) = ByteSlice(mem, 0, n)
<1>1. byte_len \in Nat /\ mem \in Seq(Cell) /\ byte_len <= Len(mem)
  BY DEF IInv, Roomy
<1>. DEFINE text == SubSeq(mem, 1, byte_len)  moved == Copied(mem, n, text)
<1>2. text \in Seq(Cell) /\ Len(text) = byte_len
  BY <1>1
<1>. HIDE DEF text
<1>3. /\ moved \in Seq(Cell) /\ Len(moved) = Len(mem)
      /\ \A k \in 1..Len(mem) :
            moved[k] = IF k > n /\ k <= n + Len(text)
                       THEN text[k - n] ELSE mem[k]
  BY <1>1, <1>2, CopiedIs
<1>4. Moved(mem, n) = moved
  BY DEF Moved, text
<1>. HIDE DEF moved
<1>5. \A k \in 1..n : moved[k] = mem[k]
  BY <1>1, <1>3
<1>6. n <= Len(mem) /\ n <= Len(moved) /\ Len(mem) \in Nat
  BY <1>1, <1>3
<1>7. /\ SubSeq(mem, 1, n) \in Seq(Cell) /\ Len(SubSeq(mem, 1, n)) = n
      /\ \A k \in 1..n : SubSeq(mem, 1, n)[k] = mem[k]
  BY <1>1, <1>6
<1>8. /\ SubSeq(moved, 1, n) \in Seq(Cell) /\ Len(SubSeq(moved, 1, n)) = n
      /\ \A k \in 1..n : SubSeq(moved, 1, n)[k] = moved[k]
  BY <1>3, <1>6
<1>. DEFINE before == SubSeq(mem, 1, n)  after == SubSeq(moved, 1, n)
<1>9. after = before
  <2>1. \A k \in 1..n : after[k] = before[k]
    BY <1>5, <1>7, <1>8
  <2>2. after \in Seq(Cell) /\ before \in Seq(Cell) /\ Len(after) = Len(before)
        /\ Len(after) = n
    BY <1>7, <1>8
  <2>. HIDE DEF before, after
  <2>. QED  BY <2>1, <2>2, SeqEqual
<1>. QED  BY <1>4, <1>9 DEF ReadBack, ByteSlice

LEMMA PrependOwnStep ==
    ASSUME VInv, WordHolds, stop = "no", NEW p \in Parts,
           PrependOwn(p[1], p[2]), from' = p[1]
    PROVE  VInv' /\ TextStep
<1>. DEFINE f == p[1]  n == p[2]
<1>1. /\ f \in Nat /\ n \in Nat /\ f + n <= byte_len
      /\ ByteSlice(mem, f, n) \in Strs \union Runes
  BY PartIs DEF VInv
<1>2. \/ /\ byte_len + n <= Len(mem)
         /\ f \in 1..(n - 1) \/ ReadBack(f, n) # ByteSlice(mem, f, n)
         /\ Begin(n) /\ Stops("garbled")
      \/ PrependStr(ByteSlice(mem, f, n)) /\ stop' = stop
  BY DEF PrependOwn
<1>3. from' = f
  OBVIOUS
<1>. HIDE DEF f, n
<1>4. CASE PrependStr(ByteSlice(mem, f, n)) /\ stop' = stop
  <2>1. IInv' /\ TextStep
    BY <1>1, <1>4, PrependStrStep DEF VInv
  <2>. QED  BY <1>4, <2>1 DEF VInv, OwnTextIsAdded
<1>5. CASE /\ byte_len + n <= Len(mem)
           /\ f \in 1..(n - 1) \/ ReadBack(f, n) # ByteSlice(mem, f, n)
           /\ Begin(n) /\ Stops("garbled")
  <2>1. /\ mem' = mem /\ byte_len' = byte_len /\ ret' = "undefined"
        /\ stop' = "garbled"
    BY <1>5 DEF Begin, Stops
  <2>2. IInv' /\ TextStep
    BY <1>1, <1>5, <2>1, FailedCall DEF VInv
  <2>3. f # 0
    <3>1. byte_len \in Nat /\ n <= byte_len
      BY <1>1 DEF VInv, IInv
    <3>2. ReadBack(0, n) = ByteSlice(mem, 0, n)
      BY <1>1, <1>5, <3>1, BeginningStays DEF VInv
    <3>. QED  BY <1>1, <1>5, <3>2
  <2>4. OwnTextIsAdded'
    BY <1>1, <1>3, <2>1, <2>3 DEF OwnTextIsAdded
  <2>. QED  BY <2>2, <2>4 DEF VInv
<1>. QED  BY <1>2, <1>4, <1>5

LEMMA ViewStep ==
    ASSUME WordHolds, VInv, [ViewNext]_viewVars
    PROVE  VInv' /\ TextStep
<1>1. CASE stop = "no" /\ Next /\ stop' = stop
  <2>1. IInv' /\ TextStep
    BY <1>1, NextKeeps DEF VInv
  <2>. QED  BY <1>1, <2>1 DEF VInv, OwnTextIsAdded
<1>2. ASSUME stop = "no", NEW p \in Parts, GrowForOwn(p[2])
      PROVE  VInv' /\ TextStep
  BY <1>2, GrowForOwnStep
<1>3. ASSUME stop = "no", NEW p \in Parts, AppendOwn(p[1], p[2])
      PROVE  VInv' /\ TextStep
  <2>1. IInv' /\ TextStep
    BY <1>3, PartIs, AppendStrStep DEF AppendOwn, VInv
  <2>. QED  BY <1>3, <2>1 DEF VInv, OwnTextIsAdded, AppendOwn
<1>4. ASSUME stop = "no", NEW p \in Parts, PrependOwn(p[1], p[2]), from' = p[1]
      PROVE  VInv' /\ TextStep
  BY <1>4, PrependOwnStep
<1>5. CASE UNCHANGED viewVars
  <2>1. UNCHANGED vars /\ stop' = stop /\ from' = from
    BY <1>5 DEF viewVars
  <2>2. IInv' /\ TextStep
    BY <2>1, NextKeeps DEF VInv
  <2>. QED  BY <2>1, <2>2 DEF VInv, OwnTextIsAdded, vars
<1>. QED  BY <1>1, <1>2, <1>3, <1>4, <1>5 DEF ViewNext

LEMMA ViewStarts ==
    ASSUME WordHolds
    PROVE  ViewInit => VInv /\ T!Init
BY InitKeeps DEF ViewInit, VInv, OwnTextIsAdded

LEMMA ViewInvariance ==
    ASSUME WordHolds
    PROVE  ViewSpec => []VInv
<1>1. ViewInit => VInv
  BY ViewStarts
<1>2. VInv /\ [ViewNext]_viewVars => VInv'
  BY ViewStep
<1>. QED  BY <1>1, <1>2, PTL DEF ViewSpec

\* A part of its own text is appended, and a beginning of it put in front, as
\* what it is: bytes are freed under it only where byte_cap has no room for it,
\* and move under it only when it is not a beginning.
THEOREM OwnTextCorrect ==
    ASSUME WordHolds
    PROVE  ViewSpec => []OwnTextIsAdded
<1>1. VInv => OwnTextIsAdded
  BY DEF VInv
<1>. QED  BY <1>1, ViewInvariance, PTL

\* The room for three times byte_cap is there for such calls too.
THEOREM ViewRoomCorrect ==
    ASSUME WordHolds
    PROVE  ViewSpec => []RoomForThreeTimes
<1>1. VInv => RoomForThreeTimes
  BY DEF VInv, IInv
<1>. QED  BY <1>1, ViewInvariance, PTL

\* And so is the text: a part of it that was added is what it was before.
THEOREM ViewImplementsText ==
    ASSUME WordHolds
    PROVE  ViewSpec => IsText
<1>1. ViewInit => T!Init
  BY ViewStarts
<1>2. VInv /\ [ViewNext]_viewVars => [T!Next]_<<Contents, asked, ret>>
  BY ViewStep DEF TextStep
<1>. QED  BY <1>1, <1>2, ViewInvariance, PTL DEF ViewSpec, IsText, T!Spec
=============================================================================
