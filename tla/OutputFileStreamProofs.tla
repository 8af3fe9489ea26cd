----------------------- MODULE OutputFileStreamProofs -----------------------
(***************************************************************************)
(* Proofs about OutputFileStream, for every buffer size, every set of      *)
(* requests and every choice of the C library's faults.                    *)
(***************************************************************************)
EXTENDS OutputFileStream, SequenceTheorems, TLAPS

Cell == Byte \union {NoByte}

-----------------------------------------------------------------------------
(* Sequences.                                                              *)

\* ConcatAssociative for the sequences of the streams, in one formula.
LEMMA Assoc ==
    \A s, t, u \in Seq(Byte) : (s \o t) \o u = s \o (t \o u)
<1> SUFFICES ASSUME NEW s \in Seq(Byte), NEW t \in Seq(Byte), NEW u \in Seq(Byte)
             PROVE  (s \o t) \o u = s \o (t \o u)
  OBVIOUS
<1> QED
  BY ConcatAssociative

\* A sequence cut in two.
LEMMA SplitSeq ==
    ASSUME NEW S, NEW s \in Seq(S), NEW n \in 0..Len(s)
    PROVE  /\ SubSeq(s, 1, n) \in Seq(S)
           /\ SubSeq(s, n + 1, Len(s)) \in Seq(S)
           /\ Len(SubSeq(s, 1, n)) = n
           /\ Len(SubSeq(s, n + 1, Len(s))) = Len(s) - n
           /\ SubSeq(s, 1, n) \o SubSeq(s, n + 1, Len(s)) = s
<1>1. Len(s) \in Nat /\ \A i \in 1..Len(s) : s[i] \in S
  BY LenProperties, ElementOfSeq
<1>2. \A i \in 1..n : s[i] \in S
  BY <1>1
<1>3. \A i \in (n + 1)..Len(s) : s[i] \in S
  BY <1>1
<1>4. /\ SubSeq(s, 1, n) \in Seq(S)
      /\ Len(SubSeq(s, 1, n)) = n
  BY <1>1, <1>2, SubSeqProperties
<1>5. /\ SubSeq(s, n + 1, Len(s)) \in Seq(S)
      /\ Len(SubSeq(s, n + 1, Len(s))) = Len(s) - n
  BY <1>1, <1>3, SubSeqProperties
<1>6. SubSeq(s, 1, n) \o SubSeq(s, n + 1, Len(s)) = SubSeq(s, 1, Len(s))
  <2>1. 1 \in 1..Len(s) + 1 /\ n \in (1 - 1)..Len(s) /\ Len(s) \in n..Len(s)
    BY <1>1
  <2> QED
    BY <2>1, ConcatAdjacentSubSeq
<1> QED
  BY <1>4, <1>5, <1>6, SubSeqFull

\* Three adjacent pieces: what a short fwrite took and what it left.
LEMMA SplitPending ==
    ASSUME NEW S, NEW T, NEW s \in Seq(S),
           NEW b \in 0..Len(s), NEW e \in b..Len(s), NEW m \in b..e,
           \A i \in (b + 1)..e : s[i] \in T
    PROVE  /\ SubSeq(s, b + 1, m) \in Seq(T)
           /\ SubSeq(s, m + 1, e) \in Seq(T)
           /\ SubSeq(s, b + 1, e) \in Seq(T)
           /\ Len(SubSeq(s, b + 1, e)) = e - b
           /\ SubSeq(s, b + 1, m) \o SubSeq(s, m + 1, e) = SubSeq(s, b + 1, e)
<1>1. Len(s) \in Nat
  BY LenProperties
<1>2. \A i \in (b + 1)..m : s[i] \in T
  BY <1>1
<1>3. \A i \in (m + 1)..e : s[i] \in T
  BY <1>1
<1>4. SubSeq(s, b + 1, m) \in Seq(T)
  BY <1>1, <1>2, SubSeqProperties
<1>5. SubSeq(s, m + 1, e) \in Seq(T)
  BY <1>1, <1>3, SubSeqProperties
<1>6. /\ SubSeq(s, b + 1, e) \in Seq(T)
      /\ Len(SubSeq(s, b + 1, e)) = e - b
  BY <1>1, SubSeqProperties
<1>7. SubSeq(s, b + 1, m) \o SubSeq(s, m + 1, e) = SubSeq(s, b + 1, e)
  <2>1. /\ b + 1 \in 1..Len(s) + 1
        /\ m \in (b + 1 - 1)..Len(s)
        /\ e \in m..Len(s)
    BY <1>1
  <2> QED
    BY <2>1, ConcatAdjacentSubSeq
<1> QED
  BY <1>4, <1>5, <1>6, <1>7

-----------------------------------------------------------------------------
(* The helpers of the module.                                              *)

\* memcpy inside the buffer appends its bytes to what was pending before.
LEMMA CopiedAppends ==
    ASSUME buffer \in Seq(Cell),
           NEW at \in 0..Len(buffer), NEW b \in 0..at,
           NEW bytes \in Seq(Byte), at + Len(bytes) <= Len(buffer),
           \A i \in (b + 1)..at : buffer[i] \in Byte
    PROVE  /\ Copied(at, bytes) \in Seq(Cell)
           /\ Len(Copied(at, bytes)) = Len(buffer)
           /\ \A i \in (b + 1)..(at + Len(bytes)) : Copied(at, bytes)[i] \in Byte
           /\ SubSeq(Copied(at, bytes), b + 1, at + Len(bytes))
                = SubSeq(buffer, b + 1, at) \o bytes
<1> DEFINE c == Copied(at, bytes)
           n == Len(bytes)
           new == SubSeq(c, b + 1, at + n)
           old == SubSeq(buffer, b + 1, at)
<1>1. /\ Len(buffer) \in Nat /\ n \in Nat
      /\ \A i \in 1..Len(buffer) : buffer[i] \in Cell
      /\ \A i \in 1..n : bytes[i] \in Byte
  BY LenProperties, ElementOfSeq
<1>2. \A i \in 1..Len(buffer) :
        c[i] = IF i > at /\ i <= at + n THEN bytes[i - at] ELSE buffer[i]
  BY DEF Copied
<1>3. c \in Seq(Cell) /\ Len(c) = Len(buffer)
  <2>1. \A i \in 1..Len(buffer) : c[i] \in Cell
    <3>1. SUFFICES ASSUME NEW i \in 1..Len(buffer) PROVE c[i] \in Cell
      OBVIOUS
    <3>2. CASE i > at /\ i <= at + n
      <4>1. i - at \in 1..n
        BY <1>1, <3>2
      <4> QED
        BY <1>1, <1>2, <3>2, <4>1 DEF Cell
    <3>3. CASE ~(i > at /\ i <= at + n)
      BY <1>1, <1>2, <3>3
    <3> QED
      BY <3>2, <3>3
  <2>2. c = [i \in 1..Len(buffer) |-> c[i]]
    BY DEF Copied
  <2> QED
    BY <1>1, <2>1, <2>2
<1>4. \A i \in (b + 1)..(at + n) : c[i] \in Byte
  <2>1. SUFFICES ASSUME NEW i \in (b + 1)..(at + n) PROVE c[i] \in Byte
    OBVIOUS
  <2>2. i \in 1..Len(buffer)
    BY <1>1
  <2>3. CASE i > at
    <3>1. i - at \in 1..n
      BY <1>1, <2>3
    <3> QED
      BY <1>1, <1>2, <2>2, <2>3, <3>1
  <2>4. CASE ~(i > at)
    <3>1. i \in (b + 1)..at
      BY <1>1, <2>4
    <3> QED
      BY <1>1, <1>2, <2>2, <2>4, <3>1
  <2> QED
    BY <2>3, <2>4
<1>5. /\ old \in Seq(Byte) /\ Len(old) = at - b
      /\ \A i \in 1..(at - b) : old[i] = buffer[b + i]
  <2>1. b + 1 \in Int /\ at \in Int /\ at >= b
    BY <1>1
  <2> QED
    BY <2>1, SubSeqProperties
<1>6. /\ new \in Seq(Byte) /\ Len(new) = at - b + n
      /\ \A i \in 1..(at - b + n) : new[i] = c[b + i]
  <2>1. b + 1 \in Int /\ at + n \in Int /\ at + n >= b
    BY <1>1
  <2> HIDE DEF c
  <2> QED
    BY <1>1, <1>4, <2>1, SubSeqProperties
<1>7. new = old \o bytes
  <2>1. /\ old \o bytes \in Seq(Byte)
        /\ Len(old \o bytes) = at - b + n
        /\ \A i \in 1..(at - b + n) :
             (old \o bytes)[i] = IF i <= at - b THEN old[i] ELSE bytes[i - (at - b)]
    <3> HIDE DEF c, new, old
    <3>1. /\ old \o bytes \in Seq(Byte)
          /\ Len(old \o bytes) = Len(old) + n
          /\ \A i \in 1..(Len(old) + n) :
               (old \o bytes)[i] = IF i <= Len(old) THEN old[i] ELSE bytes[i - Len(old)]
      BY <1>5, ConcatProperties
    <3> QED
      BY <1>5, <3>1
  <2>2. \A i \in 1..(at - b + n) : new[i] = (old \o bytes)[i]
    <3>1. SUFFICES ASSUME NEW i \in 1..(at - b + n)
                   PROVE  new[i] = (old \o bytes)[i]
      OBVIOUS
    <3>2. /\ b + i \in 1..Len(buffer)
          /\ new[i] = IF b + i > at /\ b + i <= at + n
                      THEN bytes[b + i - at] ELSE buffer[b + i]
      BY <1>1, <1>2, <1>6
    <3>3. CASE i <= at - b
      BY <1>1, <1>5, <2>1, <3>2, <3>3
    <3>4. CASE ~(i <= at - b)
      <4>1. b + i - at = i - (at - b) /\ b + i > at /\ b + i <= at + n
        BY <1>1, <3>4
      <4> HIDE DEF c, new, old
      <4> QED
        BY <2>1, <3>2, <3>4, <4>1
    <3> QED
      BY <3>3, <3>4
  <2> HIDE DEF new, old
  <2> QED
    BY <1>6, <2>1, <2>2, SeqEqual
<1> QED
  BY <1>3, <1>4, <1>7

\* Whatever the C library takes is in the FILE or in the file, in order.
LEMMA TakeAppends ==
    ASSUME stdio \in Seq(Byte), file \in Seq(Byte),
           NEW bytes \in Seq(Byte), NEW flushed \in BOOLEAN,
           Take(bytes, flushed)
    PROVE  /\ stdio' \in Seq(Byte)
           /\ file' \in Seq(Byte)
           /\ file' \o stdio' = (file \o stdio) \o bytes
           /\ flushed => stdio' = <<>>
<1> DEFINE held == stdio \o bytes
<1>1. held \in Seq(Byte) /\ Len(held) \in Nat
  BY ConcatProperties, LenProperties
<1>2. PICK n \in 0..Len(held) :
        /\ file' = file \o SubSeq(held, 1, n)
        /\ stdio' = SubSeq(held, n + 1, Len(held))
        /\ flushed => n = Len(held)
  <2>1. CASE flushed = TRUE
    <3>1. Take(bytes, TRUE)
      BY <2>1
    <3>2. \E n \in {Len(held)} : /\ file' = file \o SubSeq(held, 1, n)
                                 /\ stdio' = SubSeq(held, n + 1, Len(held))
      BY <3>1 DEF Take
    <3>3. Len(held) \in 0..Len(held)
      BY <1>1
    <3> HIDE DEF held
    <3> QED
      BY <3>2, <3>3
  <2>2. CASE flushed = FALSE
    <3>1. Take(bytes, FALSE)
      BY <2>2
    <3>2. \E n \in 0..Len(held) : /\ file' = file \o SubSeq(held, 1, n)
                                   /\ stdio' = SubSeq(held, n + 1, Len(held))
      BY <3>1 DEF Take
    <3> QED
      BY <2>2, <3>2
  <2> QED
    BY <2>1, <2>2
<1> HIDE DEF held
<1> DEFINE passed == SubSeq(held, 1, n)
           kept == SubSeq(held, n + 1, Len(held))
<1>3. passed \in Seq(Byte) /\ kept \in Seq(Byte) /\ passed \o kept = held
  BY <1>1, SplitSeq
<1>4. file' \in Seq(Byte) /\ stdio' \in Seq(Byte)
  BY <1>2, <1>3, ConcatProperties
<1>5. file' \o stdio' = file \o held
  <2>1. file' \o stdio' = (file \o passed) \o kept
    BY <1>2
  <2> HIDE DEF passed, kept
  <2>2. (file \o passed) \o kept = file \o (passed \o kept)
    BY <1>3, Assoc
  <2> QED
    BY <1>3, <2>1, <2>2
<1>6. file \o held = (file \o stdio) \o bytes
  BY ConcatAssociative DEF held
<1>7. flushed => stdio' = <<>>
  BY <1>1, <1>2, SubSeqEmpty
<1> QED
  BY <1>4, <1>5, <1>6, <1>7

\* A flush says whether its fflush failed, if it called it.
LEMMA FlagKept ==
    ASSUME unflushed \in BOOLEAN, NEW bytes, NEW b, NEW e,
           \/ FlushNothing(b, e)
           \/ FlushAll(bytes, b, e)
           \/ FlushShort(bytes, b, e)
    PROVE  unflushed' \in BOOLEAN
BY Zenon DEF FlushNothing, FlushAll, FlushShort

\* A flush moves pending bytes into the FILE, whichever way it ends: the
\* cursors stay around written bytes and the stream is the same as before.
LEMMA FlushKeeps ==
    ASSUME stdio \in Seq(Byte), file \in Seq(Byte),
           NEW bytes \in Seq(Cell),
           NEW b \in 0..Len(bytes), NEW e \in b..Len(bytes),
           \A i \in (b + 1)..e : bytes[i] \in Byte,
           \/ FlushNothing(b, e)
           \/ FlushAll(bytes, b, e)
           \/ FlushShort(bytes, b, e)
    PROVE  /\ stdio' \in Seq(Byte)
           /\ file' \in Seq(Byte)
           /\ b_cursor' \in 0..Len(bytes)
           /\ e_cursor' \in b_cursor'..Len(bytes)
           /\ \A i \in (b_cursor' + 1)..e_cursor' : bytes[i] \in Byte
           /\ (file' \o stdio') \o SubSeq(bytes, b_cursor' + 1, e_cursor')
                = (file \o stdio) \o SubSeq(bytes, b + 1, e)
<1>1. Len(bytes) \in Nat
  BY LenProperties
<1>2. CASE FlushNothing(b, e)
  BY <1>1, <1>2 DEF FlushNothing
<1>3. CASE FlushAll(bytes, b, e)
  <2> DEFINE out == SubSeq(bytes, b + 1, e)
  <2>1. out \in Seq(Byte)
    BY <1>1, SplitPending
  <2>2. b_cursor' = 0 /\ e_cursor' = 0
    BY <1>3 DEF FlushAll, ResetCursors
  <2>3. Take(out, TRUE) \/ Take(out, FALSE)
    BY <1>3 DEF FlushAll
  <2> HIDE DEF out
  <2>4. /\ stdio' \in Seq(Byte) /\ file' \in Seq(Byte)
        /\ file' \o stdio' = (file \o stdio) \o out
    <3>1. CASE Take(out, TRUE)
      BY <2>1, <3>1, TakeAppends
    <3>2. CASE Take(out, FALSE)
      BY <2>1, <3>2, TakeAppends
    <3> QED
      BY <2>3, <3>1, <3>2
  <2>5. SubSeq(bytes, b_cursor' + 1, e_cursor') = <<>>
    BY <2>2, SubSeqEmpty
  <2>6. file' \o stdio' \in Seq(Byte)
    BY <2>4, ConcatProperties
  <2>7. (file' \o stdio') \o <<>> = file' \o stdio'
    BY <2>6, ConcatEmptySeq
  <2>8. (file' \o stdio') \o SubSeq(bytes, b_cursor' + 1, e_cursor')
          = (file \o stdio) \o out
    BY <2>4, <2>5, <2>7
  <2>9. /\ b_cursor' \in 0..Len(bytes)
        /\ e_cursor' \in b_cursor'..Len(bytes)
        /\ \A i \in (b_cursor' + 1)..e_cursor' : bytes[i] \in Byte
    BY <1>1, <2>2
  <2>10. (file' \o stdio') \o SubSeq(bytes, b_cursor' + 1, e_cursor')
           = (file \o stdio) \o SubSeq(bytes, b + 1, e)
    BY <2>8, Zenon DEF out
  <2> QED
    BY <2>4, <2>9, <2>10, Zenon
<1>4. CASE FlushShort(bytes, b, e)
  <2>1. PICK written \in 0..(e - b - 1) :
          /\ Take(SubSeq(bytes, b + 1, b + written), FALSE)
          /\ b_cursor' = b + written
    BY <1>4 DEF FlushShort
  <2>2. e_cursor' = e
    BY <1>4 DEF FlushShort
  <2> DEFINE m == b + written
             out == SubSeq(bytes, b + 1, m)
             left == SubSeq(bytes, m + 1, e)
             all == SubSeq(bytes, b + 1, e)
  <2>3. m \in b..e
    BY <1>1
  <2>4. out \in Seq(Byte) /\ left \in Seq(Byte) /\ out \o left = all
    <3> HIDE DEF m
    <3> QED
      BY <2>3, SplitPending
  <2>5. /\ b_cursor' \in 0..Len(bytes)
        /\ e_cursor' \in b_cursor'..Len(bytes)
        /\ \A i \in (b_cursor' + 1)..e_cursor' : bytes[i] \in Byte
    BY <1>1, <2>1, <2>2
  <2>6. Take(out, FALSE) /\ SubSeq(bytes, b_cursor' + 1, e_cursor') = left
    BY <2>1, <2>2
  <2> HIDE DEF m, out, left, all
  <2>7. /\ stdio' \in Seq(Byte) /\ file' \in Seq(Byte)
        /\ file' \o stdio' = (file \o stdio) \o out
    BY <2>4, <2>6, TakeAppends
  <2>8. file \o stdio \in Seq(Byte)
    BY ConcatProperties
  <2>9. ((file \o stdio) \o out) \o left = (file \o stdio) \o all
    <3> DEFINE before == file \o stdio
    <3> HIDE DEF before
    <3>1. before \in Seq(Byte)
      BY <2>8 DEF before
    <3>2. (before \o out) \o left = before \o (out \o left)
      BY <2>4, <3>1, Assoc
    <3> QED
      BY <2>4, <3>2 DEF before
  <2> QED
    BY <2>5, <2>6, <2>7, <2>9 DEF all
<1> QED
  BY <1>2, <1>3, <1>4

-----------------------------------------------------------------------------
(* The inductive invariant: the cursors stay inside the buffer, around     *)
(* bytes that a write has put there.                                       *)

IInv == TypeOK /\ PendingIsWritten

LEMMA PendingType ==
    ASSUME IInv
    PROVE  Pending \in Seq(Byte) /\ Stream \in Seq(Byte)
<1>1. Pending \in Seq(Byte)
  BY SplitPending DEF IInv, TypeOK, PendingIsWritten, Pending, Cell
<1> QED
  BY <1>1, ConcatProperties DEF IInv, TypeOK, Stream

LEMMA InitInv == Init => IInv
<1> SUFFICES ASSUME Init PROVE IInv
  OBVIOUS
<1>1. PICK size \in {BufferSize, 0} : buffer = [i \in 1..size |-> NoByte]
  <2>1. CASE AllocMayFail = TRUE
    BY <2>1 DEF Init
  <2>2. CASE AllocMayFail = FALSE
    BY <2>2 DEF Init
  <2> QED
    BY <2>1, <2>2, BufferAssumption
<1>2. size \in Nat
  BY BufferAssumption
<1>3. buffer \in Seq(Byte \union {NoByte}) /\ Len(buffer) = size
  BY <1>1, <1>2
<1>4. <<>> \in Seq(Byte)
  BY EmptySeq
<1>5. /\ b_cursor = 0 /\ e_cursor = 0 /\ stdio = <<>> /\ file = <<>>
      /\ data = <<>> /\ op = "none" /\ ret = "none"
  BY DEF Init
<1>6. unflushed \in BOOLEAN
  BY DEF Init
<1> QED
  BY <1>2, <1>3, <1>4, <1>5, <1>6 DEF IInv, TypeOK, PendingIsWritten

LEMMA WriteKeeps ==
    ASSUME IInv, NEW d \in Seq(Byte), Write(d)
    PROVE  IInv' /\ Stream' = Stream
BY DEF Write, IInv, TypeOK, PendingIsWritten, Stream, Pending

\* One iteration of the loop adds as much of the data as there was room for.
LEMMA FillKeeps ==
    ASSUME IInv, FillAndFlush
    PROVE  /\ IInv'
           /\ RestSize \in 0..Len(data)
           /\ Stream' = Stream \o SubSeq(data, 1, RestSize)
           /\ data' = SubSeq(data, RestSize + 1, Len(data))
           /\ data' # <<>>
           /\ \A i \in (b_cursor + 1)..(e_cursor + RestSize) : buffer'[i] \in Byte
<1> DEFINE n == RestSize
           filled == Copied(e_cursor, SubSeq(data, 1, n))
           e == e_cursor + n
<1>1. /\ buffer \in Seq(Cell) /\ data \in Seq(Byte)
      /\ stdio \in Seq(Byte) /\ file \in Seq(Byte)
      /\ b_cursor \in 0..Len(buffer) /\ e_cursor \in b_cursor..Len(buffer)
      /\ Len(buffer) \in Nat /\ Len(data) \in Nat
  BY LenProperties DEF IInv, TypeOK, Cell
<1>2. n \in 0..Len(data) /\ n # Len(data) /\ e = Len(buffer)
  BY <1>1 DEF FillAndFlush, RestSize
<1>3. /\ SubSeq(data, 1, n) \in Seq(Byte) /\ Len(SubSeq(data, 1, n)) = n
      /\ SubSeq(data, n + 1, Len(data)) \in Seq(Byte)
      /\ Len(SubSeq(data, n + 1, Len(data))) = Len(data) - n
  <2> HIDE DEF n
  <2> QED
    BY <1>1, <1>2, SplitSeq
<1>4. /\ filled \in Seq(Cell) /\ Len(filled) = Len(buffer)
      /\ \A i \in (b_cursor + 1)..e : filled[i] \in Byte
      /\ SubSeq(filled, b_cursor + 1, e) = Pending \o SubSeq(data, 1, n)
  <2>1. \A i \in (b_cursor + 1)..e_cursor : buffer[i] \in Byte
    BY DEF IInv, PendingIsWritten
  <2>2. e_cursor \in 0..Len(buffer) /\ b_cursor \in 0..e_cursor
    BY <1>1
  <2> DEFINE copied == SubSeq(data, 1, n)
  <2>3. copied \in Seq(Byte) /\ e_cursor + Len(copied) = e /\ e <= Len(buffer)
    BY <1>1, <1>2, <1>3
  <2> HIDE DEF n, copied, e
  <2>4. /\ Copied(e_cursor, copied) \in Seq(Cell)
        /\ Len(Copied(e_cursor, copied)) = Len(buffer)
        /\ \A i \in (b_cursor + 1)..(e_cursor + Len(copied)) :
             Copied(e_cursor, copied)[i] \in Byte
        /\ SubSeq(Copied(e_cursor, copied), b_cursor + 1, e_cursor + Len(copied))
             = SubSeq(buffer, b_cursor + 1, e_cursor) \o copied
    BY <1>1, <2>1, <2>2, <2>3, CopiedAppends
  <2> QED
    BY <2>3, <2>4 DEF Pending, copied
<1>5. /\ buffer' = filled
      /\ data' = SubSeq(data, n + 1, Len(data))
      /\ op' = op
      /\ \/ FlushNothing(b_cursor, e) /\ ret' = ret
         \/ FlushAll(filled, b_cursor, e) /\ ret' = ret
         \/ FlushShort(filled, b_cursor, e) /\ ret' = "WRITE"
  BY DEF FillAndFlush
<1> HIDE DEF n, filled, e
<1>6. b_cursor \in 0..Len(filled) /\ e \in b_cursor..Len(filled)
  BY <1>1, <1>2, <1>4
<1>7. /\ stdio' \in Seq(Byte) /\ file' \in Seq(Byte)
      /\ b_cursor' \in 0..Len(filled)
      /\ e_cursor' \in b_cursor'..Len(filled)
      /\ \A i \in (b_cursor' + 1)..e_cursor' : filled[i] \in Byte
      /\ (file' \o stdio') \o SubSeq(filled, b_cursor' + 1, e_cursor')
           = (file \o stdio) \o SubSeq(filled, b_cursor + 1, e)
  BY <1>1, <1>4, <1>5, <1>6, FlushKeeps
<1>8. IInv'
  <2>1. ret' \in {"none", "running", "OK", "WRITE"} /\ op' \in {"none", "write", "flush"}
    BY <1>5 DEF IInv, TypeOK
  <2>2. unflushed' \in BOOLEAN
    BY <1>5, FlagKept DEF IInv, TypeOK
  <2> QED
    BY <1>3, <1>4, <1>5, <1>7, <2>1, <2>2 DEF IInv, TypeOK, PendingIsWritten, Cell
<1>9. Stream' = Stream \o SubSeq(data, 1, n)
  <2>1. Stream' = (file \o stdio) \o (Pending \o SubSeq(data, 1, n))
    BY <1>4, <1>5, <1>7 DEF Stream, Pending
  <2>2. file \o stdio \in Seq(Byte) /\ Pending \in Seq(Byte)
    BY <1>1, PendingType, ConcatProperties
  <2> DEFINE before == file \o stdio
             copied == SubSeq(data, 1, n)
  <2>3. before \in Seq(Byte) /\ copied \in Seq(Byte) /\ Stream = before \o Pending
    BY <1>3, <2>2 DEF Stream
  <2>4. Stream' = before \o (Pending \o copied)
    BY <2>1
  <2> HIDE DEF before, copied
  <2>5. (before \o Pending) \o copied = before \o (Pending \o copied)
    BY <2>2, <2>3, Assoc
  <2>6. Stream' = Stream \o copied
    BY <2>3, <2>4, <2>5
  <2> QED
    BY <2>6 DEF copied
<1>10. data' # <<>>
  <2>1. Len(data') # 0
    BY <1>1, <1>2, <1>3, <1>5
  <2> QED
    BY <2>1, EmptySeq
<1> QED
  BY <1>2, <1>4, <1>5, <1>8, <1>9, <1>10 DEF n, e

LEMMA CopyKeeps ==
    ASSUME IInv, CopyRest
    PROVE  IInv' /\ Stream' = Stream \o data
<1>1. /\ buffer \in Seq(Cell) /\ data \in Seq(Byte)
      /\ stdio \in Seq(Byte) /\ file \in Seq(Byte)
      /\ b_cursor \in 0..Len(buffer) /\ e_cursor \in b_cursor..Len(buffer)
      /\ Len(buffer) \in Nat /\ Len(data) \in Nat
  BY LenProperties DEF IInv, TypeOK, Cell
<1>2. /\ e_cursor + Len(data) <= Len(buffer)
      /\ buffer' = Copied(e_cursor, data)
      /\ e_cursor' = e_cursor + Len(data)
      /\ data' = <<>> /\ ret' = "OK" /\ op' = op
      /\ b_cursor' = b_cursor /\ stdio' = stdio /\ file' = file
  BY <1>1 DEF CopyRest, RestSize
<1>3. /\ Copied(e_cursor, data) \in Seq(Cell)
      /\ Len(Copied(e_cursor, data)) = Len(buffer)
      /\ \A i \in (b_cursor + 1)..(e_cursor + Len(data)) :
           Copied(e_cursor, data)[i] \in Byte
      /\ SubSeq(Copied(e_cursor, data), b_cursor + 1, e_cursor + Len(data))
           = SubSeq(buffer, b_cursor + 1, e_cursor) \o data
  <2>1. \A i \in (b_cursor + 1)..e_cursor : buffer[i] \in Byte
    BY DEF IInv, PendingIsWritten
  <2>2. e_cursor \in 0..Len(buffer) /\ b_cursor \in 0..e_cursor
    BY <1>1
  <2> QED
    BY <1>1, <1>2, <2>1, <2>2, CopiedAppends
<1>4. IInv'
  <2>1. <<>> \in Seq(Byte) /\ op' \in {"none", "write", "flush"}
    BY <1>2, EmptySeq DEF IInv, TypeOK
  <2>2. /\ b_cursor' \in 0..Len(buffer')
        /\ e_cursor' \in b_cursor'..Len(buffer')
    BY <1>1, <1>2, <1>3
  <2>3. unflushed' \in BOOLEAN
    BY DEF CopyRest, IInv, TypeOK
  <2> QED
    BY <1>1, <1>2, <1>3, <2>1, <2>2, <2>3 DEF IInv, TypeOK, PendingIsWritten, Cell
<1>5. Stream' = Stream \o data
  <2> DEFINE before == file \o stdio
  <2>1. before \in Seq(Byte) /\ Pending \in Seq(Byte) /\ Stream = before \o Pending
    BY <1>1, PendingType, ConcatProperties DEF Stream
  <2>2. Stream' = before \o (Pending \o data)
    BY <1>2, <1>3 DEF Stream, Pending
  <2> HIDE DEF before
  <2>3. (before \o Pending) \o data = before \o (Pending \o data)
    BY <1>1, <2>1, Assoc
  <2> QED
    BY <2>1, <2>2, <2>3
<1> QED
  BY <1>4, <1>5

LEMMA FlushKeepsAll ==
    ASSUME IInv, Flush
    PROVE  IInv' /\ Stream' = Stream
<1>1. /\ buffer \in Seq(Cell)
      /\ stdio \in Seq(Byte) /\ file \in Seq(Byte)
      /\ b_cursor \in 0..Len(buffer) /\ e_cursor \in b_cursor..Len(buffer)
      /\ \A i \in (b_cursor + 1)..e_cursor : buffer[i] \in Byte
  BY DEF IInv, TypeOK, PendingIsWritten, Cell
<1>2. /\ buffer' = buffer /\ data' = <<>> /\ op' = "flush"
      /\ ret' \in {"OK", "WRITE"}
      /\ \/ FlushNothing(b_cursor, e_cursor)
         \/ FlushAll(buffer, b_cursor, e_cursor)
         \/ FlushShort(buffer, b_cursor, e_cursor)
  BY DEF Flush
<1>3. /\ stdio' \in Seq(Byte) /\ file' \in Seq(Byte)
      /\ b_cursor' \in 0..Len(buffer)
      /\ e_cursor' \in b_cursor'..Len(buffer)
      /\ \A i \in (b_cursor' + 1)..e_cursor' : buffer[i] \in Byte
      /\ (file' \o stdio') \o SubSeq(buffer, b_cursor' + 1, e_cursor')
           = (file \o stdio) \o SubSeq(buffer, b_cursor + 1, e_cursor)
  BY <1>1, <1>2, FlushKeeps
<1>4. IInv'
  <2>1. <<>> \in Seq(Byte)
    BY EmptySeq
  <2>2. unflushed' \in BOOLEAN
    BY <1>2, FlagKept DEF IInv, TypeOK
  <2> QED
    BY <1>1, <1>2, <1>3, <2>1, <2>2 DEF IInv, TypeOK, PendingIsWritten, Cell
<1>5. Stream' = Stream
  BY <1>2, <1>3 DEF Stream, Pending
<1> QED
  BY <1>4, <1>5

LEMMA NextKeeps == IInv /\ [Next]_vars => IInv'
<1> SUFFICES ASSUME IInv, [Next]_vars PROVE IInv'
  OBVIOUS
<1>1. CASE \E d \in Requests : Write(d)
  BY <1>1, WriteKeeps, RequestAssumption
<1>2. CASE FillAndFlush
  BY <1>2, FillKeeps
<1>3. CASE CopyRest
  BY <1>3, CopyKeeps
<1>4. CASE Flush
  BY <1>4, FlushKeepsAll
<1>5. CASE UNCHANGED vars
  BY <1>5 DEF vars, IInv, TypeOK, PendingIsWritten
<1> QED
  BY <1>1, <1>2, <1>3, <1>4, <1>5 DEF Next

\* No write leaves the buffer: the cursors stay in order inside it, and every
\* variable keeps its type.
THEOREM TypeCorrect == Spec => []TypeOK
<1>1. IInv => TypeOK
  BY DEF IInv
<1> QED
  BY <1>1, InitInv, NextKeeps, PTL DEF Spec

\* fwrite is never given what malloc left in the buffer.
THEOREM PendingCorrect == Spec => []PendingIsWritten
<1>1. IInv => PendingIsWritten
  BY DEF IInv
<1> QED
  BY <1>1, InitInv, NextKeeps, PTL DEF Spec

-----------------------------------------------------------------------------
(* The stream its callers see: OutputFileStream implements ByteStream.     *)

LEMMA InitRefines == Init => Bytes!Init
<1> SUFFICES ASSUME Init PROVE Bytes!Init
  OBVIOUS
<1>1. Pending = <<>>
  BY SubSeqEmpty DEF Init, Pending
<1>2. <<>> \o <<>> = <<>>
  BY EmptySeq, ConcatEmptySeq
<1> QED
  BY <1>1, <1>2 DEF Init, Bytes!Init, Stream

LEMMA NextRefines == IInv /\ [Next]_vars => [Bytes!Next]_(Bytes!vars)
<1> SUFFICES ASSUME IInv, [Next]_vars PROVE [Bytes!Next]_(Bytes!vars)
  OBVIOUS
<1>1. ASSUME NEW d \in Requests, Write(d) PROVE Bytes!Begin
  BY <1>1, WriteKeeps, RequestAssumption DEF Write, Bytes!Begin
<1>2. CASE FillAndFlush
  <2>1. /\ RestSize \in 0..Len(data)
        /\ Stream' = Stream \o SubSeq(data, 1, RestSize)
        /\ data' = SubSeq(data, RestSize + 1, Len(data))
        /\ data' # <<>>
    BY <1>2, FillKeeps
  <2>2. ret = "running" /\ (ret' = ret \/ ret' = "WRITE")
    BY <1>2 DEF FillAndFlush
  <2>3. Bytes!Accept
    BY <2>1, <2>2 DEF Bytes!Accept
  <2> QED
    BY <2>3 DEF Bytes!Next
<1>3. CASE CopyRest
  <2>1. /\ Stream' = Stream \o data
        /\ data' = <<>> /\ ret = "running" /\ ret' = "OK"
    BY <1>3, CopyKeeps DEF CopyRest
  <2>2. /\ Len(data) \in 0..Len(data)
        /\ SubSeq(data, 1, Len(data)) = data
        /\ SubSeq(data, Len(data) + 1, Len(data)) = <<>>
    BY LenProperties, SubSeqFull, SubSeqEmpty DEF IInv, TypeOK
  <2>3. Bytes!Accept
    BY <2>1, <2>2 DEF Bytes!Accept
  <2> QED
    BY <2>3 DEF Bytes!Next
<1>4. CASE Flush
  <2>1. Stream' = Stream
    BY <1>4, FlushKeepsAll
  <2>2. Bytes!Flush
    BY <1>4, <2>1 DEF Flush, Bytes!Flush
  <2> QED
    BY <2>2 DEF Bytes!Next
<1>5. CASE UNCHANGED vars
  BY <1>5 DEF vars, Bytes!vars, Stream, Pending
<1> QED
  BY <1>1, <1>2, <1>3, <1>4, <1>5 DEF Next, Bytes!Next

\* Whatever fwrite and fflush do, the buffered stream is a byte stream: every
\* accepted byte is kept, in order and once; OK means all, WRITE means not all.
THEOREM ImplementsByteStream == Spec => IsByteStream
BY InitInv, NextKeeps, InitRefines, NextRefines, PTL DEF Spec, IsByteStream, Bytes!Spec

-----------------------------------------------------------------------------
(* What a flush delivers.                                                  *)

OnlyWritesRun == ret = "running" => op = "write"
DeliverInv == IInv /\ NothingLeftBehind /\ FlushDelivers /\ OnlyWritesRun

LEMMA InitDelivers == Init => DeliverInv
<1> USE DEF DeliverInv, OnlyWritesRun
<1> SUFFICES ASSUME Init
             PROVE  NothingLeftBehind /\ FlushDelivers /\ OnlyWritesRun
  BY InitInv
<1> QED
  BY DEF Init, NothingLeftBehind, FlushDelivers

LEMMA NextDelivers == DeliverInv /\ [Next]_vars => DeliverInv'
<1> USE DEF DeliverInv, OnlyWritesRun
<1> SUFFICES ASSUME DeliverInv, [Next]_vars
             PROVE  NothingLeftBehind' /\ FlushDelivers' /\ OnlyWritesRun'
  BY NextKeeps
<1>1. /\ buffer \in Seq(Cell) /\ stdio \in Seq(Byte)
      /\ Len(buffer) \in Nat /\ Len(data) \in Nat
      /\ b_cursor \in 0..Len(buffer) /\ e_cursor \in b_cursor..Len(buffer)
      /\ ~unflushed /\ b_cursor = e_cursor => stdio = <<>>
  BY LenProperties DEF IInv, TypeOK, Cell, NothingLeftBehind
<1>2. ASSUME NEW bytes \in Seq(Cell),
             NEW b \in 0..Len(bytes), NEW e \in b..Len(bytes),
             \A i \in (b + 1)..e : bytes[i] \in Byte,
             FlushAll(bytes, b, e)
      PROVE  /\ ~unflushed' => stdio' = <<>>
             /\ b_cursor' = 0 /\ e_cursor' = 0
  <2>1. SubSeq(bytes, b + 1, e) \in Seq(Byte)
    BY <1>2, SplitPending
  <2>2. ~unflushed' => Take(SubSeq(bytes, b + 1, e), TRUE)
    BY <1>2 DEF FlushAll
  <2>3. ~unflushed' => stdio' = <<>>
    BY <2>1, <2>2, TakeAppends DEF IInv, TypeOK
  <2> QED
    BY <1>2, <2>3 DEF FlushAll, ResetCursors
<1>3. ASSUME NEW bytes, NEW b \in Nat, NEW e \in Nat, FlushShort(bytes, b, e)
      PROVE  b_cursor' # e_cursor'
  BY <1>3 DEF FlushShort
<1>4. CASE \E d \in Requests : Write(d)
  BY <1>4 DEF Write, NothingLeftBehind, FlushDelivers
<1>5. CASE FillAndFlush
  <2> DEFINE filled == Copied(e_cursor, SubSeq(data, 1, RestSize))
             e == e_cursor + RestSize
  <2>1. /\ buffer' = filled
        /\ e = Len(buffer)
        /\ ret = "running" /\ ret' # "OK" /\ op' = op
        /\ \/ FlushNothing(b_cursor, e)
           \/ FlushAll(filled, b_cursor, e)
           \/ FlushShort(filled, b_cursor, e)
    BY <1>1, <1>5 DEF FillAndFlush, RestSize
  <2>2. FlushDelivers' /\ OnlyWritesRun'
    BY <2>1 DEF FlushDelivers
  <2>3. CASE FlushNothing(b_cursor, e)
    <3>1. b_cursor = e_cursor /\ stdio' = stdio /\ unflushed' = unflushed
      BY <1>1, <2>1, <2>3 DEF FlushNothing
    <3> QED
      BY <1>1, <2>2, <3>1 DEF NothingLeftBehind
  <2>4. CASE FlushAll(filled, b_cursor, e)
    <3>1. filled \in Seq(Cell)
      BY <1>5, FillKeeps, <2>1 DEF IInv, TypeOK, Cell
    <3>2. Len(filled) = Len(buffer)
      BY <1>1 DEF Copied
    <3>3. \A i \in (b_cursor + 1)..e : filled[i] \in Byte
      BY <1>5, <2>1, FillKeeps
    <3> HIDE DEF filled, e
    <3>4. b_cursor \in 0..Len(filled) /\ e \in b_cursor..Len(filled)
      BY <1>1, <2>1, <3>2
    <3>5. ~unflushed' => stdio' = <<>>
      BY <1>2, <2>4, <3>1, <3>3, <3>4
    <3> QED
      BY <2>2, <3>5 DEF NothingLeftBehind
  <2>5. CASE FlushShort(filled, b_cursor, e)
    <3>1. b_cursor' # e_cursor'
      BY <1>1, <1>3, <2>1, <2>5
    <3> QED
      BY <2>2, <3>1 DEF NothingLeftBehind
  <2> QED
    BY <2>1, <2>3, <2>4, <2>5
<1>6. CASE CopyRest
  <2>1. /\ ret = "running" /\ ret' = "OK" /\ op' = op /\ stdio' = stdio
        /\ unflushed' = unflushed
        /\ b_cursor' = b_cursor /\ e_cursor' = e_cursor + Len(data)
    BY <1>6 DEF CopyRest
  <2>2. b_cursor' = e_cursor' => b_cursor = e_cursor
    BY <1>1, <2>1
  <2> QED
    BY <1>1, <2>1, <2>2 DEF NothingLeftBehind, FlushDelivers
<1>7. CASE Flush
  <2>1. /\ buffer' = buffer /\ op' = "flush" /\ ret' # "running"
        /\ \/ FlushNothing(b_cursor, e_cursor)
           \/ FlushAll(buffer, b_cursor, e_cursor)
           \/ FlushShort(buffer, b_cursor, e_cursor) /\ ret' = "WRITE"
    BY <1>7 DEF Flush
  <2>2. CASE FlushNothing(b_cursor, e_cursor)
    <3>1. /\ ~unflushed' => stdio' = <<>>
          /\ b_cursor' = e_cursor' /\ e_cursor' = e_cursor
      BY <1>1, <2>2 DEF FlushNothing
    <3>2. b_cursor' + 1 \in Int /\ e_cursor' \in Int /\ e_cursor' < b_cursor' + 1
      BY <1>1, <3>1
    <3>3. SubSeq(buffer', b_cursor' + 1, e_cursor') = <<>>
      BY <3>1, <3>2, SubSeqEmpty
    <3>4. Pending' = <<>>
      BY <3>3 DEF Pending
    <3> QED
      BY <2>1, <3>1, <3>4 DEF NothingLeftBehind, FlushDelivers
  <2>3. CASE FlushAll(buffer, b_cursor, e_cursor)
    <3>1. /\ ~unflushed' => stdio' = <<>>
          /\ b_cursor' = 0 /\ e_cursor' = 0
      BY <1>1, <1>2, <2>3 DEF IInv, PendingIsWritten
    <3>2. Pending' = <<>>
      BY <3>1, SubSeqEmpty DEF Pending
    <3> QED
      BY <2>1, <3>1, <3>2 DEF NothingLeftBehind, FlushDelivers
  <2>4. CASE FlushShort(buffer, b_cursor, e_cursor) /\ ret' = "WRITE"
    <3>1. b_cursor' # e_cursor'
      BY <1>1, <1>3, <2>4
    <3> QED
      BY <2>1, <2>4, <3>1 DEF NothingLeftBehind, FlushDelivers
  <2> QED
    BY <2>1, <2>2, <2>3, <2>4
<1>8. CASE UNCHANGED vars
  BY <1>8 DEF vars, NothingLeftBehind, FlushDelivers, Pending
<1> QED
  BY <1>4, <1>5, <1>6, <1>7, <1>8 DEF Next

\* Unless the last fflush failed, an empty buffer means an empty FILE: a flush
\* that has nothing to write need not call fflush.
THEOREM NothingLeftCorrect == Spec => []NothingLeftBehind
<1>1. DeliverInv => NothingLeftBehind
  BY DEF DeliverInv
<1> QED
  BY InitDelivers, NextDelivers, <1>1, PTL DEF Spec

\* Unless the last fflush failed, a flush that answers OK leaves nothing in
\* the FILE: either it flushed, or the buffer was empty and so was the FILE.
THEOREM FlushDeliversAll == Spec => []FlushDelivers
<1>1. DeliverInv => FlushDelivers
  BY DEF DeliverInv
<1> QED
  BY InitDelivers, NextDelivers, <1>1, PTL DEF Spec

-----------------------------------------------------------------------------
(* What a failed write leaves.                                             *)

\* A write that answered WRITE left the buffer full and something pending.
THEOREM FailedWritePending == Spec => []FailedWriteIsPending
<1> DEFINE Inv == IInv /\ FailedWriteIsPending
<1>1. Init => Inv
  <2>1. Init => FailedWriteIsPending
    BY DEF Init, FailedWriteIsPending
  <2> QED
    BY <2>1, InitInv
<1>2. Inv /\ [Next]_vars => Inv'
  <2> SUFFICES ASSUME Inv, [Next]_vars PROVE FailedWriteIsPending'
    BY NextKeeps
  <2>1. CASE \E d \in Requests : Write(d)
    BY <2>1 DEF Write, FailedWriteIsPending
  <2>2. CASE FillAndFlush
    <3>1. /\ Len(buffer) \in Nat /\ Len(buffer') = Len(buffer)
          /\ b_cursor \in 0..Len(buffer) /\ e_cursor \in b_cursor..Len(buffer)
      <4>1. buffer' = Copied(e_cursor, SubSeq(data, 1, RestSize))
        BY <2>2 DEF FillAndFlush
      <4>2. Len(buffer) \in Nat
        BY LenProperties DEF IInv, TypeOK
      <4> QED
        BY <4>1, <4>2 DEF Copied, IInv, TypeOK
    <3>2. CASE FlushShort(Copied(e_cursor, SubSeq(data, 1, RestSize)),
                          b_cursor, e_cursor + RestSize)
      <4>1. /\ e_cursor' = Len(buffer)
            /\ \E written \in 0..(Len(buffer) - b_cursor - 1) :
                 b_cursor' = b_cursor + written
        BY <3>1, <3>2 DEF FlushShort, RestSize
      <4> QED
        BY <3>1, <4>1 DEF FailedWriteIsPending
    <3>3. CASE UNCHANGED ret
      <4>1. ret' = "running"
        BY <2>2, <3>3 DEF FillAndFlush
      <4> QED
        BY <4>1 DEF FailedWriteIsPending
    <3> QED
      BY <2>2, <3>2, <3>3 DEF FillAndFlush
  <2>3. CASE CopyRest
    BY <2>3 DEF CopyRest, FailedWriteIsPending
  <2>4. CASE Flush
    BY <2>4 DEF Flush, FailedWriteIsPending
  <2>5. CASE UNCHANGED vars
    BY <2>5 DEF vars, FailedWriteIsPending
  <2> QED
    BY <2>1, <2>2, <2>3, <2>4, <2>5 DEF Next
<1>3. Inv => FailedWriteIsPending
  OBVIOUS
<1> QED
  BY <1>1, <1>2, <1>3, PTL DEF Spec
=============================================================================
