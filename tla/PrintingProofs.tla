--------------------------- MODULE PrintingProofs ---------------------------
(***************************************************************************)
(* Proofs about Printing, for every number of threads, every buffer size,  *)
(* every text and every choice of the C library's faults.                  *)
(***************************************************************************)
EXTENDS Printing, OutputFileStreamProofs

-----------------------------------------------------------------------------
(* Prefixes.                                                               *)

LEMMA PrefixIs ==
    ASSUME NEW s \in Seq(Byte), NEW t \in Seq(Byte)
    PROVE  IsPrefix(s, t) <=> \E u \in Seq(Byte) : t = s \o u
<1>0. Len(s) \in Nat /\ Len(t) \in Nat /\ SubSeq(s, 1, Len(s)) = s
  BY LenProperties, SubSeqFull
<1>1. ASSUME IsPrefix(s, t) PROVE \E u \in Seq(Byte) : t = s \o u
  <2>1. Len(s) \in 0..Len(t) /\ SubSeq(t, 1, Len(s)) = s
    BY <1>0, <1>1 DEF IsPrefix
  <2>2. PICK n \in 0..Len(t) : n = Len(s)
    BY <2>1
  <2>3. /\ SubSeq(t, n + 1, Len(t)) \in Seq(Byte)
        /\ SubSeq(t, 1, n) \o SubSeq(t, n + 1, Len(t)) = t
    BY SplitSeq
  <2> QED
    BY <2>1, <2>2, <2>3
<1>2. ASSUME NEW u \in Seq(Byte), t = s \o u PROVE IsPrefix(s, t)
  <2>1. Len(t) = Len(s) + Len(u) /\ Len(u) \in Nat
    BY <1>2, ConcatProperties, LenProperties
  <2>2. SubSeq(s \o u, 1, Len(s)) = SubSeq(s, 1, Len(s))
    BY <1>0, SubSeqOfConcat1
  <2> QED
    BY <1>0, <1>2, <2>1, <2>2 DEF IsPrefix
<1> QED
  BY <1>1, <1>2

LEMMA Appended ==
    ASSUME NEW s \in Seq(Byte), NEW u \in Seq(Byte)
    PROVE  s \o u \in Seq(Byte) /\ IsPrefix(s, s \o u)
<1>1. s \o u \in Seq(Byte)
  BY ConcatProperties
<1> QED
  BY <1>1, PrefixIs

LEMMA PrefixTrans ==
    ASSUME NEW s \in Seq(Byte), NEW t \in Seq(Byte), NEW u \in Seq(Byte),
           IsPrefix(s, t), IsPrefix(t, u)
    PROVE  IsPrefix(s, u)
<1>1. PICK x \in Seq(Byte) : t = s \o x
  BY PrefixIs
<1>2. PICK y \in Seq(Byte) : u = t \o y
  BY PrefixIs
<1>3. x \o y \in Seq(Byte) /\ u = s \o (x \o y)
  BY <1>1, <1>2, Assoc, ConcatProperties
<1> QED
  BY <1>3, PrefixIs

LEMMA PrefixSelf ==
    ASSUME NEW s \in Seq(Byte)
    PROVE  IsPrefix(s, s) /\ s \o <<>> = s /\ <<>> \o s = s
<1>1. <<>> \in Seq(Byte) /\ s \o <<>> = s /\ <<>> \o s = s
  BY EmptySeq, ConcatEmptySeq
<1> QED
  BY <1>1, PrefixIs

-----------------------------------------------------------------------------
(* What the C library has, or has handed on.                               *)

\* It only ever gets more; and unless the last fflush failed, the FILE is
\* empty, or that fflush was not this step's.
Forward ==
    /\ IsPrefix(file \o stdio, file' \o stdio')
    /\ IsPrefix(file, file')
    /\ ~unflushed' => ~unflushed \/ stdio' = <<>>

LEMMA TakeForward ==
    ASSUME stdio \in Seq(Byte), file \in Seq(Byte),
           NEW bytes \in Seq(Byte), NEW flushed \in BOOLEAN,
           Take(bytes, flushed)
    PROVE  /\ IsPrefix(file \o stdio, file' \o stdio')
           /\ IsPrefix(file, file')
<1>1. IsPrefix(file \o stdio, file' \o stdio')
  <2>1. file \o stdio \in Seq(Byte)
    BY ConcatProperties
  <2>2. file' \o stdio' = (file \o stdio) \o bytes
    BY TakeAppends
  <2> QED
    BY <2>1, <2>2, Appended
<1>2. IsPrefix(file, file')
  <2> DEFINE held == stdio \o bytes
  <2>1. held \in Seq(Byte) /\ Len(held) \in Nat
    BY ConcatProperties, LenProperties
  <2>2. \E n \in 0..Len(held) : file' = file \o SubSeq(held, 1, n)
    <3>1. CASE flushed = TRUE
      <4>1. Take(bytes, TRUE)
        BY <3>1
      <4>2. \E n \in {Len(held)} : file' = file \o SubSeq(held, 1, n)
        BY <4>1 DEF Take
      <4>3. Len(held) \in 0..Len(held)
        BY <2>1
      <4> HIDE DEF held
      <4> QED
        BY <4>2, <4>3
    <3>2. CASE flushed = FALSE
      <4>1. Take(bytes, FALSE)
        BY <3>2
      <4> QED
        BY <4>1 DEF Take
    <3> QED
      BY <3>1, <3>2
  <2>3. PICK n \in 0..Len(held) : file' = file \o SubSeq(held, 1, n)
    BY <2>2
  <2> HIDE DEF held
  <2>4. SubSeq(held, 1, n) \in Seq(Byte)
    BY <2>1, SplitSeq
  <2> QED
    BY <2>3, <2>4, Appended
<1> QED
  BY <1>1, <1>2

LEMMA StillForward ==
    ASSUME stdio \in Seq(Byte), file \in Seq(Byte),
           stdio' = stdio, file' = file, unflushed' = unflushed
    PROVE  Forward
<1>1. file \o stdio \in Seq(Byte)
  BY ConcatProperties
<1> QED
  BY <1>1, PrefixSelf DEF Forward

LEMMA FlushForward ==
    ASSUME stdio \in Seq(Byte), file \in Seq(Byte),
           NEW bytes \in Seq(Cell),
           NEW b \in 0..Len(bytes), NEW e \in b..Len(bytes),
           \A i \in (b + 1)..e : bytes[i] \in Byte,
           \/ FlushNothing(b, e)
           \/ FlushAll(bytes, b, e)
           \/ FlushShort(bytes, b, e)
    PROVE  Forward
<1>1. CASE FlushNothing(b, e)
  BY <1>1, StillForward DEF FlushNothing
<1>2. CASE FlushAll(bytes, b, e)
  <2> DEFINE out == SubSeq(bytes, b + 1, e)
  <2>1. out \in Seq(Byte)
    BY SplitPending
  <2>2. Take(out, TRUE) \/ (Take(out, FALSE) /\ unflushed' = TRUE)
    BY <1>2 DEF FlushAll
  <2> HIDE DEF out
  <2>3. CASE Take(out, TRUE)
    <3>1. stdio' = <<>>
      BY <2>1, <2>3, TakeAppends
    <3> QED
      BY <2>1, <2>3, <3>1, TakeForward DEF Forward
  <2>4. CASE Take(out, FALSE) /\ unflushed' = TRUE
    BY <2>1, <2>4, TakeForward DEF Forward
  <2> QED
    BY <2>2, <2>3, <2>4
<1>3. CASE FlushShort(bytes, b, e)
  <2>1. PICK written \in 0..(e - b - 1) :
          Take(SubSeq(bytes, b + 1, b + written), FALSE)
    BY <1>3 DEF FlushShort
  <2>2. Len(bytes) \in Nat
    BY LenProperties
  <2>3. PICK m \in b..e : m = b + written
    BY <2>2
  <2>4. SubSeq(bytes, b + 1, m) \in Seq(Byte)
    BY SplitPending
  <2>5. Take(SubSeq(bytes, b + 1, m), FALSE)
    BY <2>1, <2>3
  <2> HIDE DEF Take
  <2>6. unflushed' = unflushed
    BY <1>3 DEF FlushShort
  <2> QED
    BY <2>4, <2>5, <2>6, TakeForward DEF Forward
<1> QED
  BY <1>1, <1>2, <1>3

\* The steps of the stream's own module.
LEMMA NextForward ==
    ASSUME IInv, FillAndFlush \/ CopyRest \/ Flush
    PROVE  Forward
<1>1. /\ stdio \in Seq(Byte) /\ file \in Seq(Byte) /\ buffer \in Seq(Cell)
      /\ b_cursor \in 0..Len(buffer) /\ e_cursor \in b_cursor..Len(buffer)
      /\ Len(buffer) \in Nat /\ Len(data) \in Nat
      /\ \A n \in (b_cursor + 1)..e_cursor : buffer[n] \in Byte
  BY LenProperties DEF IInv, TypeOK, Cell, PendingIsWritten
<1>2. CASE FillAndFlush
  <2> DEFINE filled == Copied(e_cursor, SubSeq(data, 1, RestSize))
             e == e_cursor + RestSize
  <2>1. /\ buffer' = filled /\ e = Len(buffer)
        /\ \/ FlushNothing(b_cursor, e)
           \/ FlushAll(filled, b_cursor, e)
           \/ FlushShort(filled, b_cursor, e)
    BY <1>1, <1>2 DEF FillAndFlush, RestSize
  <2>2. filled \in Seq(Cell) /\ \A n \in (b_cursor + 1)..e : filled[n] \in Byte
    BY <1>2, <2>1, FillKeeps DEF IInv, TypeOK, Cell
  <2>3. Len(filled) = Len(buffer)
    BY <1>1 DEF Copied
  <2> HIDE DEF filled, e
  <2>4. b_cursor \in 0..Len(filled) /\ e \in b_cursor..Len(filled)
    BY <1>1, <2>1, <2>3
  <2> QED
    BY <1>1, <2>1, <2>2, <2>4, FlushForward
<1>3. CASE CopyRest
  BY <1>1, <1>3, StillForward DEF CopyRest
<1>4. CASE Flush
  <2>1. \/ FlushNothing(b_cursor, e_cursor)
        \/ FlushAll(buffer, b_cursor, e_cursor)
        \/ FlushShort(buffer, b_cursor, e_cursor)
    BY <1>4 DEF Flush
  <2> QED
    BY <1>1, <2>1, FlushForward
<1> QED
  BY <1>2, <1>3, <1>4

\* What was printed stays.
LEMMA PrintedForward ==
    ASSUME IInv, IInv', Forward, PrintedStays, exit # "over",
           printed \in Seq(Byte), printed' = printed
    PROVE  PrintedStays'
<1>1. /\ stdio \in Seq(Byte) /\ file \in Seq(Byte)
      /\ stdio' \in Seq(Byte) /\ file' \in Seq(Byte)
      /\ file \o stdio \in Seq(Byte) /\ file' \o stdio' \in Seq(Byte)
  BY ConcatProperties DEF IInv, TypeOK
<1>2. IsPrefix(printed, file' \o stdio')
  BY <1>1, PrefixTrans DEF Forward, PrintedStays
<1>3. ASSUME ~unflushed' PROVE IsPrefix(printed, file')
  <2>1. CASE ~unflushed
    BY <1>1, <2>1, PrefixTrans DEF Forward, PrintedStays
  <2>2. CASE stdio' = <<>>
    <3>1. file' \o stdio' = file'
      BY <1>1, <2>2, PrefixSelf
    <3> QED
      BY <1>2, <3>1
  <2> QED
    BY <1>3, <2>1, <2>2 DEF Forward
<1> QED
  BY <1>2, <1>3 DEF PrintedStays

-----------------------------------------------------------------------------
(* The inductive invariant.                                                *)

Macro == [todo : Seq(Seq(Byte) \ {<<>>}), sent : Seq(Byte), before : Seq(Byte)]

PrintTypes ==
    /\ IInv
    /\ ctx \in [Thread -> {"new", "arena", "dump", "ready"}]
    /\ print # NoPrint => print \in Macro
    /\ printed \in Seq(Byte)

\* Whatever of the macro has left the program is in the stream.
Whole ==
    print # NoPrint =>
        /\ print.sent = <<>> => Stream = print.before
        /\ print.sent # <<>> => Stream \o data = print.before \o print.sent

\* Between calls nothing is on its way; a write that runs has something left;
\* and a macro whose pieces are all accepted still has the end of the last one
\* in the buffer, so that its flush cannot find the buffer empty.
Turns ==
    /\ user = Nobody => print = NoPrint /\ ret # "running"
    /\ ret = "OK" => data = <<>>
    /\ print # NoPrint /\ ret = "running" => print.sent # <<>> /\ data # <<>>
    /\ print # NoPrint /\ print.sent # <<>> => data # <<>> \/ b_cursor # e_cursor

\* After the exit the file has a beginning of what the macro wrote.
Begun ==
    exit = "over" /\ print # NoPrint => IsPrefix(file, print.before \o print.sent)

PrInv ==
    /\ PrintTypes
    /\ exit # "over" => Whole
    /\ Running => Turns
    /\ PrintedStays
    /\ Begun

LEMMA PrInvParts ==
    ASSUME PrInv
    PROVE  /\ IInv /\ PrintTypes /\ PrintedStays
           /\ exit # "over" => Whole
           /\ Running => Whole /\ exit # "over"
           /\ stdio \in Seq(Byte) /\ file \in Seq(Byte) /\ data \in Seq(Byte)
           /\ Stream \in Seq(Byte) /\ Pending \in Seq(Byte)
           /\ file \o stdio \in Seq(Byte) /\ printed \in Seq(Byte)
BY PendingType, ConcatProperties DEF PrInv, PrintTypes, IInv, TypeOK, Running

LEMMA InitPrInv == PrintInit => PrInv
<1> SUFFICES ASSUME PrintInit PROVE PrInv
  OBVIOUS
<1>1. <<>> \in Seq(Byte) /\ <<>> \in Seq(Byte \union {NoByte}) /\ Len(<<>>) = 0
  BY EmptySeq
<1>2. IInv
  <2>1. unflushed \in BOOLEAN
    BY DEF PrintInit
  <2>2. /\ buffer = <<>> /\ b_cursor = 0 /\ e_cursor = 0
        /\ stdio = <<>> /\ file = <<>> /\ data = <<>>
        /\ op = "none" /\ ret = "none"
    BY DEF PrintInit
  <2> QED
    BY <1>1, <2>1, <2>2 DEF IInv, TypeOK, PendingIsWritten
<1>3. PrintTypes
  BY <1>1, <1>2 DEF PrintInit, PrintTypes
<1>4. PrintedStays
  <2>1. IsPrefix(<<>>, <<>>) /\ <<>> \o <<>> = <<>>
    BY <1>1, PrefixSelf
  <2> QED
    BY <2>1 DEF PrintInit, PrintedStays
<1> QED
  BY <1>3, <1>4 DEF PrInv, Whole, Turns, Begun, PrintInit

-----------------------------------------------------------------------------
(* One lemma per action.                                                   *)

Kept == PrInv' /\ Forward
Lossless == IsPrefix(Stream, Stream')
Starts == \E t \in Thread : ctx[t] # ctx'[t]

LEMMA KeptIf ==
    ASSUME PrintTypes', Whole', Running' => Turns', PrintedStays', Forward,
           exit' # "over"
    PROVE  Kept
BY DEF Kept, PrInv, Begun

\* The stream is left alone.
LEMMA AsideKeeps ==
    ASSUME PrInv, UNCHANGED <<vars, print, printed>>,
           ctx' \in [Thread -> {"new", "arena", "dump", "ready"}],
           Running' => Running, exit' = "over" <=> exit = "over",
           Running' /\ user' = Nobody => user = Nobody
    PROVE  Kept /\ Lossless
<1>1. /\ buffer' = buffer /\ b_cursor' = b_cursor /\ e_cursor' = e_cursor
      /\ stdio' = stdio /\ file' = file /\ unflushed' = unflushed
      /\ data' = data /\ op' = op /\ ret' = ret
      /\ print' = print /\ printed' = printed
  BY DEF vars
<1>2. Forward
  BY <1>1, PrInvParts, StillForward
<1>3. Stream' = Stream
  BY <1>1 DEF Stream, Pending
<1>4. Lossless
  BY <1>3, PrInvParts, PrefixSelf DEF Lossless
<1>5. IInv'
  BY <1>1, PrInvParts DEF IInv, TypeOK, PendingIsWritten
<1>6. PrintTypes'
  BY <1>1, <1>5, PrInvParts DEF PrintTypes
<1>7. (exit' # "over" => Whole') /\ Begun'
  BY <1>1, <1>3 DEF PrInv, Whole, Begun
<1>8. PrintedStays'
  BY <1>1, PrInvParts DEF PrintedStays
<1>9. Running' => Turns'
  BY <1>1 DEF PrInv, Turns
<1> QED
  BY <1>2, <1>4, <1>6, <1>7, <1>8, <1>9 DEF Kept, PrInv

LEMMA AdvanceKeeps ==
    ASSUME PrInv, NEW t \in Thread, InitArena(t) \/ InitDump(t)
    PROVE  Kept /\ Lossless
<1>1. PICK from \in {"new", "arena"}, to \in {"arena", "dump"} :
         Advance(t, from, to)
  BY DEF InitArena, InitDump
<1>2. /\ UNCHANGED <<vars, print, printed>>
      /\ Running /\ user' = user /\ exit' # "over" /\ exit # "over"
  BY <1>1 DEF Advance, Running
<1>3. ctx' \in [Thread -> {"new", "arena", "dump", "ready"}]
  BY <1>1, PrInvParts DEF Advance, PrintTypes
<1> QED
  BY <1>2, <1>3, AsideKeeps

LEMMA RaceKeeps ==
    ASSUME PrInv, NEW t \in Thread, Race(t)
    PROVE  Kept /\ Lossless
<1>1. /\ UNCHANGED <<vars, print, printed>>
      /\ Running /\ user' = user /\ ctx' = ctx
      /\ exit' # "over" /\ exit # "over"
  BY DEF Race, Running
<1> QED
  BY <1>1, AsideKeeps, PrInvParts DEF PrintTypes

LEMMA InitStreamsKeeps ==
    ASSUME PrInv, NEW t \in Thread, InitStreams(t)
    PROVE  Kept /\ (Lossless \/ Starts)
<1>1. /\ Running /\ user = Nobody /\ ctx[t] = "dump"
      /\ ctx' = [ctx EXCEPT ![t] = "ready"]
      /\ user' = user /\ print' = print /\ printed' = printed /\ exit' = exit
      /\ NewStream \/ UNCHANGED vars
      /\ exit' # "over"
  BY DEF InitStreams, Ready, Running
<1>2. ctx' \in [Thread -> {"new", "arena", "dump", "ready"}] /\ ctx'[t] = "ready"
  BY <1>1, PrInvParts DEF PrintTypes
<1>3. Starts
  BY <1>1, <1>2 DEF Starts
<1>4. CASE UNCHANGED vars
  BY <1>1, <1>2, <1>3, <1>4, AsideKeeps
<1>5. CASE NewStream
  <2>1. /\ buffer' = [n \in 1..BufferSize |-> NoByte]
        /\ b_cursor' = 0 /\ e_cursor' = 0
        /\ stdio' = stdio /\ file' = file /\ unflushed' = unflushed
        /\ data' = data /\ op' = op /\ ret' = ret
    BY <1>5 DEF NewStream
  <2>2. buffer' \in Seq(Byte \union {NoByte}) /\ Len(buffer') \in Nat
    BY <2>1, BufferAssumption
  <2>3. IInv'
    <3>1. unflushed' \in BOOLEAN
      BY <2>1, PrInvParts, Zenon DEF IInv, TypeOK
    <3>2. /\ stdio' \in Seq(Byte) /\ file' \in Seq(Byte) /\ data' \in Seq(Byte)
          /\ op' \in {"none", "write", "flush"}
          /\ ret' \in {"none", "running", "OK", "WRITE"}
      BY <2>1, PrInvParts DEF IInv, TypeOK
    <3>3. /\ b_cursor' \in 0..Len(buffer') /\ e_cursor' \in b_cursor'..Len(buffer')
      <4>1. b_cursor' = 0 /\ e_cursor' = 0
        BY <2>1
      <4>2. Len(buffer') \in Nat
        BY <2>2
      <4> QED
        BY <4>1, <4>2
    <3>4. PendingIsWritten'
      BY <2>1 DEF PendingIsWritten
    <3> QED
      BY <2>2, <3>1, <3>2, <3>3, <3>4 DEF IInv, TypeOK
  <2>4. Forward
    BY <2>1, PrInvParts, StillForward
  <2>5. PrintedStays'
    BY <1>1, <2>3, <2>4, PrInvParts, PrintedForward
  <2>6. print' = NoPrint /\ Turns
    BY <1>1 DEF PrInv, Turns
  <2>7. Turns'
    BY <1>1, <2>1, <2>6 DEF Turns
  <2>8. PrintTypes' /\ Whole'
    BY <1>1, <1>2, <2>3, <2>6, PrInvParts DEF PrintTypes, Whole
  <2> QED
    BY <1>1, <1>3, <2>4, <2>5, <2>7, <2>8, KeptIf
<1> QED
  BY <1>1, <1>4, <1>5

\* A call of the stream's module: what it does to the stream.
LEMMA WriteForward ==
    ASSUME PrInv, NEW d \in Seq(Byte), Write(d)
    PROVE  IInv' /\ Forward /\ Lossless /\ Stream' = Stream
<1>1. IInv' /\ Stream' = Stream
  BY PrInvParts, WriteKeeps
<1>2. Forward
  BY PrInvParts, StillForward DEF Write
<1> QED
  BY <1>1, <1>2, PrInvParts, PrefixSelf DEF Lossless

LEMMA LoopForward ==
    ASSUME PrInv, FillAndFlush \/ CopyRest
    PROVE  /\ IInv' /\ Forward /\ Lossless
           /\ Stream' \o data' = Stream \o data
           /\ FillAndFlush => data' # <<>>
<1>1. Forward
  BY PrInvParts, NextForward
<1>2. CASE FillAndFlush
  <2>1. /\ IInv'
        /\ RestSize \in 0..Len(data)
        /\ Stream' = Stream \o SubSeq(data, 1, RestSize)
        /\ data' = SubSeq(data, RestSize + 1, Len(data))
        /\ data' # <<>>
    BY <1>2, PrInvParts, FillKeeps
  <2> DEFINE copied == SubSeq(data, 1, RestSize)
             left == SubSeq(data, RestSize + 1, Len(data))
  <2>2. copied \in Seq(Byte) /\ left \in Seq(Byte) /\ copied \o left = data
    BY <2>1, PrInvParts, SplitSeq
  <2>3. Stream' = Stream \o copied /\ data' = left
    BY <2>1
  <2> HIDE DEF copied, left
  <2>4. Stream' \o data' = Stream \o data
    <3>1. Stream \in Seq(Byte)
      BY PrInvParts
    <3>2. (Stream \o copied) \o left = Stream \o (copied \o left)
      BY <2>2, <3>1, Assoc
    <3> QED
      BY <2>2, <2>3, <3>2
  <2>5. Lossless
    BY <2>2, <2>3, PrInvParts, Appended DEF Lossless
  <2> QED
    BY <1>1, <2>1, <2>4, <2>5
<1>3. CASE CopyRest
  <2>1. IInv' /\ Stream' = Stream \o data /\ data' = <<>>
    BY <1>3, PrInvParts, CopyKeeps DEF CopyRest
  <2>2. Lossless /\ Stream \o data \in Seq(Byte)
    BY <2>1, PrInvParts, Appended DEF Lossless
  <2>3. Stream' \o data' = Stream \o data
    BY <2>1, <2>2, PrefixSelf
  <2>4. ~FillAndFlush
    <3>1. RestSize \in Int /\ Len(data) \in Int
      BY PrInvParts, LenProperties DEF IInv, TypeOK, RestSize
    <3> QED
      BY <1>3, <3>1 DEF CopyRest, FillAndFlush
  <2> QED
    BY <1>1, <2>1, <2>2, <2>3, <2>4
<1> QED
  BY <1>2, <1>3

LEMMA FlushKeepsStream ==
    ASSUME PrInv, Flush
    PROVE  IInv' /\ Forward /\ Lossless /\ Stream' = Stream
<1>1. IInv' /\ Stream' = Stream
  BY PrInvParts, FlushKeepsAll
<1>2. Forward
  BY PrInvParts, NextForward
<1> QED
  BY <1>1, <1>2, PrInvParts, PrefixSelf DEF Lossless

LEMMA DirectWriteKeeps ==
    ASSUME PrInv, NEW t \in Thread, NEW d \in Requests, DirectWrite(t, d)
    PROVE  Kept /\ Lossless
<1>1. /\ Running /\ user = Nobody /\ user' = t /\ t # Nobody /\ Write(d)
      /\ ctx' = ctx /\ print' = print /\ printed' = printed
      /\ d \in Seq(Byte) /\ exit' # "over"
  BY NobodyAssumption, RequestAssumption DEF DirectWrite, Alone, Running
<1>2. IInv' /\ Forward /\ Lossless
  BY <1>1, WriteForward
<1>3. print = NoPrint
  BY <1>1 DEF PrInv, Turns
<1>4. PrintTypes' /\ Whole'
  BY <1>1, <1>2, <1>3, PrInvParts DEF PrintTypes, Whole
<1>5. PrintedStays'
  BY <1>1, <1>2, PrInvParts, PrintedForward
<1>6. Turns'
  BY <1>1, <1>3 DEF Turns, Write
<1> QED
  BY <1>1, <1>2, <1>4, <1>5, <1>6, KeptIf

LEMMA DirectFlushKeeps ==
    ASSUME PrInv, NEW t \in Thread, DirectFlush(t)
    PROVE  Kept /\ Lossless
<1>1. /\ Running /\ user = Nobody /\ Flush
      /\ user' = user /\ ctx' = ctx /\ print' = print /\ printed' = printed
      /\ exit' # "over"
  BY DEF DirectFlush, Alone, threadVars, Running
<1>2. IInv' /\ Forward /\ Lossless
  BY <1>1, FlushKeepsStream
<1>3. print = NoPrint
  BY <1>1 DEF PrInv, Turns
<1>4. PrintTypes' /\ Whole'
  BY <1>1, <1>2, <1>3, PrInvParts DEF PrintTypes, Whole
<1>5. PrintedStays'
  BY <1>1, <1>2, PrInvParts, PrintedForward
<1>6. Turns'
  BY <1>1, <1>3 DEF Turns, Flush
<1> QED
  BY <1>1, <1>2, <1>4, <1>5, <1>6, KeptIf

LEMMA BeginPrintKeeps ==
    ASSUME PrInv, NEW t \in Thread, NEW pieces \in Prints, BeginPrint(t, pieces)
    PROVE  Kept /\ Lossless
<1>1. /\ Running /\ user = Nobody /\ user' = t /\ t # Nobody
      /\ print' = [todo |-> pieces, sent |-> <<>>, before |-> Stream]
      /\ UNCHANGED vars
      /\ ctx' = ctx /\ printed' = printed /\ exit' # "over"
  BY NobodyAssumption DEF BeginPrint, Alone, Running
<1>2. /\ buffer' = buffer /\ b_cursor' = b_cursor /\ e_cursor' = e_cursor
      /\ stdio' = stdio /\ file' = file /\ unflushed' = unflushed
      /\ data' = data /\ op' = op /\ ret' = ret
  BY <1>1 DEF vars
<1>3. Forward
  BY <1>2, PrInvParts, StillForward
<1>4. Stream' = Stream
  BY <1>2 DEF Stream, Pending
<1>5. Lossless
  BY <1>4, PrInvParts, PrefixSelf DEF Lossless
<1>6. IInv'
  BY <1>2, PrInvParts DEF IInv, TypeOK, PendingIsWritten
<1>7. print' \in Macro /\ print'.sent = <<>> /\ print'.before = Stream
  <2>1. pieces \in Seq(Seq(Byte) \ {<<>>}) /\ <<>> \in Seq(Byte)
    BY PrintAssumption, EmptySeq
  <2> QED
    BY <1>1, <2>1, PrInvParts DEF Macro
<1>8. PrintTypes' /\ Whole'
  BY <1>1, <1>4, <1>6, <1>7, PrInvParts DEF PrintTypes, Whole
<1>9. PrintedStays'
  BY <1>1, <1>2, PrInvParts DEF PrintedStays
<1>10. Turns'
  <2>1. ret # "running"
    BY <1>1, PrInvParts DEF PrInv, Turns
  <2> QED
    BY <1>1, <1>2, <1>7, <2>1 DEF PrInv, Turns
<1> QED
  BY <1>1, <1>3, <1>5, <1>8, <1>9, <1>10, KeptIf

LEMMA StreamStepKeeps ==
    ASSUME PrInv, StreamStep
    PROVE  Kept /\ Lossless
<1>1. /\ Running /\ (FillAndFlush \/ CopyRest)
      /\ user' = IF print = NoPrint /\ ret' # "running" THEN Nobody ELSE user
      /\ ctx' = ctx /\ print' = print /\ printed' = printed /\ exit' # "over"
  BY DEF StreamStep, Running
<1>2. /\ IInv' /\ Forward /\ Lossless
      /\ Stream' \o data' = Stream \o data
      /\ FillAndFlush => data' # <<>>
  BY <1>1, LoopForward
<1>3. ret = "running" /\ Turns
  BY <1>1 DEF FillAndFlush, CopyRest, PrInv
<1>4. print # NoPrint => print.sent # <<>> /\ data # <<>>
  BY <1>3 DEF Turns
<1>5. PrintTypes'
  BY <1>1, <1>2, PrInvParts DEF PrintTypes
<1>6. Whole'
  BY <1>1, <1>2, <1>4, PrInvParts DEF Whole
<1>7. PrintedStays'
  BY <1>1, <1>2, PrInvParts, PrintedForward
<1>8. Turns'
  <2>1. CASE FillAndFlush
    <3>1. data' # <<>> /\ ret' \in {"running", "WRITE"}
      BY <1>2, <2>1 DEF FillAndFlush
    <3> QED
      BY <1>1, <1>3, <1>4, <3>1 DEF Turns
  <2>2. CASE CopyRest
    <3>1. /\ data' = <<>> /\ ret' = "OK" /\ b_cursor' = b_cursor
          /\ e_cursor' = e_cursor + Len(data)
      BY <2>2 DEF CopyRest
    <3>2. data # <<>> => b_cursor' # e_cursor'
      <4>1. /\ b_cursor \in Int /\ e_cursor \in Int /\ b_cursor <= e_cursor
            /\ Len(data) \in Nat /\ (data # <<>> => Len(data) # 0)
        BY PrInvParts, LenProperties, EmptySeq DEF IInv, TypeOK
      <4> QED
        BY <3>1, <4>1
    <3> QED
      BY <1>1, <1>3, <1>4, <3>1, <3>2 DEF Turns
  <2> QED
    BY <1>1, <2>1, <2>2
<1> QED
  BY <1>1, <1>2, <1>5, <1>6, <1>7, <1>8, KeptIf

LEMMA WritePieceKeeps ==
    ASSUME PrInv, WritePiece
    PROVE  Kept /\ Lossless
<1> DEFINE piece == Head(print.todo)
<1>1. /\ Running /\ print # NoPrint /\ (print.sent = <<>> \/ ret = "OK")
      /\ print.todo # <<>> /\ Write(piece)
      /\ print' = [print EXCEPT !.todo = Tail(@), !.sent = @ \o piece]
      /\ ctx' = ctx /\ printed' = printed /\ user' = user
      /\ exit' # "over"
  BY DEF WritePiece, GoneWell, Running
<1>2. print \in Macro
  BY <1>1, PrInvParts DEF PrintTypes
<1>3. /\ print.todo \in Seq(Seq(Byte) \ {<<>>})
      /\ print.sent \in Seq(Byte) /\ print.before \in Seq(Byte)
  BY <1>2 DEF Macro
<1>4. piece \in Seq(Byte) /\ piece # <<>> /\ Tail(print.todo) \in Seq(Seq(Byte) \ {<<>>})
  BY <1>1, <1>3, HeadTailProperties
<1> HIDE DEF piece
<1>5. IInv' /\ Forward /\ Lossless /\ Stream' = Stream
  BY <1>1, <1>4, WriteForward
<1>6. data' = piece /\ ret' = "running"
  BY <1>1 DEF Write
<1>7. /\ print' = [todo |-> Tail(print.todo), sent |-> print.sent \o piece,
                   before |-> print.before]
      /\ print.sent \o piece \in Seq(Byte)
      /\ print.sent \o piece # <<>>
  <2>1. print' = [todo |-> Tail(print.todo), sent |-> print.sent \o piece,
                  before |-> print.before]
    BY <1>1, <1>2 DEF Macro
  <2>2. /\ print.sent \o piece \in Seq(Byte)
        /\ Len(print.sent \o piece) = Len(print.sent) + Len(piece)
    BY <1>3, <1>4, ConcatProperties
  <2>3. Len(print.sent) \in Nat /\ Len(piece) \in Nat /\ Len(piece) # 0
    BY <1>3, <1>4, LenProperties, EmptySeq
  <2>4. Len(print.sent \o piece) # 0
    BY <2>2, <2>3
  <2> QED
    BY <2>1, <2>2, <2>4, EmptySeq
<1>8. PrintTypes'
  <2>1. print' \in Macro
    BY <1>3, <1>4, <1>7 DEF Macro
  <2> QED
    BY <1>1, <1>5, <2>1, PrInvParts DEF PrintTypes
<1>9. Stream = print.before \o print.sent
  <2>1. CASE print.sent = <<>>
    <3>1. Stream = print.before
      BY <1>1, <2>1, PrInvParts DEF Whole
    <3> QED
      BY <1>3, <2>1, <3>1, PrefixSelf
  <2>2. CASE print.sent # <<>>
    <3>1. data = <<>> /\ Stream \o data = print.before \o print.sent
      BY <1>1, <2>2, PrInvParts DEF PrInv, Turns, Whole
    <3> QED
      BY <3>1, PrInvParts, PrefixSelf
  <2> QED
    BY <2>1, <2>2
<1>10. Whole'
  <2>1. Stream' \o data' = print.before \o (print.sent \o piece)
    <3>1. (print.before \o print.sent) \o piece = print.before \o (print.sent \o piece)
      BY <1>3, <1>4, Assoc
    <3> QED
      BY <1>5, <1>6, <1>9, <3>1
  <2> QED
    BY <1>7, <2>1 DEF Whole
<1>11. PrintedStays'
  BY <1>1, <1>5, PrInvParts, PrintedForward
<1>12. Turns'
  <2>1. user # Nobody
    BY <1>1 DEF PrInv, Turns
  <2> QED
    BY <1>1, <1>4, <1>6, <1>7, <2>1 DEF Turns
<1> QED
  BY <1>1, <1>5, <1>8, <1>10, <1>11, <1>12, KeptIf

\* What the C library has is a beginning of what was there and the macro wrote.
LEMMA StreamOfMacro ==
    ASSUME PrInv, exit # "over", print # NoPrint
    PROVE  /\ IsPrefix(file \o stdio, print.before \o print.sent)
           /\ print.before \o print.sent \in Seq(Byte)
<1>1. /\ print.sent \in Seq(Byte) /\ print.before \in Seq(Byte)
      /\ print.sent = <<>> => Stream = print.before
      /\ print.sent # <<>> => Stream \o data = print.before \o print.sent
  BY PrInvParts DEF PrintTypes, Macro, Whole
<1>2. print.before \o print.sent \in Seq(Byte)
  BY <1>1, ConcatProperties
<1>3. /\ IsPrefix(file \o stdio, Stream) /\ IsPrefix(Stream, Stream \o data)
      /\ Stream \o data \in Seq(Byte)
  BY PrInvParts, Appended DEF Stream
<1>4. CASE print.sent = <<>>
  BY <1>1, <1>2, <1>3, <1>4, PrefixSelf
<1>5. CASE print.sent # <<>>
  BY <1>1, <1>2, <1>3, <1>5, PrInvParts, PrefixTrans
<1> QED
  BY <1>2, <1>4, <1>5

\* Up to the exit the stream stays as it is.
LEMMA StopsKeeps ==
    ASSUME PrInv, PrintFails \/ PrintRefused \/ Return
    PROVE  Kept /\ Lossless
<1>1. /\ UNCHANGED <<vars, print, printed>>
      /\ Running /\ exit' = "exiting" /\ ctx' = ctx
  BY DEF PrintFails, PrintRefused, Return, Panic
<1>2. ~Running' /\ exit # "over" /\ exit' # "over"
  BY <1>1 DEF Running
<1> QED
  BY <1>1, <1>2, AsideKeeps, PrInvParts DEF PrintTypes

\* The exit loses what is in the buffer, and what it fails to flush; the file
\* keeps a beginning of the stream, and what was shown unless that fails.
LEMMA ExitKeeps ==
    ASSUME PrInv, Exit
    PROVE  PrInv' /\ IsPrefix(file, file') /\ exit' = "over"
<1>1. /\ exit = "exiting" /\ exit' = "over"
      /\ stdio' = <<>> /\ b_cursor' = 0 /\ e_cursor' = 0
      /\ buffer' = buffer /\ data' = data /\ op' = op /\ ret' = ret
      /\ ctx' = ctx /\ user' = user /\ print' = print /\ printed' = printed
  BY DEF Exit
<1>2. \/ file' = file \o stdio /\ unflushed' = FALSE
      \/ unflushed' = TRUE
         /\ \E n \in 0..Len(stdio) : file' = file \o SubSeq(stdio, 1, n)
  BY DEF Exit
<1>3. /\ file' \in Seq(Byte) /\ unflushed' \in BOOLEAN
      /\ IsPrefix(file, file') /\ IsPrefix(file', file \o stdio)
  <2>1. CASE file' = file \o stdio /\ unflushed' = FALSE
    BY <2>1, PrInvParts, Appended, PrefixSelf
  <2>2. CASE /\ unflushed' = TRUE
             /\ \E n \in 0..Len(stdio) : file' = file \o SubSeq(stdio, 1, n)
    <3>1. PICK n \in 0..Len(stdio) : file' = file \o SubSeq(stdio, 1, n)
      BY <2>2
    <3> DEFINE taken == SubSeq(stdio, 1, n)
               left == SubSeq(stdio, n + 1, Len(stdio))
    <3>2. /\ taken \in Seq(Byte) /\ left \in Seq(Byte) /\ taken \o left = stdio
      BY PrInvParts, SplitSeq
    <3>3. file' = file \o taken
      BY <3>1
    <3> HIDE DEF taken, left
    <3>4. file \o stdio = file' \o left
      <4>1. file \in Seq(Byte) /\ taken \in Seq(Byte) /\ left \in Seq(Byte)
        BY <3>2, PrInvParts
      <4>2. (file \o taken) \o left = file \o (taken \o left)
        BY <4>1, Assoc
      <4> QED
        BY <3>2, <3>3, <4>2
    <3> QED
      BY <2>2, <3>2, <3>3, <3>4, PrInvParts, Appended
  <2> QED
    BY <1>2, <2>1, <2>2
<1>4. IInv'
  <2>1. Len(buffer) \in Nat /\ <<>> \in Seq(Byte)
    BY LenProperties, EmptySeq, PrInvParts DEF IInv, TypeOK
  <2> QED
    BY <1>1, <1>3, <2>1, PrInvParts DEF IInv, TypeOK, PendingIsWritten
<1>5. PrintTypes'
  BY <1>1, <1>4, PrInvParts DEF PrintTypes
<1>6. PrintedStays'
  <2>1. ASSUME ~unflushed' PROVE IsPrefix(printed, file')
    BY <1>1, <1>2, <2>1, PrInvParts DEF PrintedStays
  <2> QED
    BY <1>1, <2>1 DEF PrintedStays
<1>7. Begun'
  <2> SUFFICES ASSUME print # NoPrint
               PROVE  IsPrefix(file', print.before \o print.sent)
    BY <1>1 DEF Begun
  <2>1. /\ IsPrefix(file \o stdio, print.before \o print.sent)
        /\ print.before \o print.sent \in Seq(Byte)
    BY <1>1, PrInvParts, StreamOfMacro
  <2> QED
    BY <1>3, <2>1, PrInvParts, PrefixTrans
<1>8. ~Running'
  BY <1>1 DEF Running
<1> QED
  BY <1>1, <1>3, <1>5, <1>6, <1>7, <1>8 DEF PrInv

\* A flush that has something to write and answers OK empties the buffer, and
\* the FILE too unless its fflush failed.
LEMMA FlushEmpties ==
    ASSUME PrInv, Flush, ret' = "OK", b_cursor # e_cursor
    PROVE  Stream' = file' \o stdio' /\ (~unflushed' => stdio' = <<>>)
<1>1. /\ buffer \in Seq(Cell)
      /\ b_cursor \in 0..Len(buffer) /\ e_cursor \in b_cursor..Len(buffer)
      /\ \A i \in (b_cursor + 1)..e_cursor : buffer[i] \in Byte
  BY PrInvParts DEF IInv, TypeOK, PendingIsWritten, Cell
<1>2. FlushAll(buffer, b_cursor, e_cursor) /\ buffer' = buffer
  BY DEF Flush, FlushNothing
<1>3. b_cursor' = 0 /\ e_cursor' = 0
  BY <1>2 DEF FlushAll, ResetCursors
<1>4. Pending' = <<>>
  BY <1>3, SubSeqEmpty DEF Pending
<1>5. IInv' /\ file' \o stdio' \in Seq(Byte)
  <2>1. IInv'
    BY PrInvParts, FlushKeepsAll
  <2> QED
    BY <2>1, ConcatProperties DEF IInv, TypeOK
<1>6. Stream' = file' \o stdio'
  BY <1>4, <1>5, PrefixSelf DEF Stream
<1>7. ASSUME ~unflushed' PROVE stdio' = <<>>
  <2>1. SubSeq(buffer, b_cursor + 1, e_cursor) \in Seq(Byte)
    BY <1>1, SplitPending
  <2>2. Take(SubSeq(buffer, b_cursor + 1, e_cursor), TRUE)
    BY <1>2, <1>7 DEF FlushAll
  <2> QED
    BY <2>1, <2>2, PrInvParts, TakeAppends
<1> QED
  BY <1>6, <1>7

LEMMA FlushPrintKeeps ==
    ASSUME PrInv, FlushPrint
    PROVE  Kept /\ Lossless
<1>1. /\ Running /\ print # NoPrint /\ (print.sent = <<>> \/ ret = "OK")
      /\ print.todo = <<>> /\ Flush /\ ctx' = ctx
      /\ exit' # "over"
  BY DEF FlushPrint, GoneWell, Running
<1>2. IInv' /\ Forward /\ Lossless /\ Stream' = Stream
  BY <1>1, FlushKeepsStream
<1>3. /\ print.sent \in Seq(Byte) /\ print.before \in Seq(Byte)
  BY <1>1, PrInvParts DEF PrintTypes, Macro
<1>4. data' = <<>> /\ (print.sent # <<>> => data = <<>>)
  BY <1>1 DEF Flush, PrInv, Turns
<1>5. CASE ret' = "OK"
  <2>1. printed' = Shown /\ print' = NoPrint /\ user' = Nobody
    BY <1>5 DEF FlushPrint
  <2>2. CASE print.sent = <<>>
    <3>1. printed' = printed
      BY <2>1, <2>2 DEF Shown
    <3>2. PrintedStays'
      BY <1>1, <1>2, <3>1, PrInvParts, PrintedForward
    <3> QED
      <4>1. PrintTypes' /\ Whole'
        BY <1>1, <1>2, <2>1, <3>1, PrInvParts DEF PrintTypes, Whole
      <4>2. Turns'
        BY <1>4, <1>5, <2>1 DEF Turns
      <4> QED
        BY <1>1, <1>2, <3>2, <4>1, <4>2, KeptIf
  <2>3. CASE print.sent # <<>>
    <3>1. printed' = print.before \o print.sent
      BY <2>1, <2>3 DEF Shown
    <3>2. Stream = printed'
      <4>1. data = <<>> /\ Stream \o data = print.before \o print.sent
        BY <1>1, <1>4, <2>3, PrInvParts DEF Whole
      <4> QED
        BY <3>1, <4>1, PrInvParts, PrefixSelf
    <3>3. b_cursor # e_cursor
      BY <1>1, <1>4, <2>3 DEF PrInv, Turns
    <3>4. printed' = file' \o stdio' /\ (~unflushed' => stdio' = <<>>)
      BY <1>1, <1>2, <1>5, <3>2, <3>3, FlushEmpties
    <3>5. printed' \in Seq(Byte) /\ file' \in Seq(Byte)
      BY <1>2, <3>2, PrInvParts DEF IInv, TypeOK
    <3>6. IsPrefix(printed', file' \o stdio')
      BY <3>4, <3>5, PrefixSelf
    <3>7. ASSUME ~unflushed' PROVE IsPrefix(printed', file')
      <4>1. printed' = file'
        BY <3>4, <3>5, <3>7, PrefixSelf
      <4> QED
        BY <3>6, <3>4, <3>7, <4>1, <3>5, PrefixSelf
    <3>8. PrintedStays'
      BY <3>6, <3>7 DEF PrintedStays
    <3> QED
      <4>1. PrintTypes' /\ Whole'
        BY <1>1, <1>2, <2>1, <3>5, PrInvParts DEF PrintTypes, Whole
      <4>2. Turns'
        BY <1>4, <1>5, <2>1 DEF Turns
      <4> QED
        BY <1>1, <1>2, <3>8, <4>1, <4>2, KeptIf
  <2> QED
    BY <2>2, <2>3
<1>6. CASE ret' # "OK"
  <2>1. exit' = "exiting" /\ printed' = printed /\ print' = print
    BY <1>6 DEF FlushPrint
  <2>2. PrintedStays'
    BY <1>1, <1>2, <2>1, PrInvParts, PrintedForward
  <2>3. Whole'
    <3>1. print.sent # <<>> => Stream' \o data' = print.before \o print.sent
      BY <1>1, <1>2, <1>4, PrInvParts DEF Whole
    <3> QED
      BY <1>1, <1>2, <2>1, <3>1, PrInvParts DEF Whole
  <2> QED
    <3>1. PrintTypes' /\ ~Running'
      BY <1>1, <1>2, <2>1, PrInvParts DEF PrintTypes, Running
    <3> QED
      BY <1>1, <1>2, <2>2, <2>3, <3>1, KeptIf
<1> QED
  BY <1>5, <1>6

LEMMA PrintStepKeeps ==
    ASSUME PrInv, [PrintNext]_printVars, ~Exit
    PROVE  Kept /\ (Lossless \/ Starts)
<1>1. ASSUME NEW t \in Thread, InitArena(t) \/ InitDump(t) PROVE Kept /\ Lossless
  BY <1>1, AdvanceKeeps
<1>2. ASSUME NEW t \in Thread, InitStreams(t) PROVE Kept /\ (Lossless \/ Starts)
  BY <1>2, InitStreamsKeeps
<1>3. ASSUME NEW t \in Thread, Race(t) PROVE Kept /\ Lossless
  BY <1>3, RaceKeeps
<1>4. ASSUME NEW t \in Thread, NEW d \in Requests, DirectWrite(t, d)
      PROVE  Kept /\ Lossless
  BY <1>4, DirectWriteKeeps
<1>5. ASSUME NEW t \in Thread, DirectFlush(t) PROVE Kept /\ Lossless
  BY <1>5, DirectFlushKeeps
<1>6. ASSUME NEW t \in Thread, NEW pieces \in Prints, BeginPrint(t, pieces)
      PROVE  Kept /\ Lossless
  BY <1>6, BeginPrintKeeps
<1>7. CASE UNCHANGED printVars
  <2>1. /\ UNCHANGED <<vars, print, printed>>
        /\ exit' = exit /\ user' = user /\ ctx' = ctx
    BY <1>7 DEF printVars, threadVars
  <2> QED
    BY <2>1, AsideKeeps, PrInvParts DEF PrintTypes, Running
<1> QED
  BY <1>1, <1>2, <1>3, <1>4, <1>5, <1>6, <1>7, StreamStepKeeps, WritePieceKeeps,
     StopsKeeps, FlushPrintKeeps DEF PrintNext

LEMMA PrintStep ==
    PrInv /\ [PrintNext]_printVars
        => /\ PrInv'
           /\ IsPrefix(file, file')
           /\ IsPrefix(file \o stdio, file' \o stdio') \/ exit' = "over"
           /\ Lossless \/ Starts \/ exit' = "over"
BY PrintStepKeeps, ExitKeeps DEF Kept, Forward

-----------------------------------------------------------------------------

\* What a macro that returned has shown stays, through every later call, start
\* and fault, and the end of the program.
THEOREM PrintedStaysCorrect == PrintSpec => []PrintedStays
<1>1. PrInv => PrintedStays
  BY DEF PrInv
<1>2. PrInv /\ [PrintNext]_printVars => PrInv'
  BY PrintStep
<1> QED
  BY InitPrInv, <1>1, <1>2, PTL DEF PrintSpec

\* Nothing gets in between the bytes of a macro, and what is in the file when it
\* stops, and after the exit, is a beginning of them.
THEOREM PrintIsWholeCorrect == PrintSpec => []PrintIsWhole
<1>1. PrInv => PrintIsWhole
  <2> SUFFICES ASSUME PrInv, print # NoPrint PROVE PrintIsWhole
    BY DEF PrintIsWhole
  <2>1. CASE exit = "over"
    BY <2>1 DEF PrInv, Begun, PrintIsWhole
  <2>2. CASE exit # "over"
    <3>1. /\ IsPrefix(file \o stdio, print.before \o print.sent)
          /\ print.before \o print.sent \in Seq(Byte)
      BY <2>2, StreamOfMacro
    <3>2. IsPrefix(file, print.before \o print.sent)
      <4>1. IsPrefix(file, file \o stdio)
        BY PrInvParts, Appended
      <4> QED
        BY <3>1, <4>1, PrInvParts, PrefixTrans
    <3> QED
      BY <2>2, <3>2, PrInvParts DEF Whole, PrintIsWhole
  <2> QED
    BY <2>1, <2>2
<1>2. PrInv /\ [PrintNext]_printVars => PrInv'
  BY PrintStep
<1> QED
  BY InitPrInv, <1>1, <1>2, PTL DEF PrintSpec

\* Only the start of a thread and the exit lose accepted bytes; a start never
\* loses one that fwrite has taken, and nothing one that is in the file.
THEOREM OnlyStartAndExitLoseCorrect == PrintSpec => OnlyStartAndExitLose
<1> DEFINE Step == /\ IsPrefix(file, file')
                   /\ IsPrefix(file \o stdio, file' \o stdio') \/ exit' = "over"
                   /\ \/ IsPrefix(Stream, Stream')
                      \/ exit' = "over"
                      \/ \E t \in Thread : ctx[t] # ctx'[t]
<1>1. PrInv /\ [PrintNext]_printVars => PrInv' /\ Step
  BY PrintStep DEF Lossless, Starts
<1> HIDE DEF Step
<1>2. PrintSpec => [][Step]_printVars
  BY InitPrInv, <1>1, PTL DEF PrintSpec
<1> QED
  BY <1>2 DEF OnlyStartAndExitLose, Step
=============================================================================
