-------------------------- MODULE OutputFileStream --------------------------
(***************************************************************************)
(* OutputFileStream (io.h): a byte buffer with two cursors in front of a   *)
(* C FILE.  b_cursor..e_cursor is the part of the buffer fwrite has not    *)
(* taken yet.  A write fills the buffer and flushes it until the rest of   *)
(* its data fits; one iteration of that loop is one step, so a write that  *)
(* never leaves the loop is a behaviour.  The FILE is the C library's:     *)
(* `stdio' holds what fwrite took and has not handed to the file.          *)
(***************************************************************************)
EXTENDS Integers, Sequences

CONSTANTS
    Byte,               \* the bytes of the requests
    NoByte,             \* what malloc leaves in a fresh buffer
    BufferSize,         \* buffer_size of output_file_stream_new_in
    Requests,           \* the data a caller may pass to a write
    MaxBytes,           \* bound: no write begins that could pass this total
    FileFaults,         \* how the FILE may fail: "short" fwrite, "fflush"
    AllocMayFail        \* whether the buffer's allocation may fail

ASSUME BufferAssumption ==
    /\ NoByte \notin Byte
    /\ BufferSize \in Nat
    /\ MaxBytes \in Nat
    /\ AllocMayFail \in BOOLEAN

ASSUME RequestAssumption == Requests \subseteq Seq(Byte)

ASSUME FaultAssumption == FileFaults \subseteq {"short", "fflush"}

VARIABLES
    buffer,             \* the bytes of self->buffer
    b_cursor,           \* offsets of the two cursors in the buffer
    e_cursor,
    stdio,              \* taken by fwrite, still inside the FILE
    file,               \* what has reached the file
    unflushed,          \* whether the last fflush failed
    data,               \* what the running write has not copied yet
    op,                 \* the last call: "none", "write" or "flush"
    ret                 \* "none", "running", or the IOError it returned

vars == <<buffer, b_cursor, e_cursor, stdio, file, unflushed, data, op, ret>>

-----------------------------------------------------------------------------

\* output_file_stream_pending_len, and the bytes it counts.
PendingLen == e_cursor - b_cursor
Pending == SubSeq(buffer, b_cursor + 1, e_cursor)

\* output_file_stream_rest_size.
RestSize == Len(buffer) - e_cursor

\* memcpy to offset `at' of the buffer.
Copied(at, bytes) ==
    [i \in 1..Len(buffer) |->
        IF i > at /\ i <= at + Len(bytes) THEN bytes[i - at] ELSE buffer[i]]

\* output_file_stream_reset_cursors, given where e_cursor stands.  (Slips:
\* both cursors meet at the end of the buffer instead of its start; only one of
\* them is reset.)
ResetToEnd(e) == b_cursor' = e /\ e_cursor' = e
ResetEndOnly(e) == e_cursor' = 0 /\ UNCHANGED b_cursor
ResetCursors(e) == b_cursor' = 0 /\ e_cursor' = 0

\* The C library takes `bytes'.  Unless it flushes, how much of what the
\* FILE holds goes on to the file is its own choice.
Take(bytes, flushed) ==
    LET held == stdio \o bytes IN
    \E n \in (IF flushed THEN {Len(held)} ELSE 0..Len(held)) :
        /\ file' = file \o SubSeq(held, 1, n)
        /\ stdio' = SubSeq(held, n + 1, Len(held))

\* What output_file_stream_flush does with cursors at b and e of the buffer
\* `bytes'.  The result of fflush is not looked at.
FlushNothing(b, e) ==
    /\ b = e
    /\ b_cursor' = b /\ e_cursor' = e
    /\ UNCHANGED <<stdio, file, unflushed>>

\* (A slip: no fflush, the bug that fmt.h:130 remembers.)
FlushWithoutFflush(bytes, b, e) ==
    /\ b # e
    /\ Take(SubSeq(bytes, b + 1, e), FALSE)
    /\ ResetCursors(e)
    /\ UNCHANGED unflushed

FlushAll(bytes, b, e) ==
    /\ b # e
    /\ \/ Take(SubSeq(bytes, b + 1, e), TRUE) /\ unflushed' = FALSE
       \/ "fflush" \in FileFaults
          /\ Take(SubSeq(bytes, b + 1, e), FALSE)
          /\ unflushed' = TRUE
    /\ ResetCursors(e)

\* (A slip: what fwrite took stays pending.)
FlushShortKeeping(bytes, b, e) ==
    /\ "short" \in FileFaults
    /\ \E written \in 0..(e - b - 1) :
          Take(SubSeq(bytes, b + 1, b + written), FALSE)
    /\ b_cursor' = b /\ e_cursor' = e
    /\ UNCHANGED unflushed

FlushShort(bytes, b, e) ==
    /\ "short" \in FileFaults
    /\ \E written \in 0..(e - b - 1) :
          /\ Take(SubSeq(bytes, b + 1, b + written), FALSE)
          /\ b_cursor' = b + written
    /\ e_cursor' = e
    /\ UNCHANGED unflushed

-----------------------------------------------------------------------------

\* output_file_stream_new_in, called by io_init, which ignores its result: a
\* failed allocation leaves the zeroed global, an empty buffer.
Init ==
    /\ \E size \in (IF AllocMayFail THEN {BufferSize, 0} ELSE {BufferSize}) :
          buffer = [i \in 1..size |-> NoByte]
    /\ b_cursor = 0
    /\ e_cursor = 0
    /\ stdio = <<>>
    /\ file = <<>>
    /\ unflushed = FALSE
    /\ data = <<>>
    /\ op = "none"
    /\ ret = "none"

Write(d) ==
    /\ ret # "running"
    /\ Len(file) + Len(stdio) + PendingLen + Len(d) <= MaxBytes
    /\ data' = d
    /\ op' = "write"
    /\ ret' = "running"
    /\ UNCHANGED <<buffer, b_cursor, e_cursor, stdio, file, unflushed>>

\* One iteration of the loop: fill the buffer, flush it.
FillAndFlush ==
    LET filled == Copied(e_cursor, SubSeq(data, 1, RestSize))
        e == e_cursor + RestSize
    IN
    /\ ret = "running"
    /\ RestSize < Len(data)
    /\ buffer' = filled
    /\ data' = SubSeq(data, RestSize + 1, Len(data))
    /\ \/ FlushNothing(b_cursor, e) /\ UNCHANGED ret
       \/ FlushAll(filled, b_cursor, e) /\ UNCHANGED ret
       \/ FlushShort(filled, b_cursor, e) /\ ret' = "WRITE"
    /\ UNCHANGED op

\* What is left of the data fits (it may be nothing at all).
CopyRest ==
    /\ ret = "running"
    /\ RestSize >= Len(data)
    /\ buffer' = Copied(e_cursor, data)
    /\ e_cursor' = e_cursor + Len(data)
    /\ data' = <<>>
    /\ ret' = "OK"
    /\ UNCHANGED <<b_cursor, stdio, file, unflushed, op>>

Flush ==
    /\ ret # "running"
    /\ \/ FlushNothing(b_cursor, e_cursor) /\ ret' = "OK"
       \/ FlushAll(buffer, b_cursor, e_cursor) /\ ret' = "OK"
       \/ FlushShort(buffer, b_cursor, e_cursor) /\ ret' = "WRITE"
    /\ op' = "flush"
    /\ data' = <<>>
    /\ UNCHANGED buffer

Next ==
    \/ \E d \in Requests : Write(d)
    \/ FillAndFlush
    \/ CopyRest
    \/ Flush

\* A call that has begun runs: its thread is scheduled.
Fairness == WF_vars(FillAndFlush) /\ WF_vars(CopyRest)

Spec == Init /\ [][Next]_vars
FairSpec == Spec /\ Fairness

-----------------------------------------------------------------------------

TypeOK ==
    /\ buffer \in Seq(Byte \union {NoByte})
    /\ b_cursor \in 0..Len(buffer)
    /\ e_cursor \in b_cursor..Len(buffer)
    /\ stdio \in Seq(Byte)
    /\ file \in Seq(Byte)
    /\ unflushed \in BOOLEAN
    /\ data \in Seq(Byte)
    /\ op \in {"none", "write", "flush"}
    /\ ret \in {"none", "running", "OK", "WRITE"}

\* fwrite is never given a byte that no write has put in the buffer.
PendingIsWritten == \A i \in (b_cursor + 1)..e_cursor : buffer[i] \in Byte

\* The stream as its callers know it.
Stream == file \o stdio \o Pending

\* The buffered stream is a byte stream: whatever fwrite and fflush do, no
\* accepted byte is lost, repeated or reordered, a write returns OK only when
\* it took all its data, and WRITE only when it did not.
Bytes == INSTANCE ByteStream WITH stream <- Stream
IsByteStream == Bytes!Spec

\* Unless the last fflush failed, nothing stays inside the FILE when the buffer
\* is empty: flush may return early then and still keep its promise.
NothingLeftBehind == ~unflushed /\ b_cursor = e_cursor => stdio = <<>>

\* output_file_stream_flush that returns OK has put every accepted byte in
\* the file, unless an fflush failed and none has succeeded since; what an
\* earlier failure left behind is delivered too.
FlushDelivers ==
    op = "flush" /\ ret = "OK" /\ ~unflushed => stdio = <<>> /\ Pending = <<>>

\* A write that returned WRITE left a full buffer with something pending, so
\* the next call first finishes the flush that failed.
FailedWriteIsPending ==
    op = "write" /\ ret = "WRITE" => e_cursor = Len(buffer) /\ b_cursor < e_cursor

\* Every write to a stream that has a buffer returns.
WriteReturns == Len(buffer) > 0 /\ ret = "running" ~> ret # "running"
=============================================================================
