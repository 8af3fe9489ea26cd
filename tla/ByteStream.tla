----------------------------- MODULE ByteStream -----------------------------
(***************************************************************************)
(* What a StreamWriter (io.h) promises its callers: an append-only stream  *)
(* of bytes.  A write accepts the bytes of its request in order, a few at  *)
(* a time; it answers "OK" only when it has accepted all of them, and      *)
(* "WRITE" only when it left some of them out.  Nothing that was accepted  *)
(* is ever lost, repeated or reordered; a flush adds nothing.              *)
(***************************************************************************)
EXTENDS Integers, Sequences

CONSTANT Requests       \* the byte sequences a caller may ask to write

VARIABLES
    stream,             \* every byte accepted so far, in order
    data,               \* the bytes of the current write not accepted yet
    ret                 \* "none", "running", or the IOError of the last call

vars == <<stream, data, ret>>

Init ==
    /\ stream = <<>>
    /\ data = <<>>
    /\ ret = "none"

Begin ==
    /\ ret # "running"
    /\ data' \in Requests
    /\ ret' = "running"
    /\ UNCHANGED stream

Accept ==
    /\ ret = "running"
    /\ \E n \in 0..Len(data) :
          /\ stream' = stream \o SubSeq(data, 1, n)
          /\ data' = SubSeq(data, n + 1, Len(data))
    /\ \/ ret' = "running"
       \/ ret' = "OK" /\ data' = <<>>
       \/ ret' = "WRITE" /\ data' # <<>>

Flush ==
    /\ ret # "running"
    /\ ret' \in {"OK", "WRITE"}
    /\ data' = <<>>
    /\ UNCHANGED stream

Next == Begin \/ Accept \/ Flush

Spec == Init /\ [][Next]_vars
=============================================================================
