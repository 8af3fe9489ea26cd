------------------------------ MODULE Printing ------------------------------
(***************************************************************************)
(* Threads that print (fmt.h, runtime.h) through one OutputFileStream.     *)
(* g_ctx is a thread's own and ctx_init_default makes it; g_stdout_ofs is  *)
(* the process's, and every ctx_init_default makes it anew.  A print macro *)
(* writes its pieces (text, values, a newline), flushes, and asserts that  *)
(* all of it went well; the program may also write to the stream directly. *)
(*                                                                         *)
(* Nothing orders two threads.  One that touches the stream while another  *)
(* is inside a call is a data race, and ends the behaviour.                *)
(***************************************************************************)
EXTENDS OutputFileStream, SequencesExt

CONSTANTS
    Thread,
    Prints,             \* what a macro prints: sequences of pieces
    Nobody,             \* no thread is inside a call,
    NoPrint             \* and the call is not a print macro

\* Pieces are not empty.
ASSUME PrintAssumption == Prints \subseteq Seq(Seq(Byte) \ {<<>>})
Macros == [todo : Seq(Seq(Byte)), sent : Seq(Byte), before : Seq(Byte)]
ASSUME NobodyAssumption == Nobody \notin Thread /\ NoPrint \notin Macros

VARIABLES
    ctx,                \* how far each thread's ctx_init_default has come
    user,               \* the thread inside a call on the stream
    print,              \* its macro: pieces to write, bytes written, and the
                        \* stream as it was before
    printed,            \* the stream up to the end of the last finished macro
    exit                \* "no", "exiting" (main returned, or an assertion
                        \* failed: exit was called), "over", or undefined:
                        \* "null raise", "race"

threadVars == <<ctx, user, print, printed, exit>>
printVars == <<vars, threadVars>>

Running == exit = "no"

\* t may touch the stream, and nobody is in its way.
Alone(t) == Running /\ user = Nobody /\ ctx[t] = "ready"
Room(d) == Len(Stream) + Len(d) <= MaxBytes

Ready(t) == ctx' = [ctx EXCEPT ![t] = "ready"]

-----------------------------------------------------------------------------

\* The globals are zeroed.
PrintInit ==
    /\ buffer = <<>> /\ b_cursor = 0 /\ e_cursor = 0
    /\ stdio = <<>> /\ file = <<>> /\ unflushed = FALSE
    /\ data = <<>> /\ op = "none" /\ ret = "none"
    /\ ctx = [t \in Thread |-> "new"]
    /\ user = Nobody
    /\ print = NoPrint
    /\ printed = <<>>
    /\ exit = "no"

\* ctx_init_default up to g_ctx.raise: two allocations, for the arena and the
\* dump buffer.  When one fails, c_alloc calls g_ctx.raise, still null.
Advance(t, from, to) ==
    /\ Running /\ ctx[t] = from
    /\ \/ ctx' = [ctx EXCEPT ![t] = to] /\ UNCHANGED exit
       \/ AllocMayFail /\ exit' = "null raise" /\ UNCHANGED ctx
    /\ UNCHANGED <<vars, user, print, printed>>

InitArena(t) == Advance(t, "new", "arena")
InitDump(t) == Advance(t, "arena", "dump")

\* output_file_stream_new_in on the stream that may be in use.
NewStream ==
    /\ buffer' = [n \in 1..BufferSize |-> NoByte]
    /\ b_cursor' = 0
    /\ e_cursor' = 0
    /\ UNCHANGED <<stdio, file, unflushed, data, op, ret>>

\* io_init ignores a failed allocation: the stream stays what it was.  (A
\* slip: a FILE is made too, and what the last one held is gone.)
InitStreamsReopening(t) ==
    /\ Running /\ user = Nobody /\ ctx[t] = "dump"
    /\ buffer' = [n \in 1..BufferSize |-> NoByte]
    /\ b_cursor' = 0 /\ e_cursor' = 0 /\ stdio' = <<>>
    /\ Ready(t)
    /\ UNCHANGED <<file, unflushed, data, op, ret, user, print, printed, exit>>
InitStreams(t) ==
    /\ Running /\ user = Nobody /\ ctx[t] = "dump"
    /\ NewStream \/ (AllocMayFail /\ UNCHANGED vars)
    /\ Ready(t)
    /\ UNCHANGED <<user, print, printed, exit>>

\* Two threads at the stream: one of them inside a call, or in io_init.
Race(t) ==
    /\ Running /\ ctx[t] \in {"dump", "ready"}
    /\ \E u \in Thread \ {t} : user = u \/ ctx[u] = "dump"
    /\ exit' = "race"
    /\ UNCHANGED <<vars, ctx, user, print, printed>>

-----------------------------------------------------------------------------

\* stream_writer_write and stream_writer_flush, called by the program.
DirectWrite(t, d) ==
    /\ Alone(t)
    /\ Write(d)
    /\ user' = t
    /\ UNCHANGED <<ctx, print, printed, exit>>

DirectFlush(t) == Alone(t) /\ Flush /\ UNCHANGED threadVars

\* The loop of a write, whoever called it.
StreamStep ==
    /\ Running
    /\ FillAndFlush \/ CopyRest
    /\ user' = IF print = NoPrint /\ ret' # "running" THEN Nobody ELSE user
    /\ UNCHANGED <<ctx, print, printed, exit>>

\* A macro, with a formatter of its own.
BeginPrint(t, pieces) ==
    /\ Alone(t)
    /\ Room(FlattenSeq(pieces))
    /\ user' = t
    /\ print' = [todo |-> pieces, sent |-> <<>>, before |-> Stream]
    /\ UNCHANGED <<vars, ctx, printed, exit>>

\* What came before in the macro has gone well, or has failed.
GoneWell == print # NoPrint /\ (print.sent = <<>> \/ ret = "OK")
GoneWrong == print # NoPrint /\ print.sent # <<>> /\ ret = "WRITE"

\* The stream up to the last byte the macro wrote.  One that wrote nothing may
\* flush nothing either, and promises nothing of what was there before.
Shown == IF print.sent = <<>> THEN printed ELSE print.before \o print.sent

\* (A slip: the result of the piece before is not looked at.)
WritePieceRegardless ==
    /\ Running /\ print # NoPrint
    /\ print.todo # <<>>
    /\ Write(Head(print.todo))
    /\ print' = [print EXCEPT !.todo = Tail(@), !.sent = @ \o Head(print.todo)]
    /\ UNCHANGED <<ctx, user, printed, exit>>
WritePiece ==
    /\ Running /\ GoneWell
    /\ print.todo # <<>>
    /\ Write(Head(print.todo))
    /\ print' = [print EXCEPT !.todo = Tail(@), !.sent = @ \o Head(print.todo)]
    /\ UNCHANGED <<ctx, user, printed, exit>>

\* ASSERT_OK finds that the stream failed, or, anywhere between two writes, that
\* the formatter refused its string.  (A slip: the rest of the piece is written
\* again until it is accepted.)
Panic == exit' = "exiting" /\ UNCHANGED <<ctx, user, print, printed>>
PrintRetries ==
    /\ Running /\ GoneWrong
    /\ Write(data)
    /\ UNCHANGED threadVars
PrintFails == Running /\ GoneWrong /\ Panic /\ UNCHANGED vars
PrintRefused ==
    Running /\ GoneWell /\ ret # "running" /\ Panic /\ UNCHANGED vars

\* The macro's last statement.  (A slip: it does not flush.)
EndWithoutFlush ==
    /\ Running /\ GoneWell
    /\ print.todo = <<>>
    /\ ret # "running"
    /\ printed' = Shown
    /\ print' = NoPrint
    /\ user' = Nobody
    /\ UNCHANGED <<vars, ctx, exit>>
FlushPrint ==
    /\ Running /\ GoneWell
    /\ print.todo = <<>>
    /\ Flush
    /\ IF ret' = "OK"
       THEN /\ printed' = Shown
            /\ print' = NoPrint
            /\ user' = Nobody
            /\ UNCHANGED exit
       ELSE exit' = "exiting" /\ UNCHANGED <<printed, print, user>>
    /\ UNCHANGED ctx

-----------------------------------------------------------------------------

\* main returns.
Return ==
    /\ Running /\ user = Nobody
    /\ exit' = "exiting"
    /\ UNCHANGED <<vars, ctx, user, print, printed>>

\* exit: the C library flushes the FILE, as far as it can, and the memory of
\* the process is gone, with what is pending in the buffer.
Exit ==
    /\ exit = "exiting"
    /\ exit' = "over"
    /\ \/ file' = file \o stdio /\ unflushed' = FALSE
       \/ /\ "fflush" \in FileFaults
          /\ \E n \in 0..Len(stdio) : file' = file \o SubSeq(stdio, 1, n)
          /\ unflushed' = TRUE
    /\ stdio' = <<>>
    /\ b_cursor' = 0 /\ e_cursor' = 0
    /\ UNCHANGED <<buffer, data, op, ret, ctx, user, print, printed>>

PrintNext ==
    \/ \E t \in Thread :
         \/ InitArena(t) \/ InitDump(t) \/ InitStreams(t)
         \/ Race(t)
         \/ \E d \in Requests : DirectWrite(t, d)
         \/ DirectFlush(t)
         \/ \E pieces \in Prints : BeginPrint(t, pieces)
    \/ StreamStep
    \/ WritePiece
    \/ PrintFails \/ PrintRefused
    \/ FlushPrint
    \/ Return \/ Exit

\* The thread inside a macro is scheduled.
PrintFairness ==
    /\ WF_printVars(StreamStep)
    /\ WF_printVars(WritePiece)
    /\ WF_printVars(PrintFails)
    /\ WF_printVars(FlushPrint)

PrintSpec == PrintInit /\ [][PrintNext]_printVars /\ PrintFairness

-----------------------------------------------------------------------------

\* A macro that returned has shown everything up to its last byte: it is in
\* the file (in the FILE, when fflush failed since, and lost with it only if it
\* fails again at the exit), whatever is printed after it, whichever thread
\* starts, and however the program ends.
PrintedStays ==
    /\ exit # "over" => IsPrefix(printed, file \o stdio)
    /\ ~unflushed => IsPrefix(printed, file)

\* No byte gets in between those of one macro, and when it panics, the file
\* has a beginning of them, also after the exit.
PrintIsWhole ==
    print # NoPrint =>
        /\ exit # "over" =>
             /\ print.sent = <<>> => Stream = print.before
             /\ print.sent # <<>> => Stream \o data = print.before \o print.sent
        /\ IsPrefix(file, print.before \o print.sent)

\* Bytes that were accepted are lost in two ways: when a thread starts, those
\* that fwrite has not taken; and at the exit, those, and what the C library
\* fails to flush.  No byte in the file is ever lost.
OnlyStartAndExitLose ==
    [][/\ IsPrefix(file, file')
       /\ IsPrefix(file \o stdio, file' \o stdio') \/ exit' = "over"
       /\ \/ IsPrefix(Stream, Stream')
          \/ exit' = "over"
          \/ \E t \in Thread : ctx[t] # ctx'[t]]_printVars

\* A macro ends, or ends the program, if the stream has a buffer.
PrintReturns ==
    print # NoPrint /\ Len(buffer) > 0 ~> print = NoPrint \/ exit # "no"
=============================================================================
