------------------------------- MODULE DbgFmt -------------------------------
(***************************************************************************)
(* slice_dbg_fmt (array.h) and str_dbg_fmt (string.h), each a few writes   *)
(* to a StringFormatter that may fail at any of them.  Nobody sets el_tid, *)
(* and type 0 is int: an item is printed by int_dbg_fmt (primitive.h), one *)
(* write of what snprintf makes of it.                                     *)
(*                                                                         *)
(* fmt is what write_fmt would have to be given to print the same:         *)
(* RendersAs(fmt) says what comes out.                                     *)
(***************************************************************************)
EXTENDS Formatter

CONSTANT Slices         \* sequences of items, each one token when printed

\* What an item or a rune prints is no percent sign, and a newline among the
\* runes is a TextNewline.
ASSUME SliceAssumption ==
    /\ Slices \subseteq Seq(STRING)
    /\ \A s \in Slices : \A n \in DOMAIN s : s[n] \notin {"%", "\n"}

VARIABLES
    items,              \* the slice, or the string's runes
    piece,              \* the next write: "none", "open", "item", "comma",
                        \* "last", "close", or of a string "quote", "text",
                        \* "unquote"
    i                   \* the index of the item

dbgVars == <<vars, items, piece, i>>

\* The items between brackets, and a comma between each two.
Listed(s) ==
    <<"[">> \o [n \in 1..(3 * Len(s) - 2) |->
                  IF n % 3 = 1 THEN s[n \div 3 + 1]
                  ELSE IF n % 3 = 2 THEN "," ELSE " "] \o <<"]">>

Quoted(s) == <<"\"">> \o s \o <<"\"">>

-----------------------------------------------------------------------------

DbgInit == Init /\ items = <<>> /\ piece = "none" /\ i = 0

\* A call begins, to print s as text does.
BeginDbg(s, text, first) ==
    /\ Begin(text)
    /\ out' = <<>>
    /\ ret' = "running"
    /\ items' = s
    /\ piece' = first
    /\ i' = 0
    /\ UNCHANGED <<pad_level, is_line_padded, has_text>>

SliceDbgFmt(s) == BeginDbg(s, Listed(s), "open")
StrDbgFmt(s) == BeginDbg(s, Quoted(s), "quote")

\* One string_formatter_write; an error returns from all of the calls.
WriteThen(s, next, result) ==
    /\ \/ /\ Give(out, s)
          /\ is_line_padded' = TRUE
          /\ piece' = next /\ ret' = result
       \/ Fail(out, s) /\ piece' = "none"
    /\ UNCHANGED <<fmt, fmt_str, e_fmt_str, at, start, items>>

WriteNext(s, next) == WriteThen(s, next, "running")
WriteEnd(s) == WriteThen(s, "none", "OK") /\ UNCHANGED i

\* What is written once the index is n: the loop runs to len - 1, where len is
\* unsigned.  (A slip: it runs past the end.)
PieceAtPast(n) == IF n <= Len(items) THEN "item" ELSE "last"
PieceAt(n) == IF items = <<>> \/ n < Len(items) - 1 THEN "item" ELSE "last"

\* One write of what snprintf makes of an int.
IntDbgFmt(item, next) == WriteNext(<<item>>, next)

\* slice_get_i(self, -1).
GetLast == items[Len(items)]

Open ==
    /\ piece = "open"
    /\ WriteNext(<<"[">>, PieceAt(i))
    /\ UNCHANGED i

\* slice_get asserts its index.
Item ==
    /\ piece = "item"
    /\ IF i < Len(items)
       THEN IntDbgFmt(items[i + 1], "comma")
       ELSE /\ ret' = "panic"
            /\ Quiet
            /\ UNCHANGED <<fmt, fmt_str, e_fmt_str, at, start, items, piece>>
    /\ UNCHANGED i

Comma ==
    /\ piece = "comma"
    /\ i' = i + 1
    /\ WriteNext(<<",", " ">>, PieceAt(i + 1))

LastItem ==
    /\ piece = "last"
    /\ IntDbgFmt(GetLast, "close")
    /\ UNCHANGED i

Close == piece = "close" /\ WriteEnd(<<"]">>)

Quote == piece = "quote" /\ WriteNext(<<"\"">>, "text") /\ UNCHANGED i
Text == piece = "text" /\ WriteNext(items, "unquote") /\ UNCHANGED i
Unquote == piece = "unquote" /\ WriteEnd(<<"\"">>)

DbgStep ==
    /\ ret = "running"
    /\ Open \/ Item \/ Comma \/ LastItem \/ Close \/ Quote \/ Text \/ Unquote

\* The formatter's own calls.
FmtStep == piece = "none" /\ Step /\ UNCHANGED <<items, piece, i>>
FmtCall ==
    /\ \/ \E s \in Texts : Write(s) \/ Writeln(s)
       \/ \E f \in Formats : WriteFmt(f)
       \/ PadInc
       \/ PadDec
    /\ UNCHANGED <<items, piece, i>>

DbgReturn ==
    /\ Return
    /\ items' = <<>> /\ i' = 0
    /\ UNCHANGED piece

DbgNext ==
    \/ \E s \in Slices : SliceDbgFmt(s) \/ StrDbgFmt(s)
    \/ DbgStep
    \/ FmtStep
    \/ FmtCall
    \/ DbgReturn

DbgSpec ==
    /\ DbgInit /\ [][DbgNext]_dbgVars
    /\ WF_dbgVars(DbgStep) /\ WF_dbgVars(FmtStep)

-----------------------------------------------------------------------------

\* Only the empty slice stops the program: its len - 1 is no end for the loop.
OnlyEmptySliceStops == piece # "none" /\ ret = "panic" => items = <<>>

\* A plain string that is well-formed is written, however its signs come.
PlainSucceeds == R!Plain(fmt) /\ piece = "none" => WellFormedSucceeds
=============================================================================
