----------------------------- MODULE Formatter ------------------------------
(***************************************************************************)
(* StringFormatter (fmt.h): text with indented lines, above a stream       *)
(* writer that may fail at any byte.  string_formatter_write_fmt keeps two *)
(* positions in its format string: fmt_str, where what is not yet written  *)
(* begins, and e_fmt_str, the next rune to read.                           *)
(*                                                                         *)
(* A token of the output is a rune of a format string, a pad, the value of *)
(* an argument, or a piece of a string given to write, perhaps of no bytes *)
(* at all.  Such a string may hold a newline: the formatter writes it as   *)
(* it is and takes no notice of it, so that it is a token of its own,      *)
(* TextNewline, and no "\n".                                               *)
(***************************************************************************)
EXTENDS Integers, Sequences, SequencesExt

CONSTANTS
    Formats,            \* the strings write_fmt is called with
    Texts,              \* the strings write and writeln are called with
    MaxLevel,           \* bound: the pad level at which calls begin
    WriteMayFail        \* the target may fail

\* A rune is a string of its own.  Only writeln and a format string give a
\* newline that the formatter counts with.
ASSUME RuneAssumption == Formats \union Texts \subseteq Seq(STRING)
ASSUME TextAssumption ==
    \A s \in Texts : s # <<>> /\ \A n \in DOMAIN s : s[n] \notin {"%", "\n"}
ASSUME LevelAssumption == MaxLevel \in Nat /\ WriteMayFail \in BOOLEAN

VARIABLES
    pad_level,
    is_line_padded,
    fmt,                \* the string of the call
    fmt_str, e_fmt_str, \* how many of its runes are written, and read
    at,                 \* "text", or "directive" after a percent sign
    out,                \* what the call has written to the target
    start,              \* the level and the padding when the call began
    has_text,           \* the line the target is at has text
    ret                 \* "none", "running", "panic", "OK", and for an ERROR
                        \* its reason, "target" or "format"

vars == <<pad_level, is_line_padded, fmt, fmt_str, e_fmt_str, at, out, start,
          has_text, ret>>

R == INSTANCE Rendering

-----------------------------------------------------------------------------

Idle == ret = "none"

Pads == [n \in 1..pad_level |-> R!Pad]
Padded(s) == (IF is_line_padded THEN <<>> ELSE Pads) \o s

HasTextAfter(s) ==
    LET text == {n \in DOMAIN s : s[n] # R!Pad} IN
    IF text = {} THEN has_text
    ELSE s[Max(text)] \notin {R!Newline, R!TextNewline}

\* The padding of the line, if it has none, and s reach the target.
Give(before, s) ==
    /\ out' = before \o Padded(s)
    /\ has_text' = HasTextAfter(Padded(s))
    /\ UNCHANGED pad_level

\* The target fails at one of these tokens.  The line counts as padded once
\* its padding was written.  (A slip: once all was written.)
FailUnpadded(before, s) ==
    /\ WriteMayFail
    /\ \E n \in 0..(Len(Padded(s)) - 1) :
          /\ out' = before \o SubSeq(Padded(s), 1, n)
          /\ has_text' = HasTextAfter(SubSeq(Padded(s), 1, n))
    /\ ret' = "target"
    /\ UNCHANGED <<pad_level, is_line_padded>>

Fail(before, s) ==
    /\ WriteMayFail
    /\ \E n \in 0..(Len(Padded(s)) - 1) :
          /\ out' = before \o SubSeq(Padded(s), 1, n)
          /\ has_text' = HasTextAfter(SubSeq(Padded(s), 1, n))
          /\ is_line_padded' = (n >= Len(Padded(s)) - Len(s))
    /\ ret' = "target"
    /\ UNCHANGED pad_level

\* Nothing is written.
Quiet == UNCHANGED <<pad_level, is_line_padded, out, has_text>>

-----------------------------------------------------------------------------

Init ==
    /\ pad_level = 0
    /\ is_line_padded = FALSE
    /\ fmt = <<>>
    /\ fmt_str = 0
    /\ e_fmt_str = 0
    /\ at = "text"
    /\ out = <<>>
    /\ start = [level |-> 0, padded |-> FALSE]
    /\ has_text = FALSE
    /\ ret = "none"

Begin(s) ==
    /\ Idle
    /\ pad_level <= MaxLevel
    /\ fmt' = s
    /\ fmt_str' = 0
    /\ e_fmt_str' = 0
    /\ at' = "text"
    /\ start' = [level |-> pad_level, padded |-> is_line_padded]

Write(s) ==
    /\ Begin(s)
    /\ \/ Give(<<>>, s) /\ is_line_padded' = TRUE /\ ret' = "OK"
       \/ Fail(<<>>, s)

Writeln(s) ==
    /\ Begin(s \o <<R!Newline>>)
    /\ \/ /\ Give(<<>>, s \o <<R!Newline>>)
          /\ is_line_padded' = FALSE
          /\ ret' = "OK"
       \/ Fail(<<>>, s \o <<R!Newline>>)

WriteFmt(f) ==
    /\ Begin(f)
    /\ out' = <<>>
    /\ ret' = "running"
    /\ UNCHANGED <<pad_level, is_line_padded, has_text>>

\* string_formatter_pad_inc and pad_dec do what "%+" and "%-" do.
PadInc ==
    /\ Begin(<<"%", "+">>)
    /\ out' = <<>>
    /\ pad_level' = pad_level + 1
    /\ ret' = "OK"
    /\ UNCHANGED <<is_line_padded, has_text>>

PadDec ==
    /\ Begin(<<"%", "-">>)
    /\ out' = <<>>
    /\ IF pad_level > 0
       THEN pad_level' = pad_level - 1 /\ ret' = "OK"
       ELSE pad_level' = pad_level /\ ret' = "panic"
    /\ UNCHANGED <<is_line_padded, has_text>>

-----------------------------------------------------------------------------
(* The loop of string_formatter_write_fmt, a rune at a time.               *)

\* The loop, at a rune of text or past the end; after a percent sign.
AtText == ret = "running" /\ at = "text"
AtDirective == ret = "running" /\ at = "directive"
AtEnd == e_fmt_str = Len(fmt)
Rune == fmt[e_fmt_str + 1]

\* The runes between fmt_str and n.
Pending(n) == SubSeq(fmt, fmt_str + 1, n)

\* fmt_str and e_fmt_str move past the rune just read.
Advance ==
    /\ e_fmt_str' = e_fmt_str + 1
    /\ fmt_str' = e_fmt_str + 1

\* (A slip: the rune is read and not passed.)
ReadTextStays ==
    /\ AtText /\ ~AtEnd
    /\ Rune \notin {"%", "\n"}
    /\ Quiet
    /\ UNCHANGED <<fmt, fmt_str, e_fmt_str, at, start, ret>>

ReadText ==
    /\ AtText /\ ~AtEnd
    /\ Rune \notin {"%", "\n"}
    /\ e_fmt_str' = e_fmt_str + 1
    /\ Quiet
    /\ UNCHANGED <<fmt, fmt_str, at, start, ret>>

\* (A slip: the flag is not reset.)
ReadNewlineFlagKept ==
    /\ AtText /\ ~AtEnd
    /\ Rune = "\n"
    /\ \/ /\ Give(out, Pending(e_fmt_str + 1))
          /\ is_line_padded' = TRUE
          /\ UNCHANGED ret
       \/ Fail(out, Pending(e_fmt_str + 1))
    /\ Advance
    /\ UNCHANGED <<fmt, at, start>>

ReadNewline ==
    /\ AtText /\ ~AtEnd
    /\ Rune = "\n"
    /\ \/ /\ Give(out, Pending(e_fmt_str + 1))
          /\ is_line_padded' = FALSE
          /\ UNCHANGED ret
       \/ Fail(out, Pending(e_fmt_str + 1))
    /\ Advance
    /\ UNCHANGED <<fmt, at, start>>

\* A percent sign: the text before it is written, if there is any, and only
\* then does fmt_str move.
ReadPercent ==
    /\ AtText /\ ~AtEnd
    /\ Rune = "%"
    /\ IF Pending(e_fmt_str) = <<>>
       THEN /\ e_fmt_str' = e_fmt_str + 1
            /\ Quiet
            /\ UNCHANGED <<fmt_str, ret>>
       ELSE /\ \/ /\ Give(out, Pending(e_fmt_str))
                  /\ is_line_padded' = TRUE
                  /\ UNCHANGED ret
               \/ Fail(out, Pending(e_fmt_str))
            /\ Advance
    /\ at' = "directive"
    /\ UNCHANGED <<fmt, start>>

\* "%%": the second sign is left to be written as text.  (A slip: it is not
\* counted as read.)
PercentReread ==
    /\ AtDirective /\ ~AtEnd
    /\ Rune = "%"
    /\ at' = "text"
    /\ Quiet
    /\ UNCHANGED <<fmt, fmt_str, e_fmt_str, start, ret>>

Percent ==
    /\ AtDirective /\ ~AtEnd
    /\ Rune = "%"
    /\ e_fmt_str' = e_fmt_str + 1
    /\ at' = "text"
    /\ Quiet
    /\ UNCHANGED <<fmt, fmt_str, start, ret>>

\* "%+" and "%-".  (A slip: the level may go below zero.)
LevelUnchecked ==
    /\ AtDirective /\ ~AtEnd
    /\ \/ Rune = "+" /\ pad_level' = pad_level + 1
       \/ Rune = "-" /\ pad_level' = pad_level - 1
    /\ at' = "text"
    /\ Advance
    /\ UNCHANGED <<is_line_padded, fmt, out, start, has_text, ret>>

Level ==
    /\ AtDirective /\ ~AtEnd
    /\ \/ Rune = "+" /\ pad_level' = pad_level + 1 /\ UNCHANGED ret
       \/ /\ Rune = "-" /\ pad_level > 0
          /\ pad_level' = pad_level - 1
          /\ UNCHANGED ret
       \/ /\ Rune = "-" /\ pad_level = 0
          /\ ret' = "panic"
          /\ UNCHANGED pad_level
    /\ at' = "text"
    /\ Advance
    /\ UNCHANGED <<is_line_padded, fmt, out, start, has_text>>

\* An argument is printed, by snprintf or by the function of a Formattable.
PrintValue ==
    \/ Give(out, <<R!Value>>) /\ is_line_padded' = TRUE /\ UNCHANGED ret
    \/ Fail(out, <<R!Value>>)

Directive ==
    /\ AtDirective /\ ~AtEnd
    /\ Rune \in {"s", "v", "d", "u"}
    /\ PrintValue
    /\ at' = "text"
    /\ Advance
    /\ UNCHANGED <<fmt, start>>

\* "%l": the rune after it is read from fmt_str.
DirectiveLong ==
    /\ AtDirective /\ ~AtEnd
    /\ Rune = "l"
    /\ IF fmt[fmt_str + 1] \in {"d", "u"}
       THEN PrintValue
       ELSE ret' = "format" /\ Quiet
    /\ at' = "text"
    /\ Advance
    /\ UNCHANGED <<fmt, start>>

DirectiveUnknown ==
    /\ AtDirective /\ ~AtEnd
    /\ Rune \notin {"%", "+", "-", "s", "v", "d", "u", "l"}
    /\ ret' = "format"
    /\ Quiet
    /\ UNCHANGED <<fmt, fmt_str, e_fmt_str, at, start>>

\* The string ends after a percent sign: ASSERT_OK.
DirectiveMissing ==
    /\ AtDirective /\ AtEnd
    /\ ret' = "panic"
    /\ Quiet
    /\ UNCHANGED <<fmt, fmt_str, e_fmt_str, at, start>>

\* The loop ends, and what is left is written.
Finish ==
    /\ AtText /\ AtEnd
    /\ IF Pending(e_fmt_str) = <<>>
       THEN Quiet /\ ret' = "OK"
       ELSE \/ /\ Give(out, Pending(e_fmt_str))
               /\ is_line_padded' = TRUE
               /\ ret' = "OK"
            \/ Fail(out, Pending(e_fmt_str))
    /\ UNCHANGED <<fmt, fmt_str, e_fmt_str, at, start>>

\* The caller has its result, and what belonged to the call is gone.
Return ==
    /\ ret \in {"OK", "target", "format"}
    /\ ret' = "none"
    /\ fmt' = <<>>
    /\ fmt_str' = 0
    /\ e_fmt_str' = 0
    /\ at' = "text"
    /\ out' = <<>>
    /\ start' = [level |-> 0, padded |-> FALSE]
    /\ UNCHANGED <<pad_level, is_line_padded, has_text>>

Step ==
    \/ ReadText
    \/ ReadNewline
    \/ ReadPercent
    \/ Percent
    \/ Level
    \/ Directive
    \/ DirectiveLong
    \/ DirectiveUnknown
    \/ DirectiveMissing
    \/ Finish

Next ==
    \/ \E s \in Texts : Write(s) \/ Writeln(s)
    \/ \E f \in Formats : WriteFmt(f)
    \/ PadInc
    \/ PadDec
    \/ Step
    \/ Return

Spec == Init /\ [][Next]_vars /\ WF_vars(Step)

-----------------------------------------------------------------------------

TypeOK ==
    /\ pad_level \in Nat
    /\ is_line_padded \in BOOLEAN
    /\ e_fmt_str \in 0..Len(fmt)
    /\ fmt_str \in 0..e_fmt_str
    /\ at \in {"text", "directive"}
    /\ start \in [level : 0..MaxLevel, padded : BOOLEAN]
    /\ has_text \in BOOLEAN
    /\ ret \in {"none", "running", "panic", "OK", "target", "format"}

\* What has been written is at all times what f means, up to some point; all
\* of it when the call returns OK, which leaves the level and the padding of
\* the line as f says, for the next call to go on from.
RendersAs(f) ==
    LET meaning == R!Rendered(start.level, start.padded, f) IN
    /\ IsPrefix(out, meaning.out)
    /\ ret = "OK" => /\ out = meaning.out
                     /\ pad_level = meaning.level
                     /\ is_line_padded = meaning.padded
                     /\ meaning.good

\* A plain string is written as what it means, but for a "%%" with no text
\* waiting before it, which comes out twice; whatever strings other calls were
\* given.  So are a slice and a str_t.  After a text that ends in a newline
\* the line counts as padded, and what comes next is not indented.
PlainRenders == R!Plain(fmt) => RendersAs(R!Rewritten(fmt))

\* No padding gets inside a line that has text, whatever failed before.
PadsBeforeText == has_text => is_line_padded

\* Only a malformed string is refused, or stops the program.
WellFormedSucceeds ==
    ret \in {"format", "panic"} => ~R!WellFormed(start.level, fmt)

\* Every call returns.
CallReturns == ret = "running" ~> ret # "running"
=============================================================================
