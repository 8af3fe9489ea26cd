----------------------------- MODULE Rendering ------------------------------
(***************************************************************************)
(* What a format string of string_formatter_write_fmt means, one rune at a *)
(* time: text is copied, a line is indented by pad_level pads before its   *)
(* first text, "%%" is a percent sign, "%+" and "%-" change the level of   *)
(* the lines that follow, and every other directive stands for a value.    *)
(***************************************************************************)
EXTENDS Integers, Sequences

Newline == "\n"
\* A newline of a text that is copied unread: it begins no line to be padded.
TextNewline == "text newline"
Pad == "pad"
Value == "value"

\* The directives that print an argument, and those that follow an l.
Prints == {"d", "u", "s", "v"}
LongPrints == {"d", "u"}

\* A rendering under way: what is printed, the level, whether the line has
\* its padding, what has been read of a directive, and whether all was well.
Blank(level, padded) ==
    [out |-> <<>>, level |-> level, padded |-> padded,
     read |-> "text", good |-> TRUE]

\* The padding of the line, if it has none.
Padding(st) == IF st.padded THEN <<>> ELSE [n \in 1..st.level |-> Pad]

Emit(st, token) ==
    [st EXCEPT !.out = @ \o Padding(st) \o <<token>>,
               !.padded = token # Newline,
               !.read = "text"]

ReadGood(st, r) ==
    CASE st.read = "text" /\ r = "%" -> [st EXCEPT !.read = "%"]
      [] st.read = "text" /\ r # "%" -> Emit(st, r)
      [] st.read = "%" /\ r = "%" -> Emit(st, "%")
      [] st.read = "%" /\ r = "+" ->
             [st EXCEPT !.level = @ + 1, !.read = "text"]
      [] st.read = "%" /\ r = "-" /\ st.level > 0 ->
             [st EXCEPT !.level = @ - 1, !.read = "text"]
      [] st.read = "%" /\ r \in Prints -> Emit(st, Value)
      [] st.read = "%" /\ r = "l" -> [st EXCEPT !.read = "%l"]
      [] st.read = "%l" /\ r \in LongPrints -> Emit(st, Value)
      [] OTHER -> [st EXCEPT !.good = FALSE]

ReadRune(st, r) == IF st.good THEN ReadGood(st, r) ELSE st

\* The rendering after each number of runes, and after all.
Renderings(level, padded, fmt) ==
    LET st[n \in 0..Len(fmt)] ==
            IF n = 0 THEN Blank(level, padded) ELSE ReadRune(st[n - 1], fmt[n])
    IN st

Rendered(level, padded, fmt) == Renderings(level, padded, fmt)[Len(fmt)]

WellFormed(level, fmt) ==
    LET st == Rendered(level, FALSE, fmt) IN st.good /\ st.read = "text"

-----------------------------------------------------------------------------
(* What the code takes a string for.  A "%%" that comes when no text waits *)
(* to be written shows both its signs, as "%%%%" would; every other rune   *)
(* is taken as it is.  A string with "%l" is not plain.                    *)

\* str is what was read so far, rewritten.
Went(st, to, runes) == [at |-> to, str |-> st.str \o runes]

Rewriting(st, r) ==
    CASE st.at = "not_plain" -> st
      [] st.at = "none" /\ r = "%" -> Went(st, "directive", <<r>>)
      [] st.at = "waiting" /\ r = "%" -> Went(st, "after_text", <<r>>)
      [] st.at \in {"none", "waiting"} /\ r = Newline -> Went(st, "none", <<r>>)
      [] st.at \in {"none", "waiting"} /\ r \notin {"%", Newline} ->
             Went(st, "waiting", <<r>>)
      [] st.at = "directive" /\ r = "%" -> Went(st, "waiting", <<r, r, r>>)
      [] st.at = "after_text" /\ r = "%" -> Went(st, "waiting", <<r>>)
      [] st.at \in {"directive", "after_text"} /\ r = "l" ->
             Went(st, "not_plain", <<r>>)
      [] st.at \in {"directive", "after_text"} /\ r \notin {"%", "l"} ->
             Went(st, "none", <<r>>)

Rewritings(fmt) ==
    LET st[n \in 0..Len(fmt)] ==
            IF n = 0 THEN [at |-> "none", str |-> <<>>]
            ELSE Rewriting(st[n - 1], fmt[n])
    IN st

Rewritten(fmt) == Rewritings(fmt)[Len(fmt)].str
Plain(fmt) == Rewritings(fmt)[Len(fmt)].at # "not_plain"
=============================================================================
