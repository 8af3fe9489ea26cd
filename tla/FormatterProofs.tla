-------------------------- MODULE FormatterProofs ---------------------------
(***************************************************************************)
(* Proofs about Formatter, with the calls of DbgFmt, for every set of      *)
(* format strings, texts and slices, at every pad level, and whether or    *)
(* not the target fails.                                                   *)
(***************************************************************************)
EXTENDS DbgFmt, SequenceTheorems, WellFoundedInduction, TLAPS

-----------------------------------------------------------------------------
(* Tokens.                                                                 *)

\* All of them are strings; the provers know the second set to be only here.
Token == STRING \union {R!Pad, R!Newline, R!Value, "%", "+", "-", "[", "]",
                        ",", " ", "\""}

LEMMA TokenSeq == \A s \in Seq(STRING) : s \in Seq(Token)
<1> SUFFICES ASSUME NEW s \in Seq(STRING) PROVE s \in Seq(Token)
  OBVIOUS
<1>1. Len(s) \in Nat /\ \A n \in 1..Len(s) : s[n] \in Token
  BY LenProperties, ElementOfSeq DEF Token
<1>2. s = [n \in 1..Len(s) |-> s[n]]
  BY SeqDef, LenProperties
<1> HIDE DEF Token
<1> QED
  BY <1>1, <1>2

-----------------------------------------------------------------------------
(* What reaches the target.                                                *)

LEMMA PadsType ==
    ASSUME pad_level \in Nat
    PROVE  /\ Pads \in Seq(Token) /\ Len(Pads) = pad_level
           /\ \A n \in 1..pad_level : Pads[n] = R!Pad
<1>1. R!Pad \in Token
  BY DEF Token
<1> HIDE DEF R!Pad
<1> QED
  BY <1>1 DEF Pads

LEMMA PaddedType ==
    ASSUME pad_level \in Nat, NEW s \in Seq(Token)
    PROVE  /\ Padded(s) \in Seq(Token)
           /\ is_line_padded => Len(Padded(s)) = Len(s)
           /\ ~is_line_padded => Len(Padded(s)) = pad_level + Len(s)
           /\ ~is_line_padded => \A n \in 1..pad_level : Padded(s)[n] = R!Pad
           /\ s # <<>> => Padded(s)[Len(Padded(s))] = s[Len(s)]
<1>1. Len(s) \in Nat /\ (s # <<>> => Len(s) # 0)
  BY LenProperties, EmptySeq
<1>2. CASE is_line_padded
  <2>1. Padded(s) = s
    BY <1>2, ConcatEmptySeq DEF Padded
  <2> QED
    BY <1>2, <2>1
<1>3. CASE ~is_line_padded
  <2>1. Padded(s) = Pads \o s
    BY <1>3 DEF Padded
  <2>2. /\ Pads \o s \in Seq(Token)
        /\ Len(Pads \o s) = Len(Pads) + Len(s)
        /\ \A n \in 1..(Len(Pads) + Len(s)) :
             (Pads \o s)[n] = IF n <= Len(Pads) THEN Pads[n]
               ELSE s[n - Len(Pads)]
    BY PadsType, ConcatProperties
  <2>3. s # <<>> => (Pads \o s)[pad_level + Len(s)] = s[Len(s)]
    BY <1>1, <2>2, PadsType
  <2>4. \A n \in 1..pad_level : (Pads \o s)[n] = R!Pad
    BY <1>1, <2>2, PadsType
  <2> QED
    BY <1>3, <2>1, <2>2, <2>3, <2>4, PadsType
<1> QED
  BY <1>2, <1>3

\* A line that ends has no text yet.
LEMMA NewlineEndsLine ==
    ASSUME NEW s \in Seq(Token), s # <<>>, s[Len(s)] = R!Newline
    PROVE  HasTextAfter(s) = FALSE
<1> DEFINE text == {n \in DOMAIN s : s[n] # R!Pad}
<1>1. DOMAIN s = 1..Len(s) /\ Len(s) \in Nat /\ Len(s) # 0
  BY LenProperties, EmptySeq
<1>2. R!Newline # R!Pad
  BY DEF R!Newline, R!Pad
<1>3. Len(s) \in text /\ \A n \in text : n \in Int /\ n <= Len(s)
  BY <1>1, <1>2
<1>4. text # {}
  BY <1>3
<1> HIDE DEF text
<1>5. Max(text) = Len(s)
  <2>1. \E x \in text : \A y \in text : x >= y
    BY <1>3
  <2>2. Max(text) \in text /\ \A y \in text : Max(text) >= y
    BY <2>1 DEF Max
  <2> QED
    BY <1>1, <1>3, <2>2
<1>6. HasTextAfter(s) = (s[Max(text)] \notin {R!Newline, R!TextNewline})
  BY <1>4 DEF HasTextAfter, text
<1> QED
  BY <1>5, <1>6

\* Padding alone changes nothing.
LEMMA PadsAreNoText ==
    ASSUME NEW s \in Seq(Token), \A n \in 1..Len(s) : s[n] = R!Pad
    PROVE  HasTextAfter(s) = has_text
<1>1. {n \in DOMAIN s : s[n] # R!Pad} = {}
  BY LenProperties
<1> QED
  BY <1>1 DEF HasTextAfter

LEMMA FlagIsBoolean ==
    ASSUME has_text \in BOOLEAN, NEW s
    PROVE  HasTextAfter(s) \in BOOLEAN
BY Zenon DEF HasTextAfter

-----------------------------------------------------------------------------
(* The inductive invariant of the formatter.                               *)

\* Of the line that is being written: no text before its padding.
LineInv == /\ pad_level \in Nat
           /\ is_line_padded \in BOOLEAN
           /\ has_text \in BOOLEAN
           /\ PadsBeforeText

\* Of the format string: the two positions stay in order and inside it.
Reading == /\ fmt \in Seq(Token)
           /\ e_fmt_str \in 0..Len(fmt)
           /\ fmt_str \in 0..e_fmt_str
           /\ at \in {"text", "directive"}
           /\ ret \in {"none", "running", "panic", "OK", "target", "format"}

Started == start \in [level : 0..MaxLevel, padded : BOOLEAN]

FInv == LineInv /\ Reading /\ Started

\* One write to the target that goes well.
LEMMA GiveKeeps ==
    ASSUME LineInv, NEW before, NEW s \in Seq(Token), Give(before, s),
           \/ is_line_padded' = TRUE
           \/ is_line_padded' = FALSE /\ s # <<>> /\ s[Len(s)] = R!Newline
    PROVE  LineInv'
<1>1. pad_level' \in Nat /\ is_line_padded' \in BOOLEAN
  BY DEF LineInv, Give
<1>2. has_text' \in BOOLEAN
  BY FlagIsBoolean DEF LineInv, Give
<1>3. CASE is_line_padded' = TRUE
  BY <1>1, <1>2, <1>3 DEF LineInv, PadsBeforeText
<1>4. CASE is_line_padded' = FALSE /\ s # <<>> /\ s[Len(s)] = R!Newline
  <2>1. /\ Padded(s) \in Seq(Token)
        /\ Padded(s)[Len(Padded(s))] = R!Newline
        /\ Padded(s) # <<>>
    <3>1. /\ Padded(s) \in Seq(Token)
          /\ Padded(s)[Len(Padded(s))] = R!Newline
          /\ Len(Padded(s)) # 0
      BY <1>4, PaddedType, LenProperties, EmptySeq DEF LineInv
    <3> QED
      BY <3>1, EmptySeq
  <2>2. has_text' = FALSE
    BY <2>1, NewlineEndsLine DEF Give
  <2> QED
    BY <1>1, <1>2, <2>2 DEF LineInv, PadsBeforeText
<1> QED
  BY <1>3, <1>4

\* One that fails somewhere: before the text of the line, the line stays as it
\* was; after, it has its padding.
LEMMA FailKeeps ==
    ASSUME LineInv, NEW before, NEW s \in Seq(Token), Fail(before, s)
    PROVE  LineInv' /\ ret' = "target"
<1>1. PICK n \in 0..(Len(Padded(s)) - 1) :
         /\ has_text' = HasTextAfter(SubSeq(Padded(s), 1, n))
         /\ is_line_padded' = (n >= Len(Padded(s)) - Len(s))
  BY DEF Fail
<1>2. pad_level' \in Nat /\ ret' = "target"
  BY DEF LineInv, Fail
<1>3. has_text' \in BOOLEAN
  BY <1>1, FlagIsBoolean DEF LineInv
<1>4. is_line_padded' \in BOOLEAN
  BY <1>1
<1>5. Len(s) \in Nat /\ Padded(s) \in Seq(Token) /\ Len(Padded(s)) \in Nat
  BY PaddedType, LenProperties DEF LineInv
<1>6. CASE n >= Len(Padded(s)) - Len(s)
  BY <1>1, <1>2, <1>3, <1>4, <1>6 DEF LineInv, PadsBeforeText
<1>7. CASE ~(n >= Len(Padded(s)) - Len(s))
  <2>1. ~is_line_padded
    BY <1>5, <1>7, PaddedType DEF LineInv
  <2>2. /\ n < pad_level
        /\ \A k \in 1..pad_level : Padded(s)[k] = R!Pad
    BY <1>5, <1>7, <2>1, PaddedType DEF LineInv
  <2>3. /\ SubSeq(Padded(s), 1, n) \in Seq(Token)
        /\ Len(SubSeq(Padded(s), 1, n)) = n
        /\ \A k \in 1..n : SubSeq(Padded(s), 1, n)[k] = Padded(s)[k]
    BY <1>5
  <2>4. \A k \in 1..n : SubSeq(Padded(s), 1, n)[k] = R!Pad
    BY <1>5, <2>2, <2>3 DEF LineInv
  <2>5. has_text' = has_text
    BY <1>1, <2>3, <2>4, PadsAreNoText
  <2>6. ~has_text
    BY <2>1 DEF LineInv, PadsBeforeText
  <2> QED
    BY <1>2, <1>3, <1>4, <2>5, <2>6 DEF LineInv, PadsBeforeText
<1> QED
  BY <1>6, <1>7

LEMMA QuietKeeps ==
    ASSUME LineInv, Quiet
    PROVE  LineInv'
BY DEF LineInv, Quiet, PadsBeforeText

LEMMA PendingIs ==
    ASSUME Reading, NEW n \in fmt_str..Len(fmt)
    PROVE  /\ Pending(n) \in Seq(Token)
           /\ n > fmt_str => /\ Pending(n) # <<>>
                             /\ Pending(n)[Len(Pending(n))] = fmt[n]
<1>1. /\ Len(fmt) \in Nat /\ fmt_str \in Nat /\ fmt_str + 1 \in Int
      /\ n \in Int
      /\ \A k \in 1..Len(fmt) : fmt[k] \in Token
  BY LenProperties, ElementOfSeq DEF Reading
<1>2. \A k \in (fmt_str + 1)..n : fmt[k] \in Token
  BY <1>1
<1>3. /\ Pending(n) \in Seq(Token)
      /\ Len(Pending(n)) = n - fmt_str
      /\ \A k \in 1..(n - fmt_str) : Pending(n)[k] = fmt[fmt_str + k]
  BY <1>1, <1>2, SubSeqProperties DEF Pending
<1> QED
  BY <1>1, <1>3, EmptySeq

-----------------------------------------------------------------------------
(* The calls.                                                              *)

LEMMA InitFInv == Init => FInv
<1> SUFFICES ASSUME Init PROVE FInv
  OBVIOUS
<1>1. <<>> \in Seq(Token) /\ Len(<<>>) = 0
  BY EmptySeq
<1>2. Started
  BY LevelAssumption DEF Init, Started
<1>3. LineInv
  BY DEF Init, LineInv, PadsBeforeText
<1>4. Reading
  BY <1>1 DEF Init, Reading
<1> QED
  BY <1>2, <1>3, <1>4 DEF FInv

LEMMA BeginKeeps ==
    ASSUME FInv, NEW s \in Seq(Token), Begin(s),
           ret' \in {"running", "panic", "OK", "target"}
    PROVE  Reading' /\ Started'
<1>1. Started'
  <2>1. pad_level \in 0..MaxLevel /\ is_line_padded \in BOOLEAN
    BY LevelAssumption DEF FInv, LineInv, Begin
  <2>2. start' = [level |-> pad_level, padded |-> is_line_padded]
    BY DEF Begin
  <2> QED
    BY <2>1, <2>2 DEF Started
<1>2. Len(s) \in Nat
  BY LenProperties
<1>3. Reading'
  BY <1>2 DEF Begin, Reading
<1> QED
  BY <1>1, <1>3

LEMMA WriteKeeps ==
    ASSUME FInv, NEW s \in Seq(Token),
           Write(s) \/ Writeln(s)
    PROVE  FInv' /\ ret = "none"
<1>1. ret = "none"
  BY DEF Write, Writeln, Begin, Idle
<1>2. CASE Write(s)
  <2>1. LineInv' /\ ret' \in {"OK", "target"}
    <3>1. CASE Give(<<>>, s) /\ is_line_padded' = TRUE /\ ret' = "OK"
      BY <3>1, GiveKeeps DEF FInv
    <3>2. CASE Fail(<<>>, s)
      BY <3>2, FailKeeps DEF FInv
    <3> QED
      BY <1>2, <3>1, <3>2 DEF Write
  <2>2. Reading' /\ Started'
    BY <1>2, <2>1, BeginKeeps DEF Write
  <2> QED
    BY <1>1, <2>1, <2>2 DEF FInv
<1>3. CASE Writeln(s)
  <2> DEFINE line == s \o <<R!Newline>>
  <2>1. /\ line \in Seq(Token) /\ line # <<>>
        /\ line[Len(line)] = R!Newline
    <3>1. R!Newline \in Token
      BY DEF Token
    <3> DEFINE end == <<R!Newline>>
    <3>2. end \in Seq(Token) /\ Len(end) = 1 /\ end[1] = R!Newline
      BY <3>1
    <3> HIDE DEF end
    <3>3. /\ s \o end \in Seq(Token)
          /\ Len(s \o end) = Len(s) + 1
          /\ (s \o end)[Len(s) + 1] = R!Newline
      <4>1. /\ s \o end \in Seq(Token)
            /\ Len(s \o end) = Len(s) + Len(end)
            /\ \A n \in 1..(Len(s) + Len(end)) :
                 (s \o end)[n] = IF n <= Len(s) THEN s[n] ELSE end[n - Len(s)]
        BY <3>2, ConcatProperties
      <4>2. Len(s) \in Nat
        BY LenProperties
      <4>3. Len(s) + 1 \in 1..(Len(s) + Len(end)) /\ (Len(s) + 1) - Len(s) = 1
        BY <3>2, <4>2
      <4> QED
        BY <3>2, <4>1, <4>2, <4>3
    <3>4. Len(s \o end) # 0
      BY <3>3, LenProperties
    <3> QED
      BY <3>3, <3>4, EmptySeq DEF end
  <2>2. /\ Begin(line)
        /\ \/ Give(<<>>, line) /\ is_line_padded' = FALSE /\ ret' = "OK"
           \/ Fail(<<>>, line)
    BY <1>3 DEF Writeln
  <2> HIDE DEF line
  <2>3. LineInv' /\ ret' \in {"OK", "target"}
    <3>1. CASE Give(<<>>, line) /\ is_line_padded' = FALSE /\ ret' = "OK"
      BY <2>1, <3>1, GiveKeeps DEF FInv
    <3>2. CASE Fail(<<>>, line)
      BY <2>1, <3>2, FailKeeps DEF FInv
    <3> QED
      BY <2>2, <3>1, <3>2
  <2>4. Reading' /\ Started'
    BY <2>1, <2>2, <2>3, BeginKeeps
  <2> QED
    BY <1>1, <2>3, <2>4 DEF FInv
<1> QED
  BY <1>2, <1>3

LEMMA WriteFmtKeeps ==
    ASSUME FInv, NEW f \in Seq(Token), Begin(f), ret' = "running",
           UNCHANGED <<pad_level, is_line_padded, has_text>>
    PROVE  FInv'
<1>1. LineInv'
  BY DEF FInv, LineInv, PadsBeforeText
<1> QED
  BY <1>1, BeginKeeps DEF FInv

LEMMA PadKeeps ==
    ASSUME FInv, PadInc \/ PadDec
    PROVE  FInv' /\ ret = "none"
<1>1. <<"%", "+">> \in Seq(Token) /\ <<"%", "-">> \in Seq(Token)
  BY DEF Token
<1>2. ret = "none" /\ ret' \in {"OK", "panic"}
  BY DEF PadInc, PadDec, Begin, Idle
<1>3. Reading' /\ Started'
  <2>1. PICK s \in {<<"%", "+">>, <<"%", "-">>} : Begin(s)
    BY DEF PadInc, PadDec
  <2>2. s \in Seq(Token)
    BY <1>1
  <2> QED
    BY <1>2, <2>1, <2>2, BeginKeeps
<1>4. LineInv'
  <2>1. /\ pad_level \in Nat /\ is_line_padded' = is_line_padded
        /\ has_text' = has_text
    BY DEF FInv, LineInv, PadInc, PadDec
  <2>2. pad_level' \in Nat
    BY <2>1 DEF PadInc, PadDec
  <2> QED
    BY <2>1, <2>2 DEF FInv, LineInv, PadsBeforeText
<1> QED
  BY <1>2, <1>3, <1>4 DEF FInv

-----------------------------------------------------------------------------
(* The loop.                                                               *)

\* One read of the loop: how the positions and the line go on.
LEMMA ReadKeeps ==
    ASSUME FInv, LineInv', fmt' = fmt, start' = start,
           \/ e_fmt_str' = e_fmt_str /\ fmt_str' = fmt_str
           \/ ~AtEnd /\ e_fmt_str' = e_fmt_str + 1
              /\ fmt_str' \in {fmt_str, e_fmt_str + 1},
           at' \in {"text", "directive"},
           ret' \in {"running", "panic", "OK", "target", "format"}
    PROVE  FInv'
<1>1. /\ Len(fmt) \in Nat /\ e_fmt_str \in 0..Len(fmt)
      /\ fmt_str \in 0..e_fmt_str
      /\ fmt \in Seq(Token)
  BY LenProperties DEF FInv, Reading
<1>2. e_fmt_str' \in 0..Len(fmt) /\ fmt_str' \in 0..e_fmt_str'
  BY <1>1 DEF AtEnd
<1>3. Started'
  BY DEF FInv, Started
<1> QED
  BY <1>1, <1>2, <1>3 DEF FInv, Reading

LEMMA TextKeeps ==
    ASSUME FInv, ReadText \/ Percent
    PROVE  FInv' /\ ret = "running" /\ ret' = "running"
<1>1. LineInv' /\ ret = "running" /\ ret' = "running"
  BY QuietKeeps DEF FInv, ReadText, Percent, AtText, AtDirective
<1> QED
  BY <1>1, ReadKeeps DEF ReadText, Percent, FInv, Reading

LEMMA NewlineKeeps ==
    ASSUME FInv, ReadNewline
    PROVE  FInv' /\ ret = "running" /\ ret' \in {"running", "target"}
<1> DEFINE line == Pending(e_fmt_str + 1)
<1>1. /\ ret = "running" /\ ~AtEnd /\ fmt[e_fmt_str + 1] = "\n"
      /\ \/ Give(out, line) /\ is_line_padded' = FALSE /\ ret' = ret
         \/ Fail(out, line)
      /\ e_fmt_str' = e_fmt_str + 1 /\ fmt_str' = e_fmt_str + 1
      /\ fmt' = fmt /\ at' = at /\ start' = start
  BY DEF ReadNewline, AtText, Rune, Advance
<1>2. e_fmt_str + 1 \in fmt_str..Len(fmt) /\ e_fmt_str + 1 > fmt_str
  BY <1>1, LenProperties DEF FInv, Reading, AtEnd
<1>3. line \in Seq(Token) /\ line # <<>> /\ line[Len(line)] = R!Newline
  BY <1>1, <1>2, PendingIs DEF FInv, R!Newline
<1> HIDE DEF line
<1>4. LineInv' /\ ret' \in {"running", "target"}
  <2>1. CASE Give(out, line) /\ is_line_padded' = FALSE /\ ret' = ret
    BY <1>1, <1>3, <2>1, GiveKeeps DEF FInv
  <2>2. CASE Fail(out, line)
    BY <1>3, <2>2, FailKeeps DEF FInv
  <2> QED
    BY <1>1, <2>1, <2>2
<1>5. at \in {"text", "directive"}
  BY DEF FInv, Reading
<1> QED
  BY <1>1, <1>4, <1>5, ReadKeeps

\* What waits to be written is written, or nothing waits.
LEMMA RestKeeps ==
    ASSUME FInv,
           \/ Quiet
           \/ Give(out, Pending(e_fmt_str)) /\ is_line_padded' = TRUE
           \/ Fail(out, Pending(e_fmt_str))
    PROVE  LineInv' /\ (Fail(out, Pending(e_fmt_str)) => ret' = "target")
<1>1. Pending(e_fmt_str) \in Seq(Token)
  <2>1. e_fmt_str \in fmt_str..Len(fmt)
    BY LenProperties DEF FInv, Reading
  <2> QED
    BY <2>1, PendingIs DEF FInv
<1>2. CASE Quiet
  BY <1>2, QuietKeeps DEF FInv, Fail
<1>3. CASE Give(out, Pending(e_fmt_str)) /\ is_line_padded' = TRUE
  BY <1>1, <1>3, GiveKeeps DEF FInv, Fail
<1>4. CASE Fail(out, Pending(e_fmt_str))
  BY <1>1, <1>4, FailKeeps DEF FInv
<1> QED
  BY <1>2, <1>3, <1>4

LEMMA PercentKeeps ==
    ASSUME FInv, ReadPercent
    PROVE  FInv' /\ ret = "running" /\ ret' \in {"running", "target"}
<1>1. /\ ret = "running" /\ ~AtEnd
      /\ e_fmt_str' = e_fmt_str + 1 /\ fmt_str' \in {fmt_str, e_fmt_str + 1}
      /\ fmt' = fmt /\ at' = "directive" /\ start' = start
      /\ \/ Quiet /\ ret' = ret
         \/ /\ Give(out, Pending(e_fmt_str))
            /\ is_line_padded' = TRUE /\ ret' = ret
         \/ Fail(out, Pending(e_fmt_str))
  BY DEF ReadPercent, AtText, Advance
<1>2. LineInv' /\ ret' \in {"running", "target"}
  BY <1>1, RestKeeps
<1> QED
  BY <1>1, <1>2, ReadKeeps

LEMMA FinishKeeps ==
    ASSUME FInv, Finish
    PROVE  FInv' /\ ret = "running" /\ ret' \in {"OK", "target"}
<1>1. /\ ret = "running"
      /\ e_fmt_str' = e_fmt_str /\ fmt_str' = fmt_str
      /\ fmt' = fmt /\ at' = at /\ start' = start
      /\ \/ Quiet /\ ret' = "OK"
         \/ /\ Give(out, Pending(e_fmt_str))
            /\ is_line_padded' = TRUE /\ ret' = "OK"
         \/ Fail(out, Pending(e_fmt_str))
  BY DEF Finish, AtText
<1>2. LineInv' /\ ret' \in {"OK", "target"}
  BY <1>1, RestKeeps
<1>3. at \in {"text", "directive"}
  BY DEF FInv, Reading
<1> QED
  BY <1>1, <1>2, <1>3, ReadKeeps

LEMMA LevelKeeps ==
    ASSUME FInv, Level
    PROVE  FInv' /\ ret = "running" /\ ret' \in {"running", "panic"}
<1>1. /\ ret = "running" /\ ret' \in {"running", "panic"} /\ ~AtEnd
      /\ e_fmt_str' = e_fmt_str + 1 /\ fmt_str' = e_fmt_str + 1
      /\ fmt' = fmt /\ at' = "text" /\ start' = start
      /\ is_line_padded' = is_line_padded /\ has_text' = has_text
  BY DEF Level, AtDirective, Advance
<1>2. pad_level' \in Nat
  BY DEF Level, FInv, LineInv
<1>3. LineInv'
  BY <1>1, <1>2 DEF FInv, LineInv, PadsBeforeText
<1> QED
  BY <1>1, <1>3, ReadKeeps

LEMMA ValueKeeps ==
    ASSUME FInv, ret = "running", PrintValue
    PROVE  LineInv' /\ ret' \in {"running", "target"}
<1> DEFINE value == <<R!Value>>
<1>1. value \in Seq(Token)
  BY DEF Token
<1>2. \/ Give(out, value) /\ is_line_padded' = TRUE /\ ret' = ret
      \/ Fail(out, value)
  BY DEF PrintValue
<1> HIDE DEF value
<1>3. CASE Give(out, value) /\ is_line_padded' = TRUE /\ ret' = ret
  BY <1>1, <1>3, GiveKeeps DEF FInv
<1>4. CASE Fail(out, value)
  BY <1>1, <1>4, FailKeeps DEF FInv
<1> QED
  BY <1>2, <1>3, <1>4

LEMMA DirectiveKeeps ==
    ASSUME FInv, Directive \/ DirectiveLong
    PROVE  FInv' /\ ret = "running" /\ ret' \in {"running", "target", "format"}
<1>1. /\ ret = "running" /\ ~AtEnd
      /\ e_fmt_str' = e_fmt_str + 1 /\ fmt_str' = e_fmt_str + 1
      /\ fmt' = fmt /\ at' = "text" /\ start' = start
      /\ PrintValue \/ (Quiet /\ ret' = "format")
  BY DEF Directive, DirectiveLong, AtDirective, Advance
<1>2. LineInv' /\ ret' \in {"running", "target", "format"}
  <2>1. CASE PrintValue
    BY <1>1, <2>1, ValueKeeps
  <2>2. CASE Quiet /\ ret' = "format"
    BY <2>2, QuietKeeps DEF FInv
  <2> QED
    BY <1>1, <2>1, <2>2
<1> QED
  BY <1>1, <1>2, ReadKeeps

LEMMA StopKeeps ==
    ASSUME FInv, DirectiveUnknown \/ DirectiveMissing
    PROVE  FInv' /\ ret = "running" /\ ret' \in {"format", "panic"}
<1>1. /\ ret = "running" /\ ret' \in {"format", "panic"} /\ Quiet
      /\ e_fmt_str' = e_fmt_str /\ fmt_str' = fmt_str
      /\ fmt' = fmt /\ at' = at /\ start' = start
  BY DEF DirectiveUnknown, DirectiveMissing, AtDirective
<1>2. LineInv' /\ at \in {"text", "directive"}
  BY <1>1, QuietKeeps DEF FInv, Reading
<1> QED
  BY <1>1, <1>2, ReadKeeps

LEMMA StepKeeps ==
    ASSUME FInv, Step
    PROVE  FInv' /\ ret = "running" /\ ret' # "none"
BY TextKeeps, NewlineKeeps, PercentKeeps, LevelKeeps, DirectiveKeeps,
   StopKeeps, FinishKeeps DEF Step

LEMMA ReturnKeeps ==
    ASSUME FInv, Return
    PROVE  FInv'
<1>1. <<>> \in Seq(Token) /\ Len(<<>>) = 0
  BY EmptySeq
<1>2. Started'
  BY LevelAssumption DEF Return, Started
<1>3. LineInv'
  BY DEF FInv, LineInv, Return, PadsBeforeText
<1>4. Reading'
  BY <1>1 DEF Return, Reading
<1> QED
  BY <1>2, <1>3, <1>4 DEF FInv

-----------------------------------------------------------------------------
(* The calls of DbgFmt.                                                    *)

\* The index stays inside the slice: the loop is at an item that has another
\* after it, and it ends at the last one.  Only the empty slice has none, and
\* only there does the loop go on to an item.
Inside ==
    /\ items \in Seq(Token)
    /\ i \in Nat
    /\ piece \in {"none", "open", "item", "comma", "last", "close",
                  "quote", "text", "unquote"}
    /\ piece = "open" => i = 0
    /\ piece \in {"item", "comma"} /\ items # <<>> => i < Len(items) - 1
    /\ piece = "comma" => items # <<>>
    /\ piece = "last" => items # <<>> /\ i = Len(items) - 1

\* A call that has more to write is running, unless the loop stopped it.
Stopping ==
    piece # "none" =>
        ret = "running" \/ (ret = "panic" /\ piece = "item" /\ items = <<>>)

DInv == FInv /\ Inside /\ Stopping

LEMMA TokenIn ==
    /\ "," \in Token /\ " " \in Token
    /\ <<"[">> \in Seq(Token) /\ <<"]">> \in Seq(Token)
    /\ <<",", " ">> \in Seq(Token) /\ <<"\"">> \in Seq(Token)
<1>1. \A s \in {"[", "]", ",", " ", "\""} : s \in Token
  BY DEF Token
<1>2. \A s, t \in Token : <<s>> \in Seq(Token) /\ <<s, t>> \in Seq(Token)
  OBVIOUS
<1> QED
  BY <1>1, <1>2

LEMMA ListedType ==
    ASSUME NEW s \in Seq(Token)
    PROVE  Listed(s) \in Seq(Token)
<1> DEFINE middle == [n \in 1..(3 * Len(s) - 2) |->
                        IF n % 3 = 1 THEN s[n \div 3 + 1]
                        ELSE IF n % 3 = 2 THEN "," ELSE " "]
<1>1. Len(s) \in Nat /\ \A n \in 1..Len(s) : s[n] \in Token
  BY LenProperties, ElementOfSeq
<1>2. middle \in Seq(Token)
  <2>1. ASSUME NEW n \in 1..(3 * Len(s) - 2) PROVE middle[n] \in Token
    <3>1. CASE (n % 3) = 1
      <4>1. (n \div 3) + 1 \in 1..Len(s)
        BY <1>1, <3>1
      <4> QED
        BY <1>1, <3>1, <4>1
    <3>2. CASE (n % 3) # 1
      BY <3>2, TokenIn
    <3> QED
      BY <3>1, <3>2
  <2> DEFINE m == IF Len(s) = 0 THEN 0 ELSE 3 * Len(s) - 2
  <2>2. m \in Nat /\ 1..(3 * Len(s) - 2) = 1..m
    BY <1>1
  <2>3. middle = [n \in 1..m |-> middle[n]]
    BY <2>2
  <2>4. \A n \in 1..m : middle[n] \in Token
    BY <2>1, <2>2
  <2> HIDE DEF m, middle
  <2> QED
    BY <2>2, <2>3, <2>4
<1>3. <<"[">> \in Seq(Token) /\ <<"]">> \in Seq(Token)
  BY TokenIn
<1> HIDE DEF middle
<1>4. <<"[">> \o middle \in Seq(Token)
  BY <1>2, <1>3, ConcatProperties
<1> QED
  BY <1>3, <1>4, ConcatProperties DEF Listed, middle

LEMMA QuotedType ==
    ASSUME NEW s \in Seq(Token)
    PROVE  Quoted(s) \in Seq(Token)
<1>1. <<"\"">> \in Seq(Token)
  BY TokenIn
<1>2. <<"\"">> \o s \in Seq(Token)
  BY <1>1, ConcatProperties
<1> QED
  BY <1>1, <1>2, ConcatProperties DEF Quoted

LEMMA BeginDbgKeeps ==
    ASSUME DInv, NEW s \in Slices, SliceDbgFmt(s) \/ StrDbgFmt(s)
    PROVE  DInv'
<1>1. s \in Seq(Token)
  BY SliceAssumption, TokenSeq
<1>2. PICK text \in Seq(Token), first \in {"open", "quote"} :
         BeginDbg(s, text, first)
  BY <1>1, ListedType, QuotedType DEF SliceDbgFmt, StrDbgFmt
<1>3. FInv'
  BY <1>2, WriteFmtKeeps DEF BeginDbg, DInv
<1>4. Inside' /\ Stopping'
  BY <1>1, <1>2 DEF BeginDbg, Inside, Stopping
<1> QED
  BY <1>3, <1>4 DEF DInv

\* One write of a call: it goes on with the next one, or it is over.
LEMMA WriteThenKeeps ==
    ASSUME DInv, NEW s \in Seq(Token), NEW next,
           NEW result \in {"running", "OK"}, WriteThen(s, next, result)
    PROVE  /\ FInv' /\ items' = items
           /\ \/ piece' = next /\ ret' = result
              \/ piece' = "none" /\ ret' = "target"
<1>1. /\ fmt' = fmt /\ fmt_str' = fmt_str /\ e_fmt_str' = e_fmt_str
      /\ at' = at /\ start' = start /\ items' = items
      /\ \/ /\ Give(out, s) /\ is_line_padded' = TRUE
            /\ piece' = next /\ ret' = result
         \/ Fail(out, s) /\ piece' = "none"
  BY DEF WriteThen
<1>2. /\ LineInv'
      /\ \/ piece' = next /\ ret' = result
         \/ piece' = "none" /\ ret' = "target"
  <2>1. CASE /\ Give(out, s) /\ is_line_padded' = TRUE
             /\ piece' = next /\ ret' = result
    BY <2>1, GiveKeeps DEF DInv, FInv
  <2>2. CASE Fail(out, s) /\ piece' = "none"
    BY <2>2, FailKeeps DEF DInv, FInv
  <2> QED
    BY <1>1, <2>1, <2>2
<1>3. at \in {"text", "directive"} /\ FInv
  BY DEF DInv, FInv, Reading
<1>4. ret' \in {"running", "OK", "target"}
  BY <1>2
<1>5. FInv'
  BY <1>1, <1>2, <1>3, <1>4, ReadKeeps
<1> QED
  BY <1>1, <1>2, <1>5

LEMMA DbgStepKeeps ==
    ASSUME DInv, DbgStep
    PROVE  DInv'
<1>1. /\ ret = "running" /\ items \in Seq(Token) /\ i \in Nat
      /\ Len(items) \in Nat /\ (items # <<>> <=> Len(items) # 0)
      /\ \A n \in 1..Len(items) : items[n] \in Token
  BY LenProperties, EmptySeq, ElementOfSeq DEF DbgStep, DInv, Inside
<1>2. /\ <<"[">> \in Seq(Token) /\ <<"]">> \in Seq(Token)
      /\ <<",", " ">> \in Seq(Token) /\ <<"\"">> \in Seq(Token)
  BY TokenIn
<1>3. \A t \in Token : <<t>> \in Seq(Token)
  OBVIOUS
<1>4. CASE Open
  <2>1. /\ piece = "open" /\ i' = i /\ i = 0
        /\ WriteThen(<<"[">>, PieceAt(i), "running")
    BY <1>4 DEF Open, WriteNext, DInv, Inside
  <2>2. /\ FInv' /\ items' = items
        /\ \/ piece' = PieceAt(i) /\ ret' = "running"
           \/ piece' = "none" /\ ret' = "target"
    BY <1>2, <2>1, WriteThenKeeps
  <2>3. Inside' /\ Stopping'
    BY <1>1, <2>1, <2>2 DEF Inside, Stopping, PieceAt
  <2> QED
    BY <2>2, <2>3 DEF DInv
<1>5. CASE Item
  <2>1. CASE i < Len(items)
    <3>1. /\ piece = "item" /\ i' = i
          /\ WriteThen(<<items[i + 1]>>, "comma", "running")
      BY <1>5, <2>1 DEF Item, IntDbgFmt, WriteNext
    <3>2. items[i + 1] \in Token
      BY <1>1, <2>1
    <3>3. /\ FInv' /\ items' = items
          /\ \/ piece' = "comma" /\ ret' = "running"
             \/ piece' = "none" /\ ret' = "target"
      BY <1>3, <3>1, <3>2, WriteThenKeeps
    <3>4. items # <<>> /\ i < Len(items) - 1
      BY <1>1, <2>1, <3>1 DEF DInv, Inside
    <3>5. Inside' /\ Stopping'
      BY <1>1, <3>1, <3>3, <3>4 DEF Inside, Stopping
    <3> QED
      BY <3>3, <3>5 DEF DInv
  <2>2. CASE ~(i < Len(items))
    <3>1. /\ piece = "item" /\ i' = i /\ piece' = piece /\ items' = items
          /\ ret' = "panic" /\ Quiet /\ fmt' = fmt /\ start' = start
          /\ fmt_str' = fmt_str /\ e_fmt_str' = e_fmt_str /\ at' = at
      BY <1>5, <2>2 DEF Item
    <3>2. items = <<>>
      BY <1>1, <2>2, <3>1 DEF DInv, Inside
    <3>3. LineInv' /\ at \in {"text", "directive"} /\ FInv
      BY <3>1, QuietKeeps DEF DInv, FInv, Reading
    <3>4. FInv'
      BY <3>1, <3>3, ReadKeeps
    <3>5. Inside' /\ Stopping'
      BY <3>1, <3>2 DEF DInv, Inside, Stopping
    <3> QED
      BY <3>4, <3>5 DEF DInv
  <2> QED
    BY <2>1, <2>2
<1>6. CASE Comma
  <2>1. /\ piece = "comma" /\ i' = i + 1
        /\ WriteThen(<<",", " ">>, PieceAt(i + 1), "running")
    BY <1>6 DEF Comma, WriteNext
  <2>2. /\ FInv' /\ items' = items
        /\ \/ piece' = PieceAt(i + 1) /\ ret' = "running"
           \/ piece' = "none" /\ ret' = "target"
    BY <1>2, <2>1, WriteThenKeeps
  <2>3. items # <<>> /\ i < Len(items) - 1
    BY <2>1 DEF DInv, Inside
  <2>4. /\ PieceAt(i + 1) \in {"item", "last"}
        /\ PieceAt(i + 1) = "item" => i + 1 < Len(items) - 1
        /\ PieceAt(i + 1) = "last" => i + 1 = Len(items) - 1
    BY <1>1, <2>3 DEF PieceAt
  <2>5. Inside'
    <3>1. i' \in Nat /\ i' = i + 1 /\ items' = items /\ items \in Seq(Token)
      <4>1. items' = items /\ items \in Seq(Token)
        BY <1>1, <2>2
      <4>2. i' = i + 1
        BY <2>1
      <4>3. i' \in Nat
        BY <1>1, <4>2
      <4> QED
        BY <4>1, <4>2, <4>3
    <3>2. CASE piece' = "none"
      BY <3>1, <3>2 DEF Inside
    <3>3. CASE piece' = PieceAt(i + 1)
      <4>1. CASE piece' = "item"
        BY <2>3, <2>4, <3>1, <3>3, <4>1 DEF Inside
      <4>2. CASE piece' = "last"
        BY <2>3, <2>4, <3>1, <3>3, <4>2 DEF Inside
      <4> QED
        BY <2>4, <3>3, <4>1, <4>2
    <3> QED
      BY <2>2, <3>2, <3>3
  <2>6. Stopping'
    BY <2>2 DEF Stopping
  <2> QED
    BY <2>2, <2>5, <2>6 DEF DInv
<1>7. CASE LastItem
  <2>1. /\ piece = "last" /\ i' = i
        /\ WriteThen(<<items[Len(items)]>>, "close", "running")
    BY <1>7 DEF LastItem, IntDbgFmt, WriteNext, GetLast
  <2>2. items[Len(items)] \in Token
    <3>1. Len(items) \in 1..Len(items)
      BY <1>1, <2>1 DEF DInv, Inside
    <3> QED
      BY <1>1, <3>1
  <2>3. /\ FInv' /\ items' = items
        /\ \/ piece' = "close" /\ ret' = "running"
           \/ piece' = "none" /\ ret' = "target"
    BY <1>3, <2>1, <2>2, WriteThenKeeps
  <2>4. Inside' /\ Stopping'
    BY <1>1, <2>1, <2>3 DEF Inside, Stopping
  <2> QED
    BY <2>3, <2>4 DEF DInv
<1>8. CASE Close \/ Unquote
  <2>1. PICK s \in {<<"]">>, <<"\"">>} : i' = i /\ WriteThen(s, "none", "OK")
    BY <1>8 DEF Close, Unquote, WriteEnd
  <2>2. s \in Seq(Token)
    BY <1>2
  <2>3. FInv' /\ items' = items /\ piece' = "none"
    BY <2>1, <2>2, WriteThenKeeps
  <2>4. Inside' /\ Stopping'
    BY <1>1, <2>1, <2>3 DEF Inside, Stopping
  <2> QED
    BY <2>3, <2>4 DEF DInv
<1>9. CASE Quote \/ Text
  <2>1. PICK s \in {<<"\"">>, items}, next \in {"text", "unquote"} :
           i' = i /\ WriteThen(s, next, "running")
    BY <1>9 DEF Quote, Text, WriteNext
  <2>2. s \in Seq(Token)
    BY <1>1, <1>2
  <2>3. /\ FInv' /\ items' = items
        /\ \/ piece' = next /\ ret' = "running"
           \/ piece' = "none" /\ ret' = "target"
    BY <2>1, <2>2, WriteThenKeeps
  <2>4. Inside' /\ Stopping'
    BY <1>1, <2>1, <2>3 DEF Inside, Stopping
  <2> QED
    BY <2>3, <2>4 DEF DInv
<1> QED
  BY <1>4, <1>5, <1>6, <1>7, <1>8, <1>9 DEF DbgStep

\* The formatter's own calls leave the slice alone, and are not made in the
\* middle of one.
LEMMA FmtKeeps ==
    ASSUME DInv, FmtStep \/ FmtCall
    PROVE  DInv'
<1>1. items' = items /\ piece' = piece /\ i' = i
  BY DEF FmtStep, FmtCall
<1>2. Inside'
  BY <1>1 DEF DInv, Inside
<1>3. CASE FmtStep
  <2>1. FInv' /\ piece' = "none"
    BY <1>1, <1>3, StepKeeps DEF FmtStep, DInv
  <2> QED
    BY <1>2, <2>1 DEF DInv, Stopping
<1>4. CASE FmtCall
  <2>1. FInv' /\ ret = "none"
    <3>1. ASSUME NEW s \in Texts, Write(s) \/ Writeln(s)
          PROVE  FInv' /\ ret = "none"
      <4>1. s \in Seq(Token)
        BY RuneAssumption, TokenSeq
      <4> QED
        BY <3>1, <4>1, WriteKeeps DEF DInv
    <3>2. ASSUME NEW f \in Formats, WriteFmt(f)
          PROVE  FInv' /\ ret = "none"
      <4>1. f \in Seq(Token)
        BY RuneAssumption, TokenSeq
      <4> QED
        BY <3>2, <4>1, WriteFmtKeeps DEF DInv, WriteFmt, Begin, Idle
    <3>3. CASE PadInc \/ PadDec
      BY <3>3, PadKeeps DEF DInv
    <3> QED
      BY <1>4, <3>1, <3>2, <3>3 DEF FmtCall
  <2>2. piece' = "none"
    BY <1>1, <2>1 DEF DInv, Stopping
  <2> QED
    BY <1>2, <2>1, <2>2 DEF DInv, Stopping
<1> QED
  BY <1>3, <1>4

LEMMA DbgReturnKeeps ==
    ASSUME DInv, DbgReturn
    PROVE  DInv'
<1>1. /\ items' = <<>> /\ i' = 0 /\ piece' = piece /\ Return
      /\ ret \in {"OK", "target", "format"}
  BY DEF DbgReturn, Return
<1>2. piece = "none"
  BY <1>1 DEF DInv, Stopping
<1>3. FInv'
  BY <1>1, ReturnKeeps DEF DInv
<1>4. <<>> \in Seq(Token)
  BY EmptySeq
<1> QED
  BY <1>1, <1>2, <1>3, <1>4 DEF DInv, Inside, Stopping

LEMMA InitDbg == DbgInit => DInv
<1> SUFFICES ASSUME DbgInit PROVE DInv
  OBVIOUS
<1>1. <<>> \in Seq(Token)
  BY EmptySeq
<1> QED
  BY <1>1, InitFInv DEF DbgInit, DInv, Inside, Stopping

LEMMA NextDbg == DInv /\ [DbgNext]_dbgVars => DInv'
<1> SUFFICES ASSUME DInv, [DbgNext]_dbgVars PROVE DInv'
  OBVIOUS
<1>1. ASSUME NEW s \in Slices, SliceDbgFmt(s) \/ StrDbgFmt(s) PROVE DInv'
  BY <1>1, BeginDbgKeeps
<1>2. CASE DbgStep
  BY <1>2, DbgStepKeeps
<1>3. CASE FmtStep \/ FmtCall
  BY <1>3, FmtKeeps
<1>4. CASE DbgReturn
  BY <1>4, DbgReturnKeeps
<1>5. CASE UNCHANGED dbgVars
  BY <1>5 DEF dbgVars, vars, DInv, FInv, LineInv, Reading, Started, Inside,
              Stopping, PadsBeforeText
<1> QED
  BY <1>1, <1>2, <1>3, <1>4, <1>5 DEF DbgNext

-----------------------------------------------------------------------------

\* The two positions of write_fmt stay in order and inside its string, and the
\* level never goes below zero, whatever the string says.
THEOREM FormatterTypes == DbgSpec => []TypeOK
<1>1. DInv => TypeOK
  BY DEF DInv, FInv, LineInv, Reading, Started, TypeOK
<1> QED
  BY InitDbg, NextDbg, <1>1, PTL DEF DbgSpec

\* A line that has text has its padding before it, also after a target failed
\* in the middle of either.
THEOREM PadsCorrect == DbgSpec => []PadsBeforeText
<1>1. DInv => PadsBeforeText
  BY DEF DInv, FInv, LineInv
<1> QED
  BY InitDbg, NextDbg, <1>1, PTL DEF DbgSpec

\* slice_dbg_fmt reads an item outside its slice only when there is none.
THEOREM SliceStopsEmpty == DbgSpec => []OnlyEmptySliceStops
<1>1. DInv => OnlyEmptySliceStops
  BY DEF DInv, Stopping, OnlyEmptySliceStops
<1> QED
  BY InitDbg, NextDbg, <1>1, PTL DEF DbgSpec

-----------------------------------------------------------------------------
(* Going through a string, a rune at a time.                               *)

LEMMA LeastElement ==
    ASSUME NEW S, S \subseteq Nat, S # {}
    PROVE  \E x \in S : \A y \in S : x <= y
<1>1. PICK below : /\ IsWellFoundedOn(below, Nat)
                   /\ \A x, y \in Nat : x < y => <<x, y>> \in below
  <2> DEFINE T == OpToRel(<, Nat)
  <2>1. IsWellFoundedOn(T, Nat)
    BY NatLessThanWellFounded
  <2>2. \A x, y \in Nat : x < y => <<x, y>> \in T
    BY DEF OpToRel
  <2> HIDE DEF T
  <2> QED
    BY <2>1, <2>2
<1>2. IsWellFoundedOn(below, Nat)
  BY <1>1
<1>3. PICK x \in S : \A y \in S : ~ (<<y, x>> \in below)
  BY <1>2, WFMin
<1>4. ASSUME NEW y \in S PROVE x <= y
  <2>1. x \in Nat /\ y \in Nat /\ ~(y < x)
    BY <1>1, <1>3
  <2> QED
    BY <2>1
<1> QED
  BY <1>4

\* What holds of 0, and of each number after one it holds of.
LEMMA Upward ==
    ASSUME NEW n \in Nat, NEW S, 0 \in S,
           \A k \in 1..n : k - 1 \in S => k \in S
    PROVE  \A k \in 0..n : k \in S
<1> DEFINE Off == {k \in 0..n : k \notin S}
<1>1. CASE Off = {}
  BY <1>1
<1>2. CASE Off # {}
  <2>1. Off \subseteq Nat
    OBVIOUS
  <2>2. PICK k \in Off : \A l \in Off : k <= l
    BY <1>2, <2>1, LeastElement
  <2>3. k \in 0..n /\ k \notin S
    OBVIOUS
  <2>4. k \in 1..n /\ k - 1 \in 0..n /\ ~(k <= k - 1)
    BY <2>3
  <2>5. k - 1 \in S
    BY <2>2, <2>4
  <2> QED
    BY <2>3, <2>4, <2>5
<1> QED
  BY <1>1, <1>2

\* A function can be built up, a value after the other.
Chained(n, S, base, next) ==
    \E g \in [0..n -> S] :
       g[0] = base /\ \A k \in 1..n : g[k] = next[<<g[k - 1], k>>]

LEMMA Chain ==
    ASSUME NEW n \in Nat, NEW S, NEW base \in S,
           NEW next \in [S \X (1..n) -> S]
    PROVE  Chained(n, S, base, next)
<1> DEFINE Upto(m, g) == /\ g \in [0..m -> S]
                         /\ g[0] = base
                         /\ \A k \in 1..m : g[k] = next[<<g[k - 1], k>>]
           Done == {m \in 0..n : \E g : Upto(m, g)}
<1>1. 0 \in Done
  <2> DEFINE g == [k \in 0..0 |-> base]
  <2>1. g \in [0..0 -> S] /\ g[0] = base
    OBVIOUS
  <2>2. 1..0 = {} /\ 0 \in 0..n
    OBVIOUS
  <2> HIDE DEF g
  <2>3. Upto(0, g)
    BY <2>1, <2>2
  <2> QED
    BY <2>2, <2>3
<1>2. ASSUME NEW m \in 1..n, m - 1 \in Done PROVE m \in Done
  <2>1. PICK g : Upto(m - 1, g)
    BY <1>2
  <2> DEFINE last == next[<<g[m - 1], m>>]
             h == [k \in 0..m |-> IF k = m THEN last ELSE g[k]]
  <2>2. m \in Nat /\ m - 1 \in 0..(m - 1) /\ g[m - 1] \in S
    BY <2>1
  <2>3. last \in S
    BY <2>2
  <2>4. \A k \in 0..(m - 1) : h[k] = g[k] /\ k \in 0..m
    BY <2>2
  <2>5. h[m] = last /\ h[m - 1] = g[m - 1]
    BY <2>2, <2>4
  <2>6. h \in [0..m -> S]
    <3>1. \A k \in 0..m : k # m => k \in 0..(m - 1)
      BY <2>2
    <3>2. \A k \in 0..m : h[k] \in S
      BY <2>1, <2>3, <2>4, <2>5, <3>1
    <3> QED
      BY <3>2
  <2>7. ASSUME NEW k \in 1..m PROVE h[k] = next[<<h[k - 1], k>>]
    <3>1. CASE k = m
      BY <2>5, <3>1
    <3>2. CASE k # m
      <4>1. k \in 1..(m - 1) /\ k \in 0..(m - 1) /\ k - 1 \in 0..(m - 1)
        BY <3>2, <2>2
      <4>2. h[k] = g[k] /\ h[k - 1] = g[k - 1]
        BY <2>4, <4>1
      <4>3. g[k] = next[<<g[k - 1], k>>]
        BY <2>1, <4>1
      <4> HIDE DEF h
      <4> QED
        BY <4>2, <4>3
    <3> QED
      BY <3>1, <3>2
  <2>8. h[0] = base
    BY <2>1, <2>2, <2>4
  <2>9. Upto(m, h)
    <3> HIDE DEF h
    <3> QED
      BY <2>6, <2>7, <2>8
  <2>10. m \in 0..n
    OBVIOUS
  <2> QED
    BY <2>9, <2>10
<1> HIDE DEF Done
<1>3. \A k \in 0..n : k \in Done
  BY <1>1, <1>2, Upward
<1>4. n \in Done
  BY <1>3
<1> QED
  BY <1>4 DEF Done, Chained

-----------------------------------------------------------------------------
(* Renderings.                                                             *)

RenderState == [out : Seq(Token), level : Nat, padded : BOOLEAN,
            read : {"text", "%", "%l"}, good : BOOLEAN]

LEMMA SomeTokens ==
    /\ R!Pad \in Token /\ R!Newline \in Token /\ R!Value \in Token
    /\ "%" \in Token /\ "+" \in Token /\ "-" \in Token
BY DEF Token

LEMMA One == \A t \in Token : <<t>> \in Seq(Token)
OBVIOUS

LEMMA PaddingType ==
    ASSUME NEW st \in RenderState
    PROVE  R!Padding(st) \in Seq(Token)
<1>1. /\ st.level \in Nat /\ <<>> \in Seq(Token)
      /\ [n \in 1..st.level |-> R!Pad] \in Seq(Token)
  <2>1. st.level \in Nat /\ <<>> \in Seq(Token)
    BY EmptySeq DEF RenderState
  <2> HIDE DEF R!Pad
  <2>2. [n \in 1..st.level |-> R!Pad] \in Seq(Token)
    BY <2>1, SomeTokens
  <2> QED
    BY <2>1, <2>2
<1> QED
  BY <1>1 DEF R!Padding

LEMMA EmitIs ==
    ASSUME NEW st \in RenderState, NEW t \in Token
    PROVE  /\ R!Emit(st, t) \in RenderState
           /\ R!Emit(st, t).out = (st.out \o R!Padding(st)) \o <<t>>
           /\ R!Emit(st, t).level = st.level
           /\ R!Emit(st, t).padded = (t # R!Newline)
           /\ R!Emit(st, t).read = "text"
           /\ R!Emit(st, t).good = st.good
<1> DEFINE o == (st.out \o R!Padding(st)) \o <<t>>
           b == t # R!Newline
           e(p, q) == [st EXCEPT !.out = p, !.padded = q, !.read = "text"]
<1>1. o \in Seq(Token)
  <2>1. /\ st.out \in Seq(Token) /\ R!Padding(st) \in Seq(Token)
        /\ <<t>> \in Seq(Token)
    BY PaddingType, One DEF RenderState
  <2> QED
    BY <2>1, ConcatProperties
<1>2. b \in BOOLEAN
  BY Zenon
<1>3. R!Emit(st, t) = e(o, b)
  BY Zenon DEF R!Emit
<1>4. ASSUME NEW p \in Seq(Token), NEW q \in BOOLEAN
      PROVE  /\ e(p, q) \in RenderState
             /\ e(p, q).out = p /\ e(p, q).padded = q
             /\ e(p, q).level = st.level /\ e(p, q).read = "text"
             /\ e(p, q).good = st.good
  BY DEF RenderState
<1>5. /\ e(o, b) \in RenderState
      /\ e(o, b).out = o /\ e(o, b).padded = b
      /\ e(o, b).level = st.level /\ e(o, b).read = "text"
      /\ e(o, b).good = st.good
  <2> HIDE DEF o, b, e
  <2> QED
    BY <1>1, <1>2, <1>4
<1> HIDE DEF e
<1> QED
  BY <1>3, <1>5, Zenon

LEMMA ReadRuneType ==
    ASSUME NEW st \in RenderState, NEW t \in Token
    PROVE  R!ReadRune(st, t) \in RenderState
<1>1. /\ \A u \in Token : R!Emit(st, u) \in RenderState
      /\ "%" \in Token /\ R!Value \in Token
  BY EmitIs, SomeTokens
<1>2. /\ [st EXCEPT !.read = "%"] \in RenderState
      /\ [st EXCEPT !.read = "%l"] \in RenderState
      /\ [st EXCEPT !.good = FALSE] \in RenderState
  BY DEF RenderState
<1>4. /\ [st EXCEPT !.level = @ + 1, !.read = "text"] \in RenderState
      /\ st.level > 0 =>
           [st EXCEPT !.level = @ - 1, !.read = "text"] \in RenderState
  <2>1. st.level \in Nat
    BY DEF RenderState
  <2>2. st.level + 1 \in Nat /\ (st.level > 0 => st.level - 1 \in Nat)
    BY <2>1
  <2>3. \A l \in Nat : [st EXCEPT !.level = l, !.read = "text"] \in RenderState
    BY DEF RenderState
  <2> QED
    BY <2>2, <2>3
<1>3. R!ReadGood(st, t) \in RenderState
  <2> HIDE DEF RenderState
  <2> QED
    BY <1>1, <1>2, <1>4 DEF R!ReadGood
<1> QED
  BY <1>3 DEF R!ReadRune

LEMMA BlankIs ==
    ASSUME NEW level \in Nat, NEW padded \in BOOLEAN
    PROVE  R!Blank(level, padded) \in RenderState
BY EmptySeq DEF R!Blank, RenderState

\* g goes through the first n runes of s.
Reads(g, n, level, padded, s) ==
    /\ g[0] = R!Blank(level, padded)
    /\ \A k \in 1..n : g[k] = R!ReadRune(g[k - 1], s[k])

LEMMA ReadsAgree ==
    ASSUME NEW n \in Nat, NEW level, NEW padded, NEW s, NEW t, NEW g, NEW h,
           Reads(g, n, level, padded, s), Reads(h, n, level, padded, t),
           \A k \in 1..n : s[k] = t[k]
    PROVE  \A k \in 0..n : g[k] = h[k]
<1> DEFINE Same == {k \in 0..n : g[k] = h[k]}
<1>1. 0 \in Same
  BY DEF Reads
<1>2. ASSUME NEW k \in 1..n, k - 1 \in Same PROVE k \in Same
  <2>1. g[k] = R!ReadRune(g[k - 1], s[k]) /\ h[k] = R!ReadRune(h[k - 1], t[k])
    BY DEF Reads
  <2> QED
    BY <1>2, <2>1
<1> HIDE DEF Same
<1>3. \A k \in 0..n : k \in Same
  BY <1>1, <1>2, Upward
<1> QED
  BY <1>3 DEF Same

LEMMA RenderingsAre ==
    ASSUME NEW level \in Nat, NEW padded \in BOOLEAN, NEW s \in Seq(Token)
    PROVE  /\ R!Renderings(level, padded, s) \in [0..Len(s) -> RenderState]
           /\ Reads(R!Renderings(level, padded, s), Len(s), level, padded, s)
<1> DEFINE Step0(g) == [n \in 0..Len(s) |->
                          IF n = 0 THEN R!Blank(level, padded)
                          ELSE R!ReadRune(g[n - 1], s[n])]
           st == CHOOSE g : g = Step0(g)
<1>1. Len(s) \in Nat /\ \A k \in 1..Len(s) : s[k] \in Token
  BY LenProperties, ElementOfSeq
<1> DEFINE next == [p \in RenderState \X (1..Len(s)) |->
                      R!ReadRune(p[1], s[p[2]])]
<1>2. next \in [RenderState \X (1..Len(s)) -> RenderState]
  BY <1>1, ReadRuneType
<1>3. R!Blank(level, padded) \in RenderState
  BY BlankIs
<1>4. PICK g \in [0..Len(s) -> RenderState] :
         /\ g[0] = R!Blank(level, padded)
         /\ \A k \in 1..Len(s) : g[k] = next[<<g[k - 1], k>>]
  <2> DEFINE base == R!Blank(level, padded)
  <2>1. base \in RenderState /\ Len(s) \in Nat
    BY <1>1, <1>3
  <2> HIDE DEF next, base
  <2>2. Chained(Len(s), RenderState, base, next)
    BY <1>2, <2>1, Chain
  <2> QED
    BY <2>2 DEF base, Chained
<1>5. ASSUME NEW k \in 1..Len(s) PROVE g[k] = R!ReadRune(g[k - 1], s[k])
  <2>1. k - 1 \in 0..Len(s)
    BY <1>1
  <2>2. g[k - 1] \in RenderState
    BY <1>4, <2>1
  <2>3. <<g[k - 1], k>> \in RenderState \X (1..Len(s))
    BY <2>2
  <2>4. next[<<g[k - 1], k>>] = R!ReadRune(g[k - 1], s[k])
    BY <2>3
  <2>5. g[k] = next[<<g[k - 1], k>>]
    BY <1>4
  <2> QED
    BY <2>4, <2>5
<1>6. g = Step0(g)
  <2>1. g = [n \in 0..Len(s) |-> g[n]]
    BY <1>4
  <2>2. \A n \in 0..Len(s) : g[n] = IF n = 0 THEN R!Blank(level, padded)
                                    ELSE R!ReadRune(g[n - 1], s[n])
    BY <1>1, <1>4, <1>5
  <2> QED
    BY <2>1, <2>2
<1>7. st = Step0(st)
  BY <1>6
<1>8. R!Renderings(level, padded, s) = st
  BY DEF R!Renderings
<1> HIDE DEF st, next
<1>9. Reads(st, Len(s), level, padded, s)
  <2>1. st[0] = R!Blank(level, padded)
    BY <1>1, <1>7
  <2>2. ASSUME NEW k \in 1..Len(s) PROVE st[k] = R!ReadRune(st[k - 1], s[k])
    <3>1. k \in 0..Len(s) /\ k # 0
      BY <1>1
    <3> QED
      BY <1>7, <3>1
  <2> QED
    BY <2>1, <2>2 DEF Reads
<1>10. Reads(g, Len(s), level, padded, s)
  BY <1>4, <1>5 DEF Reads
<1>11. \A k \in 0..Len(s) : st[k] = g[k]
  BY <1>1, <1>9, <1>10, ReadsAgree
<1>12. st \in [0..Len(s) -> RenderState]
  <2>1. st = [n \in 0..Len(s) |-> st[n]]
    BY <1>7
  <2>2. \A n \in 0..Len(s) : st[n] \in RenderState
    BY <1>4, <1>11
  <2> QED
    BY <2>1, <2>2
<1> QED
  BY <1>8, <1>9, <1>12

LEMMA RenderedNone ==
    ASSUME NEW level \in Nat, NEW padded \in BOOLEAN
    PROVE  R!Rendered(level, padded, <<>>) = R!Blank(level, padded)
<1>1. <<>> \in Seq(Token) /\ Len(<<>>) = 0
  BY EmptySeq
<1>2. Reads(R!Renderings(level, padded, <<>>), 0, level, padded, <<>>)
  BY <1>1, RenderingsAre
<1> QED
  BY <1>1, <1>2 DEF Reads, R!Rendered

LEMMA RenderedMore ==
    ASSUME NEW level \in Nat, NEW padded \in BOOLEAN,
           NEW s \in Seq(Token), NEW t \in Token
    PROVE  /\ s \o <<t>> \in Seq(Token)
           /\ R!Rendered(level, padded, s) \in RenderState
           /\ R!Rendered(level, padded, s \o <<t>>) =
                R!ReadRune(R!Rendered(level, padded, s), t)
<1>1. <<t>> \in Seq(Token) /\ Len(<<t>>) = 1 /\ <<t>>[1] = t
  OBVIOUS
<1> DEFINE u == s \o <<t>>
           n == Len(s)
<1>2. /\ u \in Seq(Token) /\ Len(u) = n + 1 /\ n \in Nat
      /\ \A k \in 1..n : u[k] = s[k]
      /\ u[n + 1] = t
  <2>1. n \in Nat
    BY LenProperties
  <2>2. /\ u \in Seq(Token) /\ Len(u) = n + 1
        /\ \A k \in 1..(n + 1) : u[k] = IF k <= n THEN s[k] ELSE <<t>>[k - n]
    BY <1>1, ConcatProperties
  <2>3. n + 1 \in 1..(n + 1) /\ \A k \in 1..n : k \in 1..(n + 1) /\ k <= n
    BY <2>1
  <2> HIDE DEF u
  <2>4. u[n + 1] = <<t>>[1]
    BY <2>1, <2>2, <2>3
  <2> QED
    BY <1>1, <2>1, <2>2, <2>3, <2>4
<1> HIDE DEF u
<1> DEFINE g == R!Renderings(level, padded, s)
           h == R!Renderings(level, padded, u)
<1>3. g \in [0..n -> RenderState] /\ Reads(g, n, level, padded, s)
  BY RenderingsAre
<1>4. Reads(h, n + 1, level, padded, u)
  BY <1>2, RenderingsAre
<1>5. Reads(h, n, level, padded, u)
  <2>1. \A k \in 1..n : k \in 1..(n + 1)
    BY <1>2
  <2> QED
    BY <1>4, <2>1 DEF Reads
<1>6. \A k \in 0..n : g[k] = h[k]
  BY <1>2, <1>3, <1>5, ReadsAgree
<1>7. g[n] = h[n] /\ g[n] \in RenderState
  BY <1>2, <1>3, <1>6
<1>8. h[n + 1] = R!ReadRune(h[n], t)
  <2>1. n + 1 \in 1..(n + 1) /\ (n + 1) - 1 = n
    BY <1>2
  <2>2. h[n + 1] = R!ReadRune(h[(n + 1) - 1], u[n + 1])
    BY <1>4, <2>1 DEF Reads
  <2> QED
    BY <1>2, <2>1, <2>2
<1>9. /\ R!Rendered(level, padded, s) = g[n]
      /\ R!Rendered(level, padded, u) = h[n + 1]
  BY <1>2 DEF R!Rendered
<1> HIDE DEF g, h
<1>10. /\ u \in Seq(Token)
       /\ R!Rendered(level, padded, s) \in RenderState
       /\ R!Rendered(level, padded, u) =
                R!ReadRune(R!Rendered(level, padded, s), t)
  BY <1>2, <1>7, <1>8, <1>9
<1> QED
  BY <1>10 DEF u

-----------------------------------------------------------------------------
(* What is read of a rune.                                                 *)

LEMMA ReadIs ==
    ASSUME NEW st \in RenderState, st.good, NEW r \in Token
    PROVE  /\ st.read = "text" /\ r # "%" => R!ReadRune(st, r) = R!Emit(st, r)
           /\ st.read = "text" /\ r = "%" =>
                R!ReadRune(st, r) = [st EXCEPT !.read = "%"]
           /\ st.read = "%" /\ r = "%" => R!ReadRune(st, r) = R!Emit(st, "%")
           /\ st.read = "%" /\ r = "+" =>
                R!ReadRune(st, r) =
                  [st EXCEPT !.level = @ + 1, !.read = "text"]
           /\ st.read = "%" /\ r = "-" /\ st.level > 0 =>
                R!ReadRune(st, r) =
                  [st EXCEPT !.level = @ - 1, !.read = "text"]
           /\ st.read = "%" /\ r = "-" /\ ~(st.level > 0) =>
                R!ReadRune(st, r) = [st EXCEPT !.good = FALSE]
           /\ st.read = "%" /\ r \in {"s", "v", "d", "u"} =>
                R!ReadRune(st, r) = R!Emit(st, R!Value)
           /\ st.read = "%"
              /\ r \notin {"%", "+", "-", "s", "v", "d", "u", "l"} =>
                R!ReadRune(st, r) = [st EXCEPT !.good = FALSE]
<1>1. R!ReadRune(st, r) = R!ReadGood(st, r)
  BY DEF R!ReadRune
<1> QED
  BY <1>1 DEF R!ReadGood, R!Prints

LEMMA BadIsLeft ==
    ASSUME NEW st, ~st.good, NEW r
    PROVE  R!ReadRune(st, r) = st
BY DEF R!ReadRune

\* A string that went wrong does not get right.
LEMMA BadStays ==
    ASSUME NEW level \in Nat, NEW padded \in BOOLEAN, NEW s \in Seq(Token),
           NEW n \in 0..Len(s),
           ~R!Renderings(level, padded, s)[n].good
    PROVE  ~R!Rendered(level, padded, s).good
<1> DEFINE g == R!Renderings(level, padded, s)
           Bad == {k \in 0..Len(s) : k >= n => ~g[k].good}
<1>1. Len(s) \in Nat
  BY LenProperties
<1>2. 0 \in Bad
  BY <1>1
<1>3. ASSUME NEW k \in 1..Len(s), k - 1 \in Bad PROVE k \in Bad
  <2>1. g[k] = R!ReadRune(g[k - 1], s[k])
    BY RenderingsAre DEF Reads
  <2>2. CASE k - 1 >= n
    <3>1. ~g[k - 1].good
      BY <1>3, <2>2
    <3>2. g[k] = g[k - 1]
      BY <2>1, <3>1, BadIsLeft
    <3> QED
      BY <1>1, <3>1, <3>2
  <2>3. CASE ~(k - 1 >= n)
    <3>1. k = n \/ ~(k >= n)
      BY <1>1, <2>3
    <3> QED
      BY <1>1, <3>1
  <2> QED
    BY <2>2, <2>3
<1> HIDE DEF Bad
<1>4. \A k \in 0..Len(s) : k \in Bad
  BY <1>1, <1>2, <1>3, Upward
<1>5. Len(s) \in Bad /\ Len(s) >= n
  BY <1>1, <1>4
<1> QED
  BY <1>5 DEF Bad, R!Rendered

-----------------------------------------------------------------------------
(* Rewritten strings.                                                      *)

RewriteState == [at : {"none", "waiting", "directive", "after_text",
                       "not_plain"},
                 str : Seq(Token)]

LEMMA RewritingIs ==
    ASSUME NEW st \in RewriteState, NEW r \in Token
    PROVE  /\ R!Rewriting(st, r) \in RewriteState
           /\ st.at = "not_plain" => R!Rewriting(st, r) = st
           /\ st.at # "not_plain" =>
                R!Rewriting(st, r).str =
                  IF st.at = "directive" /\ r = "%" THEN st.str \o <<r, r, r>>
                  ELSE st.str \o <<r>>
           /\ st.at = "none" /\ r = "%" =>
                R!Rewriting(st, r).at = "directive"
           /\ st.at = "waiting" /\ r = "%" =>
                R!Rewriting(st, r).at = "after_text"
           /\ st.at \in {"none", "waiting"} /\ r = R!Newline =>
                R!Rewriting(st, r).at = "none"
           /\ st.at \in {"none", "waiting"} /\ r \notin {"%", R!Newline} =>
                R!Rewriting(st, r).at = "waiting"
           /\ st.at \in {"directive", "after_text"} =>
                R!Rewriting(st, r).at =
                  IF r = "%" THEN "waiting" ELSE IF r = "l" THEN "not_plain"
                  ELSE "none"
<1>1. /\ st.str \in Seq(Token) /\ <<r>> \in Seq(Token)
      /\ <<r, r, r>> \in Seq(Token)
  <2>1. <<r>> \in Seq(Token) /\ <<r, r, r>> \in Seq(Token)
    OBVIOUS
  <2> QED
    BY <2>1 DEF RewriteState
<1>2. st.str \o <<r>> \in Seq(Token) /\ st.str \o <<r, r, r>> \in Seq(Token)
  BY <1>1, ConcatProperties
<1>3. R!Newline # "%"
  BY DEF R!Newline
<1> DEFINE one == st.str \o <<r>>
           three == st.str \o <<r, r, r>>
<1>4. ASSUME NEW to PROVE /\ R!Went(st, to, <<r>>) = [at |-> to, str |-> one]
                          /\ R!Went(st, to, <<r, r, r>>) =
                               [at |-> to, str |-> three]
  BY DEF R!Went
<1>5. st.at \in {"none", "waiting", "directive", "after_text",
                       "not_plain"}
  BY DEF RewriteState
<1> HIDE DEF one, three, R!Newline
<1>6. one \in Seq(Token) /\ three \in Seq(Token)
  BY <1>2 DEF one, three
<1>7. CASE st.at = "not_plain"
  <2>1. R!Rewriting(st, r) = st
    BY <1>7 DEF R!Rewriting
  <2> QED
    BY <1>7, <2>1
<1>8. CASE st.at = "none"
  <2>1. R!Rewriting(st, r) = [at |-> IF r = "%" THEN "directive"
                                     ELSE IF r = R!Newline THEN "none"
                                     ELSE "waiting",
                              str |-> one]
    BY <1>3, <1>4, <1>8 DEF R!Rewriting
  <2> QED
    BY <1>3, <1>6, <1>8, <2>1 DEF RewriteState, one
<1>9. CASE st.at = "waiting"
  <2>1. R!Rewriting(st, r) = [at |-> IF r = "%" THEN "after_text"
                                     ELSE IF r = R!Newline THEN "none"
                                     ELSE "waiting",
                              str |-> one]
    BY <1>3, <1>4, <1>9 DEF R!Rewriting
  <2> QED
    BY <1>3, <1>6, <1>9, <2>1 DEF RewriteState, one
<1>10. CASE st.at = "directive"
  <2>1. R!Rewriting(st, r) = [at |-> IF r = "%" THEN "waiting"
                                     ELSE IF r = "l" THEN "not_plain"
                                     ELSE "none",
                              str |-> IF r = "%" THEN three ELSE one]
    BY <1>3, <1>4, <1>10 DEF R!Rewriting
  <2> QED
    BY <1>3, <1>6, <1>10, <2>1 DEF RewriteState, one, three
<1>11. CASE st.at = "after_text"
  <2>1. R!Rewriting(st, r) = [at |-> IF r = "%" THEN "waiting"
                                     ELSE IF r = "l" THEN "not_plain"
                                     ELSE "none",
                              str |-> one]
    BY <1>3, <1>4, <1>11 DEF R!Rewriting
  <2> QED
    BY <1>3, <1>6, <1>11, <2>1 DEF RewriteState, one
<1> QED
  BY <1>5, <1>7, <1>8, <1>9, <1>10, <1>11

LEMMA RewritingsAre ==
    ASSUME NEW s \in Seq(Token)
    PROVE  /\ R!Rewritings(s)[0] = [at |-> "none", str |-> <<>>]
           /\ \A k \in 0..Len(s) : R!Rewritings(s)[k] \in RewriteState
           /\ \A k \in 1..Len(s) :
                R!Rewritings(s)[k] = R!Rewriting(R!Rewritings(s)[k - 1], s[k])
<1> DEFINE base == [at |-> "none", str |-> <<>>]
           Step0(g) == [n \in 0..Len(s) |->
                          IF n = 0 THEN base ELSE R!Rewriting(g[n - 1], s[n])]
           st == CHOOSE g : g = Step0(g)
<1>1. Len(s) \in Nat /\ \A k \in 1..Len(s) : s[k] \in Token
  BY LenProperties, ElementOfSeq
<1> DEFINE next == [p \in RewriteState \X (1..Len(s)) |->
                      R!Rewriting(p[1], s[p[2]])]
<1>2. next \in [RewriteState \X (1..Len(s)) -> RewriteState]
  BY <1>1, RewritingIs
<1>3. base \in RewriteState
  BY EmptySeq DEF RewriteState
<1>4. PICK g \in [0..Len(s) -> RewriteState] :
         g[0] = base /\ \A k \in 1..Len(s) : g[k] = next[<<g[k - 1], k>>]
  <2> HIDE DEF next, base
  <2>1. Chained(Len(s), RewriteState, base, next)
    BY <1>1, <1>2, <1>3, Chain
  <2> QED
    BY <2>1 DEF Chained
<1> HIDE DEF base
<1>5. ASSUME NEW k \in 1..Len(s) PROVE g[k] = R!Rewriting(g[k - 1], s[k])
  <2>1. k - 1 \in 0..Len(s)
    BY <1>1
  <2>2. g[k - 1] \in RewriteState
    BY <1>4, <2>1
  <2>3. <<g[k - 1], k>> \in RewriteState \X (1..Len(s))
    BY <2>2
  <2>4. next[<<g[k - 1], k>>] = R!Rewriting(g[k - 1], s[k])
    BY <2>3
  <2>5. g[k] = next[<<g[k - 1], k>>]
    BY <1>4
  <2> QED
    BY <2>4, <2>5
<1>6. g = Step0(g)
  <2>1. g = [n \in 0..Len(s) |-> g[n]]
    BY <1>4
  <2>2. \A n \in 0..Len(s) : g[n] = IF n = 0 THEN base
                                    ELSE R!Rewriting(g[n - 1], s[n])
    BY <1>1, <1>4, <1>5
  <2> QED
    BY <2>1, <2>2
<1>7. st = Step0(st)
  BY <1>6
<1>8. R!Rewritings(s) = st
  BY DEF R!Rewritings, base
<1> HIDE DEF st, next
<1>9. st[0] = base
  BY <1>1, <1>7
<1>10. ASSUME NEW k \in 1..Len(s) PROVE st[k] = R!Rewriting(st[k - 1], s[k])
  <2>1. k \in 0..Len(s) /\ k # 0
    BY <1>1
  <2> QED
    BY <1>7, <2>1
<1> DEFINE In == {k \in 0..Len(s) : st[k] \in RewriteState}
<1>11. 0 \in In
  BY <1>1, <1>3, <1>9
<1>12. ASSUME NEW k \in 1..Len(s), k - 1 \in In PROVE k \in In
  <2>1. st[k - 1] \in RewriteState /\ s[k] \in Token /\ k \in 0..Len(s)
    BY <1>1, <1>12
  <2>2. st[k] \in RewriteState
    <3>1. R!Rewriting(st[k - 1], s[k]) \in RewriteState
      BY <2>1, RewritingIs
    <3> QED
      BY <1>10, <3>1
  <2> QED
    BY <2>1, <2>2
<1> HIDE DEF In
<1>13. \A k \in 0..Len(s) : k \in In
  BY <1>1, <1>11, <1>12, Upward
<1>14. \A k \in 0..Len(s) : st[k] \in RewriteState
  BY <1>13 DEF In
<1> QED
  BY <1>8, <1>9, <1>10, <1>14 DEF base

\* A string is plain only if each beginning of it is.
LEMMA PlainThroughout ==
    ASSUME NEW s \in Seq(Token), R!Plain(s), NEW n \in 0..Len(s)
    PROVE  R!Rewritings(s)[n].at # "not_plain"
<1> SUFFICES ASSUME R!Rewritings(s)[n].at = "not_plain" PROVE FALSE
  OBVIOUS
<1> DEFINE g == R!Rewritings(s)
           Off == {k \in 0..Len(s) : k >= n => g[k].at = "not_plain"}
<1>1. Len(s) \in Nat /\ \A k \in 1..Len(s) : s[k] \in Token
  BY LenProperties, ElementOfSeq
<1>2. 0 \in Off
  BY <1>1
<1>3. ASSUME NEW k \in 1..Len(s), k - 1 \in Off PROVE k \in Off
  <2>1. g[k] = R!Rewriting(g[k - 1], s[k])
    BY RewritingsAre
  <2>2. CASE k - 1 >= n
    <3>1. g[k - 1].at = "not_plain" /\ g[k - 1] \in RewriteState
      BY <1>1, <1>3, <2>2, RewritingsAre
    <3>2. g[k] = g[k - 1]
      BY <1>1, <2>1, <3>1, RewritingIs
    <3> QED
      BY <1>1, <3>1, <3>2
  <2>3. CASE ~(k - 1 >= n)
    <3>1. k = n \/ ~(k >= n)
      BY <1>1, <2>3
    <3> QED
      BY <1>1, <3>1
  <2> QED
    BY <2>2, <2>3
<1> HIDE DEF Off
<1>4. \A k \in 0..Len(s) : k \in Off
  BY <1>1, <1>2, <1>3, Upward
<1>5. Len(s) \in Off /\ Len(s) >= n
  BY <1>1, <1>4
<1> QED
  BY <1>5 DEF Off, R!Plain

-----------------------------------------------------------------------------
(* Beginnings.                                                             *)

LEMMA PrefixIs ==
    ASSUME NEW s \in Seq(Token), NEW t \in Seq(Token)
    PROVE  /\ IsPrefix(s, s \o t) /\ IsPrefix(s, s) /\ IsPrefix(<<>>, s)
           /\ \A n \in 0..Len(s) : IsPrefix(SubSeq(s, 1, n), s)
<1>1. /\ Len(s) \in Nat /\ Len(t) \in Nat /\ SubSeq(s, 1, Len(s)) = s
      /\ \A n \in 1..Len(s) : s[n] \in Token
  BY LenProperties, SubSeqFull, ElementOfSeq
<1>2. IsPrefix(s, s)
  BY <1>1 DEF IsPrefix
<1>3. IsPrefix(s, s \o t)
  <2>1. s \o t \in Seq(Token) /\ Len(s \o t) = Len(s) + Len(t)
    BY ConcatProperties
  <2>2. SubSeq(s \o t, 1, Len(s)) = SubSeq(s, 1, Len(s))
    <3>1. CASE Len(s) = 0
      BY <3>1, SubSeqEmpty
    <3>2. CASE Len(s) # 0
      <4>1. 1 \in 1..Len(s) /\ Len(s) \in 1..Len(s)
        BY <1>1, <3>2
      <4> QED
        BY <4>1, SubSeqOfConcat1
    <3> QED
      BY <3>1, <3>2
  <2> QED
    BY <1>1, <2>1, <2>2 DEF IsPrefix
<1>4. IsPrefix(<<>>, s)
  <2>1. Len(<<>>) = 0 /\ SubSeq(<<>>, 1, 0) = <<>> /\ SubSeq(s, 1, 0) = <<>>
    BY SubSeqEmpty
  <2> QED
    BY <1>1, <2>1 DEF IsPrefix
<1>5. ASSUME NEW n \in 0..Len(s) PROVE IsPrefix(SubSeq(s, 1, n), s)
  <2> DEFINE b == SubSeq(s, 1, n)
  <2>1. \A k \in 1..n : s[k] \in Token
    BY <1>1
  <2>2. b \in Seq(Token) /\ Len(b) = n
    BY <1>1, <2>1, SubSeqProperties
  <2>3. SubSeq(b, 1, n) = b
    BY <2>2, SubSeqFull
  <2> HIDE DEF b
  <2>4. Len(b) <= Len(s) /\ SubSeq(b, 1, Len(b)) = SubSeq(s, 1, Len(b))
    BY <1>1, <2>2, <2>3 DEF b
  <2>5. IsPrefix(b, s)
    BY <2>4 DEF IsPrefix
  <2> QED
    BY <2>5 DEF b
<1> QED
  BY <1>2, <1>3, <1>4, <1>5

LEMMA PrefixTrans ==
    ASSUME NEW s \in Seq(Token), NEW t \in Seq(Token), NEW u \in Seq(Token),
           IsPrefix(s, t), IsPrefix(t, u)
    PROVE  IsPrefix(s, u)
<1>1. /\ Len(s) \in Nat /\ Len(t) \in Nat /\ Len(u) \in Nat
      /\ Len(s) <= Len(t) /\ Len(t) <= Len(u)
  BY LenProperties DEF IsPrefix
<1>2. SubSeq(s, 1, Len(s)) = s /\ SubSeq(t, 1, Len(t)) = t
  BY SubSeqFull
<1>3. s = SubSeq(t, 1, Len(s)) /\ t = SubSeq(u, 1, Len(t))
  BY <1>2 DEF IsPrefix
<1>4. SubSeq(SubSeq(u, 1, Len(t)), 1, Len(s)) = SubSeq(u, 1, Len(s))
  <2>1. CASE Len(s) = 0
    BY <2>1, SubSeqEmpty
  <2>2. CASE Len(s) # 0
    <3>1. /\ 1 \in 1..Len(u) /\ Len(t) \in 1..Len(u)
          /\ 1 \in 1..(Len(t) - 1 + 1) /\ Len(s) \in 1..(Len(t) - 1 + 1)
      BY <1>1, <2>2
    <3>2. SubSeq(SubSeq(u, 1, Len(t)), 1, Len(s)) =
            SubSeq(u, 1 + 1 - 1, 1 + Len(s) - 1)
      BY <3>1, SubSeqOfSubSeq
    <3>3. 1 + 1 - 1 = 1 /\ 1 + Len(s) - 1 = Len(s)
      BY <1>1
    <3> QED
      BY <3>2, <3>3
  <2> QED
    BY <2>1, <2>2
<1>5. s = SubSeq(u, 1, Len(s))
  BY <1>3, <1>4
<1> QED
  BY <1>1, <1>2, <1>5 DEF IsPrefix

\* One rune of a sequence, and two.
LEMMA OneRune ==
    ASSUME NEW s \in Seq(Token), NEW k \in 1..Len(s)
    PROVE  s[k] \in Token /\ SubSeq(s, k, k) = <<s[k]>>
<1>1. Len(s) \in Nat /\ s[k] \in Token /\ <<s[k]>> \in Seq(Token)
  <2>1. s[k] \in Token
    BY ElementOfSeq
  <2> QED
    BY <2>1, LenProperties, One
<1>2. k \in Int /\ k - 1 \in Int /\ k > k - 1 /\ k \in k..Len(s)
  BY <1>1
<1> DEFINE one == <<s[k]>>
<1>3. SubSeq(s, k, k) = SubSeq(s, k, k - 1) \o one
  BY <1>2, SubSeqRecursiveSecond
<1>4. SubSeq(s, k, k - 1) = <<>>
  BY <1>2, SubSeqEmpty
<1>5. one \in Seq(Token)
  BY <1>1
<1> HIDE DEF one
<1>6. <<>> \o one = one
  BY <1>5, ConcatEmptySeq
<1> QED
  BY <1>1, <1>3, <1>4, <1>6 DEF one

LEMMA TwoRunes ==
    ASSUME NEW s \in Seq(Token), NEW k \in 1..(Len(s) - 1)
    PROVE  SubSeq(s, k, k + 1) = <<s[k], s[k + 1]>>
<1> DEFINE u == SubSeq(s, k, k + 1)
           x == s[k]
           y == s[k + 1]
           two == <<x, y>>
<1>1. /\ Len(s) \in Nat /\ k \in Int /\ k + 1 \in Int
      /\ \A n \in k..(k + 1) : n \in 1..Len(s) /\ s[n] \in Token
  BY LenProperties, ElementOfSeq
<1>2. x \in Token /\ y \in Token
  BY <1>1
<1>3. u \in Seq(Token) /\ Len(u) = 2 /\ u[1] = x /\ u[2] = y
  <2> DEFINE l == k + 1
  <2>1. k \in Int /\ l \in Int /\ \A n \in k..l : s[n] \in Token
    BY <1>1
  <2>2. l - k + 1 = 2 /\ k <= l /\ k + 1 - 1 = k /\ k + 2 - 1 = l
    BY <1>1
  <2> HIDE DEF l
  <2>3. /\ SubSeq(s, k, l) \in Seq(Token)
        /\ Len(SubSeq(s, k, l)) = IF k <= l THEN l - k + 1 ELSE 0
        /\ \A n \in 1..(l - k + 1) : SubSeq(s, k, l)[n] = s[k + n - 1]
    BY <2>1, SubSeqProperties
  <2>4. /\ Len(SubSeq(s, k, l)) = 2
        /\ 1 \in 1..(l - k + 1) /\ 2 \in 1..(l - k + 1)
    BY <2>2, <2>3
  <2>5. SubSeq(s, k, l)[1] = s[k + 1 - 1] /\ SubSeq(s, k, l)[2] = s[k + 2 - 1]
    BY <2>3, <2>4
  <2> QED
    BY <2>2, <2>3, <2>4, <2>5 DEF l
<1> HIDE DEF x, y
<1>5. /\ two \in Seq(Token) /\ Len(two) = 2 /\ two[1] = x /\ two[2] = y
  BY <1>2
<1> HIDE DEF u, two
<1>6. \A n \in 1..2 : u[n] = two[n]
  BY <1>3, <1>5
<1>7. u = two
  BY <1>3, <1>5, <1>6, SeqEqual
<1> QED
  BY <1>7 DEF u, two, x, y

-----------------------------------------------------------------------------
(* What the first n runes of s mean.                                       *)

Meaning(level, padded, s, n) ==
    R!Rendered(level, padded, R!Rewritings(s)[n].str)

LEMMA MeaningIs ==
    ASSUME NEW level \in Nat, NEW padded \in BOOLEAN, NEW s \in Seq(Token)
    PROVE  /\ \A n \in 0..Len(s) : Meaning(level, padded, s, n) \in RenderState
           /\ Meaning(level, padded, s, 0) = R!Blank(level, padded)
           /\ Meaning(level, padded, s, Len(s)) =
                R!Rendered(level, padded, R!Rewritten(s))
<1>1. ASSUME NEW n \in 0..Len(s)
      PROVE  Meaning(level, padded, s, n) \in RenderState
  <2> DEFINE w == R!Rewritings(s)[n].str
  <2>1. w \in Seq(Token)
    <3>1. R!Rewritings(s)[n] \in RewriteState
      BY RewritingsAre
    <3> QED
      BY <3>1 DEF RewriteState
  <2>2. "%" \in Token
    BY SomeTokens
  <2> HIDE DEF w
  <2>3. R!Rendered(level, padded, w) \in RenderState
    BY <2>1, <2>2, RenderedMore
  <2> QED
    BY <2>3 DEF w, Meaning
<1>2. R!Rewritings(s)[0].str = <<>>
  BY RewritingsAre
<1>3. Meaning(level, padded, s, 0) = R!Blank(level, padded)
  BY <1>2, RenderedNone DEF Meaning
<1> QED
  BY <1>1, <1>3 DEF Meaning, R!Rewritten

LEMMA ThreeMore ==
    ASSUME NEW s \in Seq(Token), NEW t \in Token
    PROVE  s \o <<t, t, t>> = ((s \o <<t>>) \o <<t>>) \o <<t>>
<1>1. <<t>> \in Seq(Token) /\ <<t, t>> \in Seq(Token)
  OBVIOUS
<1>2. <<t>> \o <<t>> = <<t, t>> /\ <<t, t>> \o <<t>> = <<t, t, t>>
  <2> DEFINE a == <<t>> \o <<t>>
             b == <<t, t>> \o <<t>>
  <2>1. /\ Len(<<t>>) = 1 /\ Len(<<t, t>>) = 2 /\ Len(<<t, t, t>>) = 3
        /\ <<t, t, t>> \in Seq(Token)
        /\ \A k \in 1..1 : <<t>>[k] = t
        /\ \A k \in 1..2 : <<t, t>>[k] = t
        /\ \A k \in 1..3 : <<t, t, t>>[k] = t
    OBVIOUS
  <2>2. /\ a \in Seq(Token) /\ Len(a) = 2
        /\ \A k \in 1..2 : a[k] = IF k <= 1 THEN <<t>>[k] ELSE <<t>>[k - 1]
    BY <1>1, <2>1, ConcatProperties
  <2>3. /\ b \in Seq(Token) /\ Len(b) = 3
        /\ \A k \in 1..3 : b[k] = IF k <= 2 THEN <<t, t>>[k] ELSE <<t>>[k - 2]
    BY <1>1, <2>1, ConcatProperties
  <2> HIDE DEF a, b
  <2>4. \A k \in 1..2 : a[k] = <<t, t>>[k]
    BY <2>1, <2>2
  <2>5. \A k \in 1..3 : b[k] = <<t, t, t>>[k]
    BY <2>1, <2>3
  <2>6. a = <<t, t>>
    BY <1>1, <2>1, <2>2, <2>4, SeqEqual
  <2>7. b = <<t, t, t>>
    BY <2>1, <2>3, <2>5, SeqEqual
  <2> QED
    BY <2>6, <2>7 DEF a, b
<1>3. (s \o <<t>>) \o <<t>> = s \o <<t, t>>
  BY <1>1, <1>2, ConcatAssociative
<1>4. (s \o <<t, t>>) \o <<t>> = s \o <<t, t, t>>
  BY <1>1, <1>2, ConcatAssociative
<1> QED
  BY <1>3, <1>4

LEMMA MeaningMore ==
    ASSUME NEW level \in Nat, NEW padded \in BOOLEAN, NEW s \in Seq(Token),
           NEW n \in 1..Len(s)
    PROVE  LET w == R!Rewritings(s)[n - 1]
               m == Meaning(level, padded, s, n - 1)
               more == Meaning(level, padded, s, n)
           IN  /\ w.at # "not_plain" /\ ~(w.at = "directive" /\ s[n] = "%") =>
                    more = R!ReadRune(m, s[n])
               /\ w.at = "directive" /\ s[n] = "%" =>
                    more = R!ReadRune(R!ReadRune(R!ReadRune(m, "%"), "%"), "%")
               /\ w.at = "not_plain" => more = m
<1> DEFINE w == R!Rewritings(s)[n - 1]
           v == R!Rewritings(s)[n]
           r == s[n]
           D(t) == R!Rendered(level, padded, t)
<1>1. /\ r \in Token /\ n - 1 \in 0..Len(s) /\ w \in RewriteState
      /\ v = R!Rewriting(w, r)
  BY LenProperties, ElementOfSeq, RewritingsAre
<1>2. w.str \in Seq(Token)
  BY <1>1 DEF RewriteState
<1> HIDE DEF w, v, r, D
<1>3. \A t \in Seq(Token) : /\ t \o <<r>> \in Seq(Token)
                            /\ D(t \o <<r>>) = R!ReadRune(D(t), r)
  BY <1>1, RenderedMore DEF D
<1>4. w.at # "not_plain" /\ ~(w.at = "directive" /\ r = "%") =>
        D(v.str) = R!ReadRune(D(w.str), r)
  <2> SUFFICES ASSUME w.at # "not_plain", ~(w.at = "directive" /\ r = "%")
               PROVE  D(v.str) = R!ReadRune(D(w.str), r)
    OBVIOUS
  <2>1. v.str = w.str \o <<r>>
    BY <1>1, RewritingIs
  <2> QED
    BY <1>2, <1>3, <2>1
<1>5. w.at = "directive" /\ r = "%" =>
        D(v.str) = R!ReadRune(R!ReadRune(R!ReadRune(D(w.str), "%"), "%"), "%")
  <2> SUFFICES ASSUME w.at = "directive", r = "%"
               PROVE  D(v.str) =
                        R!ReadRune(R!ReadRune(R!ReadRune(D(w.str), r), r), r)
    OBVIOUS
  <2>1. v.str = w.str \o <<r, r, r>>
    BY <1>1, RewritingIs
  <2>2. v.str = ((w.str \o <<r>>) \o <<r>>) \o <<r>>
    BY <1>1, <1>2, <2>1, ThreeMore
  <2> DEFINE a == w.str \o <<r>>
             b == a \o <<r>>
  <2>3. a \in Seq(Token) /\ D(a) = R!ReadRune(D(w.str), r)
    BY <1>2, <1>3
  <2> HIDE DEF a
  <2>4. b \in Seq(Token) /\ D(b) = R!ReadRune(D(a), r)
    BY <1>3, <2>3
  <2> HIDE DEF b
  <2>5. D(b \o <<r>>) = R!ReadRune(D(b), r)
    BY <1>3, <2>4
  <2> QED
    BY <2>2, <2>3, <2>4, <2>5 DEF a, b
<1>6. w.at = "not_plain" => D(v.str) = D(w.str)
  BY <1>1, RewritingIs
<1> QED
  BY <1>4, <1>5, <1>6 DEF w, v, r, D, Meaning

LEMMA ReadExtends ==
    ASSUME NEW st \in RenderState, NEW r \in Token
    PROVE  IsPrefix(st.out, R!ReadRune(st, r).out)
<1>1. st.out \in Seq(Token) /\ IsPrefix(st.out, st.out)
  <2>1. st.out \in Seq(Token) /\ <<>> \in Seq(Token)
    BY EmptySeq DEF RenderState
  <2> QED
    BY <2>1, PrefixIs
<1>2. ASSUME NEW t \in Token PROVE IsPrefix(st.out, R!Emit(st, t).out)
  <2>1. R!Padding(st) \in Seq(Token) /\ <<t>> \in Seq(Token)
    BY PaddingType, One
  <2>2. R!Padding(st) \o <<t>> \in Seq(Token)
    BY <2>1, ConcatProperties
  <2>3. R!Emit(st, t).out = st.out \o (R!Padding(st) \o <<t>>)
    <3>1. R!Emit(st, t).out = (st.out \o R!Padding(st)) \o <<t>>
      BY EmitIs
    <3> DEFINE o == st.out  p == R!Padding(st)  u == <<t>>
    <3>2. o \in Seq(Token) /\ p \in Seq(Token) /\ u \in Seq(Token)
      BY <1>1, <2>1
    <3> HIDE DEF o, p, u
    <3>3. (o \o p) \o u = o \o (p \o u)
      BY <3>2, ConcatAssociative
    <3> QED
      BY <3>1, <3>3 DEF o, p, u
  <2> QED
    BY <1>1, <2>2, <2>3, PrefixIs
<1>3. ASSUME NEW l, NEW d
      PROVE  /\ [st EXCEPT !.read = d].out = st.out
             /\ [st EXCEPT !.level = l, !.read = d].out = st.out
             /\ [st EXCEPT !.good = FALSE].out = st.out
  BY DEF RenderState
<1>4. "%" \in Token /\ R!Value \in Token
  BY SomeTokens
<1>5. \/ R!ReadRune(st, r) = st
      \/ \E t \in Token : R!ReadRune(st, r) = R!Emit(st, t)
      \/ \E l, d : \/ R!ReadRune(st, r) = [st EXCEPT !.read = d]
                   \/ R!ReadRune(st, r) = [st EXCEPT !.level = l, !.read = d]
      \/ R!ReadRune(st, r) = [st EXCEPT !.good = FALSE]
  <2>1. CASE ~st.good
    BY <2>1, BadIsLeft
  <2>2. CASE st.good
    <3>1. R!ReadRune(st, r) = R!ReadGood(st, r)
      BY <2>2 DEF R!ReadRune
    <3>2. \/ R!ReadGood(st, r) \in {R!Emit(st, t) : t \in {r, "%", R!Value}}
          \/ R!ReadGood(st, r) \in {[st EXCEPT !.read = d] : d \in {"%", "%l"}}
          \/ R!ReadGood(st, r) \in {[st EXCEPT !.level = l, !.read = "text"] :
                                      l \in {st.level + 1, st.level - 1}}
          \/ R!ReadGood(st, r) = [st EXCEPT !.good = FALSE]
      BY DEF R!ReadGood
    <3> QED
      BY <1>4, <3>1, <3>2
  <2> QED
    BY <2>1, <2>2
<1>6. CASE \E t \in Token : R!ReadRune(st, r) = R!Emit(st, t)
  BY <1>2, <1>6
<1>7. R!ReadRune(st, r).out = st.out => IsPrefix(st.out, R!ReadRune(st, r).out)
  BY <1>1
<1>8. CASE \E l, d : \/ R!ReadRune(st, r) = [st EXCEPT !.read = d]
                     \/ R!ReadRune(st, r) = [st EXCEPT !.level = l, !.read = d]
  <2>1. PICK l, d : \/ R!ReadRune(st, r) = [st EXCEPT !.read = d]
                    \/ R!ReadRune(st, r) = [st EXCEPT !.level = l, !.read = d]
    BY <1>8
  <2>2. /\ [st EXCEPT !.read = d].out = st.out
        /\ [st EXCEPT !.level = l, !.read = d].out = st.out
    BY <1>3
  <2>3. R!ReadRune(st, r).out = st.out
    BY <2>1, <2>2
  <2> QED
    BY <1>7, <2>3
<1>9. CASE R!ReadRune(st, r) = [st EXCEPT !.good = FALSE]
  <2>1. [st EXCEPT !.good = FALSE].out = st.out
    BY <1>3
  <2>2. R!ReadRune(st, r).out = st.out
    BY <1>9, <2>1
  <2> QED
    BY <1>7, <2>2
<1> QED
  BY <1>5, <1>6, <1>7, <1>8, <1>9

\* What is written for a beginning is a beginning of what is written.
LEMMA MeaningExtends ==
    ASSUME NEW level \in Nat, NEW padded \in BOOLEAN, NEW s \in Seq(Token),
           NEW n \in 0..Len(s), NEW m \in n..Len(s)
    PROVE  IsPrefix(Meaning(level, padded, s, n).out,
                    Meaning(level, padded, s, m).out)
<1> DEFINE M(k) == Meaning(level, padded, s, k)
           Past == {k \in 0..Len(s) : k >= n => IsPrefix(M(n).out, M(k).out)}
<1>1. /\ Len(s) \in Nat /\ "%" \in Token /\ <<>> \in Seq(Token)
      /\ \A k \in 1..Len(s) : s[k] \in Token
  BY LenProperties, ElementOfSeq, SomeTokens, EmptySeq
<1>2. \A k \in 0..Len(s) : M(k) \in RenderState
  BY MeaningIs
<1>3. \A k \in 0..Len(s) : M(k).out \in Seq(Token)
  BY <1>2 DEF RenderState
<1>4. IsPrefix(M(n).out, M(n).out)
  BY <1>1, <1>3, PrefixIs
<1>5. ASSUME NEW k \in 1..Len(s) PROVE IsPrefix(M(k - 1).out, M(k).out)
  <2>1. k - 1 \in 0..Len(s) /\ k \in 0..Len(s) /\ s[k] \in Token
    BY <1>1
  <2> DEFINE m0 == M(k - 1)
             m1 == R!ReadRune(m0, "%")
             m2 == R!ReadRune(m1, "%")
             m3 == R!ReadRune(m2, "%")
  <2>2. m0 \in RenderState /\ m0.out \in Seq(Token)
    BY <1>2, <1>3, <2>1
  <2> HIDE DEF M
  <2>3. IsPrefix(m0.out, R!ReadRune(m0, s[k]).out)
    BY <2>1, <2>2, ReadExtends
  <2>4. IsPrefix(m0.out, m3.out)
    <3> HIDE DEF m0
    <3>1. m1 \in RenderState /\ IsPrefix(m0.out, m1.out)
      BY <1>1, <2>2, ReadExtends, ReadRuneType
    <3> HIDE DEF m1
    <3>2. m2 \in RenderState /\ IsPrefix(m1.out, m2.out)
      BY <1>1, <3>1, ReadExtends, ReadRuneType
    <3> HIDE DEF m2
    <3>3. m3 \in RenderState /\ IsPrefix(m2.out, m3.out)
      BY <1>1, <3>2, ReadExtends, ReadRuneType
    <3> HIDE DEF m3
    <3>4. /\ m1.out \in Seq(Token) /\ m2.out \in Seq(Token)
          /\ m3.out \in Seq(Token)
      BY <3>1, <3>2, <3>3 DEF RenderState
    <3>5. IsPrefix(m0.out, m2.out)
      BY <2>2, <3>1, <3>2, <3>4, PrefixTrans
    <3> QED
      BY <2>2, <3>3, <3>4, <3>5, PrefixTrans
  <2>5. IsPrefix(m0.out, m0.out)
    BY <1>1, <2>2, PrefixIs
  <2>6. M(k) = R!ReadRune(m0, s[k]) \/ M(k) = m3 \/ M(k) = m0
    BY MeaningMore DEF M
  <2> QED
    BY <2>3, <2>4, <2>5, <2>6
<1>6. 0 \in Past
  <2>1. 0 >= n => n = 0
    BY <1>1
  <2> QED
    BY <1>1, <1>4, <2>1
<1>7. ASSUME NEW k \in 1..Len(s), k - 1 \in Past PROVE k \in Past
  <2>1. k \in 0..Len(s) /\ k - 1 \in 0..Len(s)
    BY <1>1
  <2>2. CASE k - 1 >= n
    <3>1. IsPrefix(M(n).out, M(k - 1).out)
      BY <1>7, <2>2
    <3>2. IsPrefix(M(k - 1).out, M(k).out)
      BY <1>5
    <3>3. IsPrefix(M(n).out, M(k).out)
      <4> HIDE DEF M
      <4> QED
        BY <1>3, <2>1, <3>1, <3>2, PrefixTrans
    <3> QED
      BY <2>1, <3>3
  <2>3. CASE ~(k - 1 >= n)
    <3>1. k = n \/ ~(k >= n)
      BY <1>1, <2>3
    <3> QED
      BY <1>4, <2>1, <3>1
  <2> QED
    BY <2>2, <2>3
<1> HIDE DEF Past
<1>8. \A k \in 0..Len(s) : k \in Past
  BY <1>1, <1>6, <1>7, Upward
<1>9. m \in Past /\ m >= n
  BY <1>1, <1>8
<1> QED
  BY <1>9 DEF Past

-----------------------------------------------------------------------------
(* Text, which stands for itself.                                          *)

\* st, with the text s written.
Line(st, s) ==
    IF s = <<>> THEN st
    ELSE [st EXCEPT !.out = (@ \o R!Padding(st)) \o s, !.padded = TRUE]

LEMMA SameState ==
    ASSUME NEW st \in RenderState, NEW u \in RenderState,
           st.out = u.out, st.level = u.level, st.padded = u.padded,
           st.read = u.read, st.good = u.good
    PROVE  st = u
BY DEF RenderState

LEMMA LineIs ==
    ASSUME NEW st \in RenderState, NEW s \in Seq(Token)
    PROVE  /\ Line(st, s) \in RenderState
           /\ s = <<>> => Line(st, s) = st
           /\ s # <<>> => /\ Line(st, s).out = (st.out \o R!Padding(st)) \o s
                          /\ Line(st, s).padded = TRUE
           /\ Line(st, s).level = st.level
           /\ Line(st, s).read = st.read
           /\ Line(st, s).good = st.good
<1> DEFINE o == (st.out \o R!Padding(st)) \o s
           e(p) == [st EXCEPT !.out = p, !.padded = TRUE]
<1>1. o \in Seq(Token)
  <2>1. st.out \in Seq(Token) /\ R!Padding(st) \in Seq(Token)
    BY PaddingType DEF RenderState
  <2> QED
    BY <2>1, ConcatProperties
<1>2. CASE s = <<>>
  BY <1>2 DEF Line
<1>3. CASE s # <<>>
  <2>1. Line(st, s) = e(o)
    BY <1>3 DEF Line
  <2>2. \A p \in Seq(Token) :
           /\ e(p) \in RenderState /\ e(p).out = p /\ e(p).padded = TRUE
           /\ e(p).level = st.level /\ e(p).read = st.read
           /\ e(p).good = st.good
    BY DEF RenderState
  <2> HIDE DEF o, e
  <2>3. /\ e(o) \in RenderState /\ e(o).out = o /\ e(o).padded = TRUE
        /\ e(o).level = st.level /\ e(o).read = st.read /\ e(o).good = st.good
    BY <1>1, <2>2
  <2> QED
    BY <1>3, <2>1, <2>3 DEF o
<1> QED
  BY <1>2, <1>3

\* One rune more.
LEMMA LineMore ==
    ASSUME NEW st \in RenderState, st.read = "text",
           NEW s \in Seq(Token), NEW t \in Token
    PROVE  /\ s \o <<t>> \in Seq(Token)
           /\ t # R!Newline => R!Emit(Line(st, s), t) = Line(st, s \o <<t>>)
           /\ t = R!Newline =>
                R!Emit(Line(st, s), t) =
                  [Line(st, s \o <<t>>) EXCEPT !.padded = FALSE]
<1> DEFINE u == s \o <<t>>
           a == Line(st, s)
           b == Line(st, u)
           e == R!Emit(a, t)
<1>1. /\ <<t>> \in Seq(Token) /\ u \in Seq(Token) /\ u # <<>>
      /\ st.out \in Seq(Token) /\ R!Padding(st) \in Seq(Token)
      /\ st.out \o R!Padding(st) \in Seq(Token)
  <2>1. <<t>> \in Seq(Token) /\ Len(<<t>>) = 1
    OBVIOUS
  <2>2. u \in Seq(Token) /\ Len(u) = Len(s) + 1 /\ Len(s) \in Nat
    BY <2>1, ConcatProperties, LenProperties
  <2>3. Len(u) # 0
    BY <2>2
  <2>4. u # <<>>
    BY <2>3, EmptySeq
  <2>5. st.out \in Seq(Token) /\ R!Padding(st) \in Seq(Token)
    BY PaddingType DEF RenderState
  <2>6. st.out \o R!Padding(st) \in Seq(Token)
    BY <2>5, ConcatProperties
  <2> QED
    BY <2>1, <2>2, <2>4, <2>5, <2>6
<1> HIDE DEF u
<1>2. /\ a \in RenderState /\ a.level = st.level /\ a.read = "text"
      /\ a.good = st.good
      /\ s = <<>> => a = st
      /\ s # <<>> => a.out = (st.out \o R!Padding(st)) \o s /\ a.padded = TRUE
  BY LineIs
<1>3. /\ b \in RenderState /\ b.level = st.level /\ b.read = "text"
      /\ b.good = st.good
      /\ b.out = (st.out \o R!Padding(st)) \o u /\ b.padded = TRUE
  BY <1>1, LineIs
<1>4. /\ e \in RenderState /\ e.out = (a.out \o R!Padding(a)) \o <<t>>
      /\ e.level = a.level /\ e.padded = (t # R!Newline) /\ e.read = "text"
      /\ e.good = a.good
  <2> HIDE DEF a
  <2> QED
    BY <1>2, EmitIs
<1> HIDE DEF a, b, e
<1>5. e.out = b.out
  <2>1. CASE s = <<>>
    <3>1. u = <<t>>
      BY <1>1, <2>1, ConcatEmptySeq DEF u
    <3> QED
      BY <1>2, <1>3, <1>4, <2>1, <3>1
  <2>2. CASE s # <<>>
    <3>1. R!Padding(a) = <<>>
      BY <1>2, <2>2 DEF R!Padding
    <3>2. a.out \in Seq(Token)
      BY <1>2 DEF RenderState
    <3>3. a.out \o <<>> = a.out
      BY <3>2, ConcatEmptySeq
    <3> DEFINE l == st.out \o R!Padding(st)
    <3>4. e.out = (l \o s) \o <<t>>
      BY <1>2, <1>4, <2>2, <3>1, <3>3
    <3>5. (l \o s) \o <<t>> = l \o (s \o <<t>>)
      <4> DEFINE one == <<t>>
      <4>1. l \in Seq(Token) /\ one \in Seq(Token)
        BY <1>1
      <4> HIDE DEF l, one
      <4>2. (l \o s) \o one = l \o (s \o one)
        BY <4>1, ConcatAssociative
      <4> QED
        BY <4>2 DEF one
    <3> QED
      BY <1>3, <3>4, <3>5 DEF u
  <2> QED
    BY <2>1, <2>2
<1>6. ASSUME t # R!Newline PROVE e = b
  <2>1. e.padded = b.padded
    BY <1>3, <1>4, <1>6
  <2> QED
    BY <1>2, <1>3, <1>4, <1>5, <2>1, SameState
<1>7. ASSUME t = R!Newline PROVE e = [b EXCEPT !.padded = FALSE]
  <2> DEFINE c == [b EXCEPT !.padded = FALSE]
  <2>1. /\ c \in RenderState /\ c.out = b.out /\ c.level = b.level
        /\ c.read = b.read /\ c.good = b.good /\ c.padded = FALSE
    BY <1>3 DEF RenderState
  <2>2. e.padded = FALSE
    BY <1>4, <1>7
  <2> HIDE DEF c
  <2>3. e = c
    BY <1>2, <1>3, <1>4, <1>5, <2>1, <2>2, SameState
  <2> QED
    BY <2>3 DEF c
<1> QED
  BY <1>1, <1>6, <1>7 DEF u, a, b, e

Between == {"none", "waiting"}

\* Runes that are no signs and no newlines mean themselves.
LEMMA TextRun ==
    ASSUME NEW level \in Nat, NEW padded \in BOOLEAN, NEW s \in Seq(Token),
           NEW j \in 0..Len(s), NEW m \in j..Len(s),
           \A k \in (j + 1)..m : s[k] \notin {"%", R!Newline},
           R!Rewritings(s)[j].at \in Between,
           Meaning(level, padded, s, j).read = "text",
           Meaning(level, padded, s, j).good
    PROVE  /\ R!Rewritings(s)[m].at = IF m = j THEN R!Rewritings(s)[j].at
                                      ELSE "waiting"
           /\ SubSeq(s, j + 1, m) \in Seq(Token)
           /\ Meaning(level, padded, s, m) =
                Line(Meaning(level, padded, s, j), SubSeq(s, j + 1, m))
<1> DEFINE st == Meaning(level, padded, s, j)
           M(k) == Meaning(level, padded, s, k)
           W(k) == R!Rewritings(s)[k].at
           P(k) == SubSeq(s, j + 1, k)
           Right(k) == /\ W(k) = IF k = j THEN W(j) ELSE "waiting"
                       /\ P(k) \in Seq(Token)
                       /\ M(k) = Line(st, P(k))
           Read == {k \in 0..Len(s) : j <= k /\ k <= m => Right(k)}
<1>1. /\ Len(s) \in Nat /\ \A k \in 1..Len(s) : s[k] \in Token
      /\ j \in Int /\ m \in Int
  BY LenProperties, ElementOfSeq
<1>2. st \in RenderState /\ st.read = "text"
  BY MeaningIs
<1>3. W(j) \in Between
  OBVIOUS
<1>4. st.good
  OBVIOUS
<1>5. P(j) = <<>> /\ Right(j)
  <2>1. P(j) = <<>>
    BY <1>1, SubSeqEmpty
  <2>2. <<>> \in Seq(Token)
    BY EmptySeq
  <2>3. Line(st, <<>>) = st
    BY DEF Line
  <2> QED
    BY <2>1, <2>2, <2>3
<1>6. 0 \in Read
  <2>1. j <= 0 => j = 0
    BY <1>1
  <2> HIDE DEF Right
  <2> QED
    BY <1>1, <1>5, <2>1
<1>7. ASSUME NEW k \in 1..Len(s), k - 1 \in Read PROVE k \in Read
  <2> SUFFICES ASSUME j <= k, k <= m PROVE Right(k)
    OBVIOUS
  <2>1. CASE k = j
    <3> HIDE DEF Right
    <3> QED
      BY <1>5, <2>1
  <2>2. CASE k # j
    <3>1. /\ j <= k - 1 /\ k - 1 <= m /\ k \in (j + 1)..m
          /\ k - 1 \in 0..Len(s)
          /\ s[k] \in Token /\ j + 1 \in 1..Len(s) /\ k \in (j + 1)..Len(s)
      BY <1>1, <2>2
    <3>2. Right(k - 1)
      <4> HIDE DEF Right
      <4> QED
        BY <1>7, <3>1
    <3>3. s[k] # "%" /\ s[k] # R!Newline
      BY <3>1
    <3>4. P(k) = P(k - 1) \o <<s[k]>>
      BY <3>1, SubSeqRecursiveSecond
    <3>5. W(k - 1) \in Between
      BY <1>3, <3>2 DEF Between
    <3>6. W(k) = "waiting"
      <4>1. /\ R!Rewritings(s)[k - 1] \in RewriteState
            /\ R!Rewritings(s)[k] = R!Rewriting(R!Rewritings(s)[k - 1], s[k])
        BY <3>1, RewritingsAre
      <4>2. \A w \in RewriteState :
               w.at \in {"none", "waiting"} =>
                 R!Rewriting(w, s[k]).at = "waiting"
        BY <3>1, <3>3, RewritingIs
      <4> QED
        BY <3>5, <4>1, <4>2 DEF Between
    <3>7. M(k) = R!ReadRune(M(k - 1), s[k])
      <4>1. W(k - 1) # "not_plain" /\ W(k - 1) # "directive"
        BY <3>5 DEF Between
      <4> QED
        BY <4>1, MeaningMore
    <3> DEFINE p == P(k - 1)
               a == Line(st, p)
    <3>8. p \in Seq(Token) /\ M(k - 1) = a
      BY <3>2
    <3>9. a \in RenderState /\ a.read = "text" /\ a.good
      <4> HIDE DEF p, st
      <4>1. a \in RenderState /\ a.read = st.read /\ a.good = st.good
        BY <1>2, <3>8, LineIs
      <4> QED
        BY <1>2, <1>4, <4>1
    <3>10. R!ReadRune(a, s[k]) = R!Emit(a, s[k])
      <4> HIDE DEF a
      <4> QED
        BY <3>1, <3>3, <3>9, ReadIs
    <3>11. /\ p \o <<s[k]>> \in Seq(Token)
           /\ R!Emit(a, s[k]) = Line(st, p \o <<s[k]>>)
      <4> HIDE DEF p, st
      <4> QED
        BY <1>2, <3>1, <3>3, <3>8, LineMore
    <3>12. P(k) \in Seq(Token) /\ M(k) = Line(st, P(k))
      BY <3>4, <3>7, <3>8, <3>10, <3>11
    <3> QED
      BY <2>2, <3>6, <3>12
  <2> QED
    BY <2>1, <2>2
<1> HIDE DEF Read
<1>8. \A k \in 0..Len(s) : k \in Read
  BY <1>1, <1>6, <1>7, Upward
<1>9. m \in Read /\ j <= m /\ m <= m
  BY <1>1, <1>8
<1>10. Right(m)
  <2> HIDE DEF Right
  <2> QED
    BY <1>9 DEF Read
<1> QED
  BY <1>10

-----------------------------------------------------------------------------
(* What has been written, as a rendering.                                  *)

With(before) ==
    [out |-> before, level |-> pad_level, padded |-> is_line_padded,
     read |-> "text", good |-> TRUE]
Now == With(out)

LEMMA WithIs ==
    ASSUME LineInv, NEW before \in Seq(Token)
    PROVE  /\ With(before) \in RenderState
           /\ With(before).out = before /\ With(before).level = pad_level
           /\ With(before).padded = is_line_padded
           /\ With(before).read = "text" /\ With(before).good
           /\ \A s : Padded(s) = R!Padding(With(before)) \o s
<1>1. pad_level \in Nat /\ is_line_padded \in BOOLEAN
  BY DEF LineInv
<1>2. /\ With(before) \in RenderState
      /\ With(before).out = before /\ With(before).level = pad_level
      /\ With(before).padded = is_line_padded
      /\ With(before).read = "text" /\ With(before).good
  BY <1>1 DEF With, RenderState
<1>3. R!Padding(With(before)) = IF is_line_padded THEN <<>> ELSE Pads
  BY <1>2 DEF R!Padding, Pads
<1>4. \A s : Padded(s) = R!Padding(With(before)) \o s
  BY <1>3 DEF Padded
<1> QED
  BY <1>2, <1>4

\* A write that goes well.
LEMMA GiveWrites ==
    ASSUME LineInv, NEW before \in Seq(Token), NEW s \in Seq(Token),
           Give(before, s)
    PROVE  /\ out' \in Seq(Token)
           /\ is_line_padded' = TRUE /\ (s # <<>> \/ is_line_padded) =>
                Now' = Line(With(before), s)
           /\ is_line_padded' = FALSE /\ s # <<>> =>
                Now' = [Line(With(before), s) EXCEPT !.padded = FALSE]
<1> DEFINE st == With(before)
           l == Line(st, s)
<1>1. /\ st \in RenderState /\ st.out = before /\ st.level = pad_level
      /\ st.padded = is_line_padded /\ st.read = "text" /\ st.good
      /\ Padded(s) = R!Padding(st) \o s
  BY WithIs
<1>2. out' = before \o Padded(s) /\ pad_level' = pad_level
  BY DEF Give
<1>3. R!Padding(st) \in Seq(Token)
  BY <1>1, PaddingType
<1>4. out' = (before \o R!Padding(st)) \o s /\ out' \in Seq(Token)
  <2> DEFINE p == R!Padding(st)
  <2>1. p \in Seq(Token) /\ out' = before \o (p \o s)
    BY <1>1, <1>2, <1>3
  <2> HIDE DEF p
  <2>2. (before \o p) \o s = before \o (p \o s)
    BY <2>1, ConcatAssociative
  <2>3. before \o (p \o s) \in Seq(Token)
    BY <2>1, ConcatProperties
  <2> QED
    BY <2>1, <2>2, <2>3 DEF p
<1> DEFINE now ==
             [out |-> out', level |-> pad_level', padded |-> is_line_padded',
                   read |-> "text", good |-> TRUE]
<1>5. Now' = now
  BY DEF Now, With
<1> HIDE DEF st, l, now
<1>6. /\ l \in RenderState /\ l.level = st.level /\ l.read = st.read
      /\ l.good = st.good
      /\ s = <<>> => l = st
      /\ s # <<>> => l.out = (st.out \o R!Padding(st)) \o s /\ l.padded = TRUE
  BY <1>1, LineIs DEF l
<1>7. l.good = TRUE /\ l.read = "text" /\ l.level = pad_level
  BY <1>1, <1>6 DEF RenderState
<1>8. ASSUME NEW b \in BOOLEAN, is_line_padded' = b
      PROVE  /\ now \in RenderState /\ now.out = out' /\ now.level = pad_level
             /\ now.padded = b /\ now.read = "text" /\ now.good = TRUE
  <2>1. pad_level' \in Nat /\ pad_level' = pad_level
    BY <1>2 DEF LineInv
  <2> QED
    BY <1>4, <1>8, <2>1 DEF now, RenderState
<1>9. ASSUME is_line_padded' = TRUE, s # <<>> \/ is_line_padded PROVE now = l
  <2>1. /\ now \in RenderState /\ now.out = out' /\ now.level = pad_level
        /\ now.padded = TRUE /\ now.read = "text" /\ now.good = TRUE
    BY <1>8, <1>9
  <2>2. l.out = out' /\ l.padded = TRUE
    <3>1. CASE s # <<>>
      BY <1>1, <1>4, <1>6, <3>1
    <3>2. CASE s = <<>>
      <4>1. is_line_padded
        BY <1>9, <3>2
      <4>2. st.padded
        BY <1>1, <4>1
      <4>3. R!Padding(st) = <<>>
        BY <4>2 DEF R!Padding
      <4>4. out' = before
        BY <1>4, <3>2, <4>3, ConcatEmptySeq
      <4>5. st.padded = TRUE
        BY <1>1, <4>2 DEF RenderState
      <4> QED
        BY <1>1, <1>6, <3>2, <4>4, <4>5
    <3> QED
      BY <3>1, <3>2
  <2> QED
    BY <1>6, <1>7, <2>1, <2>2, SameState
<1>10. ASSUME is_line_padded' = FALSE, s # <<>>
       PROVE  now = [l EXCEPT !.padded = FALSE]
  <2> DEFINE c == [l EXCEPT !.padded = FALSE]
  <2>1. /\ now \in RenderState /\ now.out = out' /\ now.level = pad_level
        /\ now.padded = FALSE /\ now.read = "text" /\ now.good = TRUE
    BY <1>8, <1>10
  <2>2. /\ c \in RenderState /\ c.out = l.out /\ c.level = l.level
        /\ c.read = l.read /\ c.good = l.good /\ c.padded = FALSE
    BY <1>6 DEF RenderState
  <2>3. l.out = out'
    BY <1>1, <1>4, <1>6, <1>10
  <2> HIDE DEF c
  <2>4. now = c
    BY <1>7, <2>1, <2>2, <2>3, SameState
  <2> QED
    BY <2>4 DEF c
<1> QED
  BY <1>4, <1>5, <1>9, <1>10 DEF st, l

\* A write that fails: some beginning of it reached the target.
LEMMA FailWrites ==
    ASSUME LineInv, NEW before \in Seq(Token), NEW s \in Seq(Token),
           s # <<>> \/ is_line_padded, Fail(before, s)
    PROVE  /\ out' \in Seq(Token) /\ ret' = "target"
           /\ IsPrefix(out', Line(With(before), s).out)
<1> DEFINE st == With(before)
           l == Line(st, s)
           q == R!Padding(st) \o s
<1>1. /\ st \in RenderState /\ st.out = before /\ st.padded = is_line_padded
      /\ Padded(s) = q
  BY WithIs
<1>2. /\ ret' = "target"
      /\ \E n \in 0..(Len(q) - 1) : out' = before \o SubSeq(q, 1, n)
  BY <1>1 DEF Fail
<1>3. PICK n \in 0..(Len(q) - 1) : out' = before \o SubSeq(q, 1, n)
  BY <1>2
<1>4. R!Padding(st) \in Seq(Token)
  BY <1>1, PaddingType
<1>5. q \in Seq(Token) /\ Len(q) \in Nat
  BY <1>4, ConcatProperties, LenProperties
<1>6. l.out = before \o q
  <2>1. CASE s # <<>>
    <3>1. l.out = (before \o R!Padding(st)) \o s
      <4> HIDE DEF st
      <4> QED
        BY <1>1, <2>1, LineIs
    <3> DEFINE p == R!Padding(st)
    <3>2. p \in Seq(Token)
      BY <1>4
    <3> HIDE DEF p
    <3>3. (before \o p) \o s = before \o (p \o s)
      BY <3>2, ConcatAssociative
    <3> QED
      BY <3>1, <3>3 DEF p
  <2>2. CASE s = <<>>
    <3>1. st.padded
      BY <1>1, <2>2
    <3>2. R!Padding(st) = <<>>
      BY <3>1 DEF R!Padding
    <3>3. <<>> \o s = s /\ before \o <<>> = before
      BY ConcatEmptySeq
    <3>4. l = st
      BY <2>2 DEF Line
    <3> QED
      BY <1>1, <2>2, <3>2, <3>3, <3>4
  <2> QED
    BY <2>1, <2>2
<1> HIDE DEF q, l, st
<1> DEFINE b == SubSeq(q, 1, n)
           r == SubSeq(q, n + 1, Len(q))
<1>7. /\ n \in 0..Len(q) /\ n \in Int /\ n + 1 \in Int /\ Len(q) \in Int
      /\ \A k \in 1..Len(q) : q[k] \in Token
      /\ Len(q) # 0
  BY <1>5, ElementOfSeq
<1>8. b \in Seq(Token) /\ r \in Seq(Token) /\ b \o r = q
  <2>1. \A k \in 1..n : q[k] \in Token
    BY <1>5, <1>7
  <2>2. \A k \in (n + 1)..Len(q) : q[k] \in Token
    BY <1>5, <1>7
  <2>3. b \in Seq(Token) /\ r \in Seq(Token)
    BY <1>7, <2>1, <2>2, SubSeqProperties
  <2>4. 1 \in 1..(Len(q) + 1) /\ n \in (1 - 1)..Len(q) /\ Len(q) \in n..Len(q)
    BY <1>5, <1>7
  <2>5. b \o r = SubSeq(q, 1, Len(q))
    BY <1>5, <2>4, ConcatAdjacentSubSeq
  <2>6. SubSeq(q, 1, Len(q)) = q
    BY <1>5, SubSeqFull
  <2> QED
    BY <2>3, <2>5, <2>6
<1>9. out' = before \o b
  BY <1>3
<1> HIDE DEF b, r
<1>10. out' \in Seq(Token)
  BY <1>8, <1>9, ConcatProperties
<1>11. l.out = (before \o b) \o r
  <2>1. (before \o b) \o r = before \o (b \o r)
    <3>1. b \in Seq(Token) /\ r \in Seq(Token)
      BY <1>8
    <3> QED
      BY <3>1, ConcatAssociative
  <2> QED
    BY <1>6, <1>8, <2>1
<1>12. IsPrefix(before \o b, (before \o b) \o r)
  BY <1>8, <1>9, <1>10, PrefixIs
<1> QED
  BY <1>2, <1>9, <1>10, <1>11, <1>12 DEF l, st

-----------------------------------------------------------------------------
(* Where the loop of write_fmt is in what its string means.                *)

\* What the runes up to n were taken for, what they mean so rewritten, and
\* what they mean as they are.
Taken(n) == R!Rewritings(fmt)[n].at
Meant(n) == Meaning(start.level, start.padded, fmt, n)
Direct(n) == R!Renderings(start.level, FALSE, fmt)[n]

\* At a rune of text: what was read is written, but for what waits.
FollowsText ==
    /\ Taken(e_fmt_str) = IF fmt_str = e_fmt_str THEN "none" ELSE "waiting"
    /\ Meant(e_fmt_str) = Line(Now, Pending(e_fmt_str))

\* After a percent sign: all is written, and the sign waits if nothing else
\* did.
FollowsSign ==
    /\ \/ /\ Taken(e_fmt_str) = "directive"
          /\ e_fmt_str > 0 /\ fmt_str = e_fmt_str - 1 /\ fmt[e_fmt_str] = "%"
       \/ Taken(e_fmt_str) = "after_text" /\ fmt_str = e_fmt_str
    /\ Meant(e_fmt_str) = [Now EXCEPT !.read = "%"]

\* The string as it is has the same directives, and was good so far.
Directly ==
    /\ Direct(e_fmt_str).good
    /\ Direct(e_fmt_str).level = pad_level
    /\ Direct(e_fmt_str).read = IF at = "text" THEN "text" ELSE "%"

\* A step of the loop goes on, or ends in one of the ways a call may.
Outcome ==
    \/ ret' = "running" /\ at' = "text" /\ FollowsText' /\ Directly'
    \/ ret' = "running" /\ at' = "directive" /\ FollowsSign' /\ Directly'
    \/ ret' = "OK" /\ Now' = Meant(Len(fmt))
    \/ ret' = "target" /\ \E n \in 0..Len(fmt) : IsPrefix(out', Meant(n).out)
    \/ /\ ret' \in {"format", "panic"} /\ out' = out
       /\ ~R!WellFormed(start.level, fmt)

Same == fmt' = fmt /\ start' = start

LEMMA StringIs ==
    ASSUME FInv
    PROVE  /\ fmt \in Seq(Token) /\ Len(fmt) \in Nat
           /\ start.level \in Nat /\ start.padded \in BOOLEAN
           /\ pad_level \in Nat /\ is_line_padded \in BOOLEAN /\ LineInv
           /\ e_fmt_str \in 0..Len(fmt) /\ fmt_str \in 0..e_fmt_str
           /\ e_fmt_str \in Nat /\ fmt_str \in Nat
           /\ \A n \in 0..Len(fmt) :
                /\ Meant(n) \in RenderState /\ Direct(n) \in RenderState
                /\ R!Rewritings(fmt)[n] \in RewriteState
<1>1. /\ fmt \in Seq(Token) /\ Len(fmt) \in Nat
      /\ pad_level \in Nat /\ is_line_padded \in BOOLEAN
      /\ e_fmt_str \in 0..Len(fmt) /\ fmt_str \in 0..e_fmt_str
  BY LenProperties DEF FInv, LineInv, Reading
<1>2. start.level \in Nat /\ start.padded \in BOOLEAN
  BY LevelAssumption DEF FInv, Started
<1>3. FALSE \in BOOLEAN
  OBVIOUS
<1>4. \A n \in 0..Len(fmt) : Meant(n) \in RenderState
  BY <1>1, <1>2, MeaningIs DEF Meant
<1>5. \A n \in 0..Len(fmt) : Direct(n) \in RenderState
  BY <1>1, <1>2, <1>3, RenderingsAre DEF Direct
<1>6. \A n \in 0..Len(fmt) : R!Rewritings(fmt)[n] \in RewriteState
  BY <1>1, RewritingsAre
<1> QED
  BY <1>1, <1>2, <1>4, <1>5, <1>6 DEF FInv

\* The next rune, in each of the three.
LEMMA NextRune ==
    ASSUME FInv, ~AtEnd
    PROVE  /\ Rune \in Token /\ e_fmt_str + 1 \in 0..Len(fmt)
           /\ Taken(e_fmt_str) \in Between =>
                Taken(e_fmt_str + 1) =
                  IF Rune = "%"
                  THEN IF Taken(e_fmt_str) = "none" THEN "directive"
                       ELSE "after_text"
                  ELSE IF Rune = R!Newline THEN "none" ELSE "waiting"
           /\ Taken(e_fmt_str) \in {"directive", "after_text"} =>
                Taken(e_fmt_str + 1) =
                  IF Rune = "%" THEN "waiting"
                  ELSE IF Rune = "l" THEN "not_plain" ELSE "none"
           /\ Taken(e_fmt_str) # "not_plain"
              /\ ~(Taken(e_fmt_str) = "directive" /\ Rune = "%") =>
                Meant(e_fmt_str + 1) = R!ReadRune(Meant(e_fmt_str), Rune)
           /\ Taken(e_fmt_str) = "directive" /\ Rune = "%" =>
                Meant(e_fmt_str + 1) =
                  R!ReadRune(R!ReadRune(R!ReadRune(Meant(e_fmt_str), "%"),
                                        "%"), "%")
           /\ Direct(e_fmt_str + 1) = R!ReadRune(Direct(e_fmt_str), Rune)
<1> DEFINE e == e_fmt_str
           k == e + 1
           w == R!Rewritings(fmt)[e]
<1>1. /\ fmt \in Seq(Token) /\ Len(fmt) \in Nat
      /\ start.level \in Nat /\ start.padded \in BOOLEAN
      /\ e \in 0..Len(fmt) /\ e \in Nat /\ w \in RewriteState
  BY StringIs
<1>2. k \in 1..Len(fmt) /\ k - 1 = e /\ k \in 0..Len(fmt)
  BY <1>1 DEF AtEnd
<1>3. Rune = fmt[k] /\ Rune \in Token
  <2>1. Rune = fmt[k]
    BY DEF Rune
  <2> HIDE DEF k
  <2> QED
    BY <1>1, <1>2, <2>1, ElementOfSeq
<1> HIDE DEF k
<1>4. R!Rewritings(fmt)[k] = R!Rewriting(w, Rune)
  BY <1>1, <1>2, <1>3, RewritingsAre
<1>5. Taken(e) = w.at /\ Taken(k) = R!Rewriting(w, Rune).at
  BY <1>4 DEF Taken
<1>6. /\ w.at # "not_plain" /\ ~(w.at = "directive" /\ Rune = "%") =>
           Meant(k) = R!ReadRune(Meant(e), Rune)
      /\ w.at = "directive" /\ Rune = "%" =>
           Meant(k) =
             R!ReadRune(R!ReadRune(R!ReadRune(Meant(e), "%"), "%"), "%")
  BY <1>1, <1>2, <1>3, MeaningMore DEF Meant
<1>7. Direct(k) = R!ReadRune(Direct(e), Rune)
  <2> DEFINE g == R!Renderings(start.level, FALSE, fmt)
  <2>1. Reads(g, Len(fmt), start.level, FALSE, fmt)
    BY <1>1, RenderingsAre
  <2> HIDE DEF g
  <2>2. g[k] = R!ReadRune(g[e], Rune)
    BY <1>2, <1>3, <2>1 DEF Reads
  <2> QED
    BY <2>2 DEF g, Direct
<1> HIDE DEF w
<1>8. w.at \in Between =>
        Taken(k) = IF Rune = "%"
                   THEN IF w.at = "none" THEN "directive" ELSE "after_text"
                   ELSE IF Rune = R!Newline THEN "none" ELSE "waiting"
  <2>1. R!Newline # "%"
    BY DEF R!Newline
  <2> HIDE DEF R!Newline
  <2> QED
    BY <1>1, <1>3, <1>5, <2>1, RewritingIs DEF Between
<1>9. w.at \in {"directive", "after_text"} =>
        Taken(k) = IF Rune = "%" THEN "waiting"
                   ELSE IF Rune = "l" THEN "not_plain" ELSE "none"
  BY <1>1, <1>3, <1>5, RewritingIs
<1> QED
  BY <1>2, <1>3, <1>5, <1>6, <1>7, <1>8, <1>9 DEF k

\* The next rune of the string as it is.
LEMMA DirectRune ==
    ASSUME FInv, ~AtEnd, Directly
    PROVE  /\ at = "text" =>
                /\ Direct(e_fmt_str + 1).good
                /\ Direct(e_fmt_str + 1).level = pad_level
                /\ Direct(e_fmt_str + 1).read =
                     IF Rune = "%" THEN "%" ELSE "text"
           /\ at = "directive" /\ Rune \in {"%", "s", "v", "d", "u"} =>
                /\ Direct(e_fmt_str + 1).good
                /\ Direct(e_fmt_str + 1).level = pad_level
                /\ Direct(e_fmt_str + 1).read = "text"
           /\ at = "directive" /\ Rune = "+" =>
                /\ Direct(e_fmt_str + 1).good
                /\ Direct(e_fmt_str + 1).level = pad_level + 1
                /\ Direct(e_fmt_str + 1).read = "text"
           /\ at = "directive" /\ Rune = "-" /\ pad_level > 0 =>
                /\ Direct(e_fmt_str + 1).good
                /\ Direct(e_fmt_str + 1).level = pad_level - 1
                /\ Direct(e_fmt_str + 1).read = "text"
           /\ at = "directive" /\ Rune = "-" /\ pad_level = 0 =>
                ~R!WellFormed(start.level, fmt)
           /\ at = "directive"
              /\ Rune \notin {"%", "+", "-", "s", "v", "d", "u", "l"} =>
                ~R!WellFormed(start.level, fmt)
<1> DEFINE d == Direct(e_fmt_str)
           f == Direct(e_fmt_str + 1)
<1>1. /\ d \in RenderState /\ f \in RenderState /\ Rune \in Token
      /\ f = R!ReadRune(d, Rune) /\ pad_level \in Nat
      /\ e_fmt_str + 1 \in 0..Len(fmt)
  BY StringIs, NextRune
<1>2. /\ d.good /\ d.level = pad_level
      /\ d.read = IF at = "text" THEN "text" ELSE "%"
  BY DEF Directly
<1>3. ~f.good => ~R!WellFormed(start.level, fmt)
  <2>1. /\ start.level \in Nat /\ fmt \in Seq(Token)
        /\ f = R!Renderings(start.level, FALSE, fmt)[e_fmt_str + 1]
    BY StringIs DEF Direct
  <2> HIDE DEF f
  <2>2. ~f.good => ~R!Rendered(start.level, FALSE, fmt).good
    BY <1>1, <2>1, BadStays
  <2> QED
    BY <2>2 DEF R!WellFormed
<1>4. "%" \in Token /\ R!Value \in Token
  BY SomeTokens
<1> HIDE DEF d, f
<1>5. \A t \in Token : /\ R!Emit(d, t).level = pad_level
                       /\ R!Emit(d, t).read = "text" /\ R!Emit(d, t).good
  BY <1>1, <1>2, EmitIs
<1>6. CASE at = "text"
  <2>1. d.read = "text"
    BY <1>2, <1>6
  <2>2. CASE Rune = "%"
    <3>1. f = [d EXCEPT !.read = "%"]
      BY <1>1, <1>2, <2>1, <2>2, ReadIs
    <3>2. f.good /\ f.level = pad_level /\ f.read = "%"
      BY <1>1, <1>2, <3>1 DEF RenderState
    <3> QED
      BY <1>6, <2>2, <3>2 DEF f
  <2>3. CASE Rune # "%"
    <3>1. f = R!Emit(d, Rune)
      BY <1>1, <1>2, <2>1, <2>3, ReadIs
    <3>2. f.good /\ f.level = pad_level /\ f.read = "text"
      BY <1>1, <1>5, <3>1
    <3> QED
      BY <1>6, <2>3, <3>2 DEF f
  <2> QED
    BY <2>2, <2>3
<1>7. CASE at # "text"
  <2>1. d.read = "%"
    BY <1>2, <1>7
  <2>2. Rune \in {"%", "s", "v", "d", "u"} =>
          f.good /\ f.level = pad_level /\ f.read = "text"
    <3>1. Rune \in {"%", "s", "v", "d", "u"} =>
            f = R!Emit(d, "%") \/ f = R!Emit(d, R!Value)
      BY <1>1, <1>2, <2>1, ReadIs
    <3> QED
      BY <1>4, <1>5, <3>1
  <2>3. Rune = "+" => f.good /\ f.level = pad_level + 1 /\ f.read = "text"
    <3>1. Rune = "+" => f = [d EXCEPT !.level = @ + 1, !.read = "text"]
      BY <1>1, <1>2, <2>1, ReadIs
    <3> QED
      BY <1>1, <1>2, <3>1 DEF RenderState
  <2>4. Rune = "-" /\ pad_level > 0 =>
          f.good /\ f.level = pad_level - 1 /\ f.read = "text"
    <3>1. Rune = "-" /\ pad_level > 0 =>
            f = [d EXCEPT !.level = @ - 1, !.read = "text"]
      BY <1>1, <1>2, <2>1, ReadIs
    <3> QED
      BY <1>1, <1>2, <3>1 DEF RenderState
  <2>5. (Rune = "-" /\ pad_level = 0) \/
          Rune \notin {"%", "+", "-", "s", "v", "d", "u", "l"} => ~f.good
    <3>1. pad_level = 0 => ~(d.level > 0)
      BY <1>2
    <3>2. Rune = "-" /\ pad_level = 0 => f = [d EXCEPT !.good = FALSE]
      BY <1>1, <1>2, <2>1, <3>1, ReadIs
    <3>3. Rune \notin {"%", "+", "-", "s", "v", "d", "u", "l"} =>
            f = [d EXCEPT !.good = FALSE]
      BY <1>1, <1>2, <2>1, ReadIs
    <3>4. ~[d EXCEPT !.good = FALSE].good
      BY <1>1 DEF RenderState
    <3> QED
      BY <3>2, <3>3, <3>4
  <2> QED
    BY <1>3, <1>7, <2>2, <2>3, <2>4, <2>5 DEF f
<1> QED
  BY <1>6, <1>7

\* After the step, seen from before it.
LEMMA GoesOn ==
    ASSUME Same, ret' = "running", NEW k, e_fmt_str' = k
    PROVE  /\ /\ at' = "text"
              /\ Taken(k) = IF fmt_str' = k THEN "none" ELSE "waiting"
              /\ Meant(k) = Line(Now', SubSeq(fmt, fmt_str' + 1, k))
              /\ Direct(k).good /\ Direct(k).level = pad_level'
              /\ Direct(k).read = "text"
              => Outcome
           /\ /\ at' = "directive"
              /\ \/ /\ Taken(k) = "directive"
                    /\ k > 0 /\ fmt_str' = k - 1 /\ fmt[k] = "%"
                 \/ Taken(k) = "after_text" /\ fmt_str' = k
              /\ Meant(k) = [Now' EXCEPT !.read = "%"]
              /\ Direct(k).good /\ Direct(k).level = pad_level'
              /\ Direct(k).read = "%"
              => Outcome
<1>1. /\ Taken(e_fmt_str)' = Taken(k) /\ Meant(e_fmt_str)' = Meant(k)
      /\ Direct(e_fmt_str)' = Direct(k)
      /\ Pending(e_fmt_str)' = SubSeq(fmt, fmt_str' + 1, k)
      /\ fmt' = fmt
  BY DEF Same, Taken, Meant, Direct, Pending
<1> QED
  BY <1>1, Zenon DEF Outcome, FollowsText, FollowsSign, Directly

\* The loop, of a plain string.
Going == /\ R!Plain(fmt)
         /\ Directly
         /\ at = "text" => FollowsText
         /\ at = "directive" => FollowsSign

LEMMA NowIs ==
    ASSUME FInv, out \in Seq(Token)
    PROVE  /\ Now \in RenderState /\ Now.out = out /\ Now.level = pad_level
           /\ Now.padded = is_line_padded /\ Now.read = "text" /\ Now.good
           /\ Line(Now, <<>>) = Now
<1>1. LineInv
  BY DEF FInv
<1> QED
  BY <1>1, WithIs DEF Now, Line

LEMMA PendingMore ==
    ASSUME FInv, ~AtEnd
    PROVE  /\ Pending(e_fmt_str) \in Seq(Token)
           /\ Pending(e_fmt_str + 1) \in Seq(Token)
           /\ Pending(e_fmt_str + 1) = Pending(e_fmt_str) \o <<Rune>>
           /\ Pending(e_fmt_str + 1) # <<>>
           /\ Pending(e_fmt_str) = <<>> <=> fmt_str = e_fmt_str
<1>1. /\ fmt \in Seq(Token) /\ Len(fmt) \in Nat /\ e_fmt_str \in 0..Len(fmt)
      /\ fmt_str \in 0..e_fmt_str /\ Reading
  BY StringIs DEF FInv
<1>2. /\ e_fmt_str + 1 \in (fmt_str + 1)..Len(fmt)
      /\ e_fmt_str + 1 \in fmt_str..Len(fmt) /\ e_fmt_str \in fmt_str..Len(fmt)
      /\ fmt_str + 1 \in 1..Len(fmt)
      /\ e_fmt_str + 1 > fmt_str /\ (e_fmt_str + 1) - 1 = e_fmt_str
  BY <1>1 DEF AtEnd
<1>3. /\ Pending(e_fmt_str) \in Seq(Token)
      /\ Pending(e_fmt_str + 1) \in Seq(Token)
      /\ Pending(e_fmt_str + 1) # <<>>
      /\ e_fmt_str > fmt_str => Pending(e_fmt_str) # <<>>
  BY <1>1, <1>2, PendingIs
<1>4. Pending(e_fmt_str + 1) = Pending(e_fmt_str) \o <<Rune>>
  <2> DEFINE k == e_fmt_str + 1
  <2>1. Rune = fmt[k] /\ k - 1 = e_fmt_str
    BY <1>2 DEF Rune
  <2>2. k \in (fmt_str + 1)..Len(fmt)
    BY <1>2
  <2> HIDE DEF k
  <2>3. SubSeq(fmt, fmt_str + 1, k) =
          SubSeq(fmt, fmt_str + 1, k - 1) \o <<fmt[k]>>
    BY <1>1, <1>2, <2>2, SubSeqRecursiveSecond
  <2> QED
    BY <2>1, <2>3 DEF k, Pending
<1>5. fmt_str = e_fmt_str => Pending(e_fmt_str) = <<>>
  BY <1>1, SubSeqEmpty DEF Pending
<1> QED
  BY <1>1, <1>3, <1>4, <1>5

\* A rune of text, once it is read.
LEMMA MeantText ==
    ASSUME FInv, out \in Seq(Token), ~AtEnd, Going, at = "text", Rune # "%"
    PROVE  /\ Taken(e_fmt_str + 1) =
                IF Rune = R!Newline THEN "none" ELSE "waiting"
           /\ Rune # R!Newline =>
                Meant(e_fmt_str + 1) = Line(Now, Pending(e_fmt_str + 1))
           /\ Rune = R!Newline =>
                Meant(e_fmt_str + 1) =
                  [Line(Now, Pending(e_fmt_str + 1)) EXCEPT !.padded = FALSE]
<1> DEFINE p == Pending(e_fmt_str)
           q == Pending(e_fmt_str + 1)
<1>1. /\ p \in Seq(Token) /\ q = p \o <<Rune>>
      /\ Rune \in Token
  BY PendingMore, NextRune
<1>2. /\ Taken(e_fmt_str) \in Between
      /\ Meant(e_fmt_str) = Line(Now, p)
  BY DEF Going, FollowsText, Between
<1>3. /\ Now \in RenderState /\ Now.read = "text" /\ Now.good
  BY NowIs
<1>4. Meant(e_fmt_str + 1) = R!ReadRune(Line(Now, p), Rune)
  BY <1>2, NextRune DEF Between
<1>5. Taken(e_fmt_str + 1) = IF Rune = R!Newline THEN "none" ELSE "waiting"
  BY <1>2, NextRune
<1> HIDE DEF p, q
<1>6. /\ Line(Now, p) \in RenderState /\ Line(Now, p).read = "text"
      /\ Line(Now, p).good
  BY <1>1, <1>3, LineIs
<1>7. R!ReadRune(Line(Now, p), Rune) = R!Emit(Line(Now, p), Rune)
  BY <1>1, <1>6, ReadIs
<1>8. /\ Rune # R!Newline => R!Emit(Line(Now, p), Rune) = Line(Now, q)
      /\ Rune = R!Newline =>
           R!Emit(Line(Now, p), Rune) = [Line(Now, q) EXCEPT !.padded = FALSE]
  BY <1>1, <1>3, LineMore
<1> QED
  BY <1>4, <1>5, <1>7, <1>8 DEF q

LEMMA TextGoes ==
    ASSUME FInv, out \in Seq(Token), Going, ReadText
    PROVE  Outcome
<1> DEFINE k == e_fmt_str + 1
<1>1. /\ ~AtEnd /\ at = "text" /\ Rune # "%" /\ Rune # R!Newline /\ Same
      /\ e_fmt_str' = k /\ fmt_str' = fmt_str /\ at' = "text"
      /\ ret' = "running" /\ pad_level' = pad_level
  BY DEF ReadText, AtText, Quiet, Same, R!Newline
<1>2. Now' = Now
  BY DEF ReadText, Quiet, Now, With
<1>3. Taken(k) = "waiting" /\ Meant(k) = Line(Now, Pending(k))
  BY <1>1, MeantText
<1>4. /\ Direct(k).good /\ Direct(k).level = pad_level
      /\ Direct(k).read = "text"
  BY <1>1, DirectRune DEF Going
<1>5. fmt_str' # k
  BY <1>1, StringIs
<1>6. Meant(k) = Line(Now', SubSeq(fmt, fmt_str' + 1, k))
  BY <1>1, <1>2, <1>3 DEF Pending
<1> HIDE DEF k
<1> QED
  BY <1>1, <1>3, <1>4, <1>5, <1>6, GoesOn

\* The loop has written all up to k.
LEMMA AllWritten ==
    ASSUME FInv, Same, ret' = "running", at' = "text",
           NEW k \in 0..Len(fmt), e_fmt_str' = k, fmt_str' = k,
           Taken(k) = "none", Meant(k) = Now',
           Direct(k).good, Direct(k).level = pad_level',
           Direct(k).read = "text"
    PROVE  Outcome
<1>1. SubSeq(fmt, fmt_str' + 1, k) = <<>>
  <2>1. fmt \in Seq(Token) /\ k \in Int /\ fmt_str' + 1 > k
    BY StringIs
  <2> QED
    BY <2>1, SubSeqEmpty
<1>2. Meant(k) = Line(Now', SubSeq(fmt, fmt_str' + 1, k))
  BY <1>1 DEF Line
<1> QED
  BY <1>2, GoesOn

LEMMA NewlineGoes ==
    ASSUME FInv, out \in Seq(Token), Going, ReadNewline
    PROVE  Outcome
<1> DEFINE k == e_fmt_str + 1
           q == Pending(k)
<1>1. /\ ~AtEnd /\ at = "text" /\ Rune = R!Newline /\ Rune # "%" /\ Same
      /\ e_fmt_str' = k /\ fmt_str' = k /\ at' = "text"
      /\ \/ Give(out, q) /\ is_line_padded' = FALSE /\ ret' = "running"
         \/ Fail(out, q)
  BY DEF ReadNewline, AtText, Same, R!Newline, Advance
<1>2. Taken(k) = "none" /\ Meant(k) = [Line(Now, q) EXCEPT !.padded = FALSE]
  BY <1>1, MeantText
<1>3. /\ q \in Seq(Token) /\ q # <<>> /\ k \in 0..Len(fmt) /\ LineInv
  BY <1>1, PendingMore, NextRune DEF FInv
<1> HIDE DEF q
<1>4. CASE Give(out, q) /\ is_line_padded' = FALSE /\ ret' = "running"
  <2>1. Meant(k) = Now'
    BY <1>2, <1>3, <1>4, GiveWrites DEF Now
  <2>2. pad_level' = pad_level
    BY <1>4 DEF Give
  <2>3. R!Newline # "%"
    BY DEF R!Newline
  <2>4. /\ Direct(k).good /\ Direct(k).level = pad_level'
        /\ Direct(k).read = "text"
    BY <1>1, <2>2, <2>3, DirectRune DEF Going
  <2> HIDE DEF k
  <2> QED
    BY <1>1, <1>2, <1>3, <1>4, <2>1, <2>4, AllWritten
<1>5. CASE Fail(out, q)
  <2>1. ret' = "target" /\ IsPrefix(out', Line(Now, q).out)
    BY <1>3, <1>5, FailWrites DEF Now
  <2>2. Meant(k).out = Line(Now, q).out
    <3>1. Line(Now, q) \in RenderState
      BY <1>3, NowIs, LineIs
    <3> QED
      BY <1>2, <3>1 DEF RenderState
  <2> QED
    BY <1>3, <2>1, <2>2 DEF Outcome
<1> QED
  BY <1>1, <1>4, <1>5

LEMMA PercentGoes ==
    ASSUME FInv, out \in Seq(Token), Going, ReadPercent
    PROVE  Outcome
<1> DEFINE k == e_fmt_str + 1
           p == Pending(e_fmt_str)
<1>1. /\ ~AtEnd /\ at = "text" /\ Rune = "%" /\ Same
      /\ e_fmt_str' = k /\ at' = "directive"
  BY DEF ReadPercent, AtText, Same, Advance
<1>2. /\ Taken(e_fmt_str) = IF p = <<>> THEN "none" ELSE "waiting"
      /\ Meant(e_fmt_str) = Line(Now, p)
      /\ Taken(e_fmt_str) \in Between
  BY <1>1, PendingMore DEF Going, FollowsText, Between
<1>3. Taken(k) = IF p = <<>> THEN "directive" ELSE "after_text"
  BY <1>1, <1>2, NextRune
<1>4. /\ p \in Seq(Token) /\ (p = <<>> <=> fmt_str = e_fmt_str)
      /\ k \in 0..Len(fmt) /\ e_fmt_str \in 0..Len(fmt)
      /\ e_fmt_str \in Nat /\ "%" \in Token /\ LineInv
  BY <1>1, PendingMore, NextRune, StringIs, SomeTokens DEF FInv
<1>5. /\ Direct(k).good /\ Direct(k).level = pad_level /\ Direct(k).read = "%"
  BY <1>1, DirectRune DEF Going
<1>6. fmt[k] = "%" /\ k > 0 /\ k - 1 = e_fmt_str
  BY <1>1, <1>4 DEF Rune
<1>7. /\ Now \in RenderState /\ Now.read = "text" /\ Now.good
      /\ Line(Now, <<>>) = Now
  BY NowIs
<1>8. Meant(k) = R!ReadRune(Line(Now, p), "%")
  BY <1>1, <1>2, NextRune DEF Between
<1> HIDE DEF p, k
<1>9. Meant(k) = [Line(Now, p) EXCEPT !.read = "%"]
  <2>1. /\ Line(Now, p) \in RenderState /\ Line(Now, p).read = "text"
        /\ Line(Now, p).good
    BY <1>4, <1>7, LineIs
  <2> QED
    BY <1>4, <1>8, <2>1, ReadIs
<1>10. CASE p = <<>>
  <2>1. fmt_str' = e_fmt_str /\ ret' = "running" /\ Quiet
    BY <1>1, <1>4, <1>10 DEF ReadPercent, AtText, p
  <2>2. Now' = Now /\ pad_level' = pad_level
    BY <2>1 DEF Quiet, Now, With
  <2>3. Meant(k) = [Now' EXCEPT !.read = "%"]
    BY <1>7, <1>9, <1>10, <2>2
  <2> QED
    BY <1>1, <1>3, <1>5, <1>6, <1>10, <2>1, <2>2, <2>3, GoesOn
<1>11. CASE p # <<>>
  <2>1. /\ fmt_str' = k
        /\ \/ Give(out, p) /\ is_line_padded' = TRUE /\ ret' = "running"
           \/ Fail(out, p)
    BY <1>1, <1>11 DEF ReadPercent, AtText, Advance, p, k
  <2>2. CASE Give(out, p) /\ is_line_padded' = TRUE /\ ret' = "running"
    <3>1. Now' = Line(Now, p) /\ pad_level' = pad_level
      BY <1>4, <1>11, <2>2, GiveWrites DEF Now, Give
    <3>2. Meant(k) = [Now' EXCEPT !.read = "%"]
      BY <1>9, <3>1
    <3> QED
      BY <1>1, <1>3, <1>5, <1>11, <2>1, <2>2, <3>1, <3>2, GoesOn
  <2>3. CASE Fail(out, p)
    <3>1. ret' = "target" /\ IsPrefix(out', Line(Now, p).out)
      BY <1>4, <1>11, <2>3, FailWrites DEF Now
    <3> QED
      BY <1>2, <1>4, <3>1 DEF Outcome
  <2> QED
    BY <2>1, <2>2, <2>3
<1> QED
  BY <1>10, <1>11
-----------------------------------------------------------------------------
(* After a percent sign.                                                   *)

\* The sign has been read: any rune that prints makes the token a text.
LEMMA SignThen ==
    ASSUME NEW st \in RenderState, st.read = "text", st.good, NEW t \in Token
    PROVE  /\ [st EXCEPT !.read = "%"] \in RenderState
           /\ [st EXCEPT !.read = "%"].read = "%"
           /\ [st EXCEPT !.read = "%"].good
           /\ [st EXCEPT !.read = "%"].level = st.level
           /\ [st EXCEPT !.read = "%"].out = st.out
           /\ t # R!Newline =>
                R!Emit([st EXCEPT !.read = "%"], t) = Line(st, <<t>>)
<1> DEFINE p == [st EXCEPT !.read = "%"]
           a == R!Emit(p, t)
           b == R!Emit(st, t)
<1>1. /\ p \in RenderState /\ p.out = st.out /\ p.level = st.level
      /\ p.padded = st.padded /\ p.read = "%" /\ p.good = st.good
  BY DEF RenderState
<1> HIDE DEF p
<1>2. R!Padding(p) = R!Padding(st)
  BY <1>1 DEF R!Padding
<1>3. /\ a \in RenderState /\ a.out = (p.out \o R!Padding(p)) \o <<t>>
      /\ a.level = p.level /\ a.padded = (t # R!Newline) /\ a.read = "text"
      /\ a.good = p.good
  BY <1>1, EmitIs
<1>4. /\ b \in RenderState /\ b.out = (st.out \o R!Padding(st)) \o <<t>>
      /\ b.level = st.level /\ b.padded = (t # R!Newline) /\ b.read = "text"
      /\ b.good = st.good
  BY EmitIs
<1> HIDE DEF a, b
<1>5. a.out = b.out /\ a.padded = b.padded
  BY <1>1, <1>2, <1>3, <1>4
<1>6. a = b
  BY <1>1, <1>3, <1>4, <1>5, SameState
<1>7. t # R!Newline => b = Line(st, <<t>>)
  <2>1. <<>> \in Seq(Token) /\ Line(st, <<>>) = st /\ <<>> \o <<t>> = <<t>>
    <3>1. <<t>> \in Seq(Token)
      OBVIOUS
    <3> QED
      BY <3>1, EmptySeq, ConcatEmptySeq DEF Line
  <2>2. t # R!Newline => R!Emit(Line(st, <<>>), t) = Line(st, <<>> \o <<t>>)
    BY <2>1, LineMore
  <2> QED
    BY <2>1, <2>2 DEF b
<1> QED
  BY <1>1, <1>6, <1>7 DEF p, a

\* A directive: where the loop is, in what the string means.
LEMMA SignIs ==
    ASSUME FInv, out \in Seq(Token), Going, at = "directive"
    PROVE  /\ Taken(e_fmt_str) \in {"directive", "after_text"}
           /\ Meant(e_fmt_str) \in RenderState
           /\ Meant(e_fmt_str) = [Now EXCEPT !.read = "%"]
           /\ Meant(e_fmt_str).read = "%" /\ Meant(e_fmt_str).good
           /\ Meant(e_fmt_str).level = pad_level
           /\ Meant(e_fmt_str).out = out
           /\ \A t \in Token : t # R!Newline =>
                R!Emit(Meant(e_fmt_str), t) = Line(Now, <<t>>)
<1>1. /\ Taken(e_fmt_str) \in {"directive", "after_text"}
      /\ Meant(e_fmt_str) = [Now EXCEPT !.read = "%"]
  BY DEF Going, FollowsSign
<1>2. /\ Now \in RenderState /\ Now.out = out /\ Now.level = pad_level
      /\ Now.read = "text" /\ Now.good /\ "%" \in Token
  BY NowIs, SomeTokens
<1> DEFINE m == [Now EXCEPT !.read = "%"]
<1>3. /\ m \in RenderState /\ m.read = "%" /\ m.good /\ m.level = Now.level
      /\ m.out = Now.out
      /\ \A t \in Token : t # R!Newline => R!Emit(m, t) = Line(Now, <<t>>)
  BY <1>2, SignThen
<1> HIDE DEF m
<1> QED
  BY <1>1, <1>2, <1>3 DEF m

\* Both signs of a "%%" that comes when no text waits.
LEMMA BothSigns ==
    ASSUME NEW st \in RenderState, st.read = "text", st.good
    PROVE  LET p == [st EXCEPT !.read = "%"] IN
           R!ReadRune(R!ReadRune(R!ReadRune(p, "%"), "%"), "%") =
             Line(st, <<"%", "%">>)
<1> DEFINE t == "%"
           p == [st EXCEPT !.read = "%"]
           a == Line(st, <<t>>)
           b == [a EXCEPT !.read = "%"]
<1>1. t \in Token /\ t # R!Newline /\ <<t>> \in Seq(Token)
  <2>1. t \in Token /\ t # R!Newline
    BY SomeTokens DEF R!Newline
  <2> QED
    BY <2>1, One
<1> HIDE DEF t
<1>2. R!ReadRune(p, t) = a
  <2>1. p \in RenderState /\ p.read = "%" /\ p.good /\ R!Emit(p, t) = a
    BY <1>1, SignThen
  <2> HIDE DEF p, a
  <2>2. R!ReadRune(p, t) = R!Emit(p, "%")
    BY <1>1, <2>1, ReadIs DEF t
  <2> QED
    BY <2>1, <2>2 DEF t
<1>3. a \in RenderState /\ a.read = "text" /\ a.good
  BY <1>1, LineIs
<1>4. R!ReadRune(a, t) = b
  <2> HIDE DEF a
  <2> QED
    BY <1>1, <1>3, ReadIs DEF t
<1>5. R!ReadRune(b, t) = Line(a, <<t>>)
  <2> HIDE DEF a
  <2>1. /\ b \in RenderState /\ b.read = "%" /\ b.good
        /\ R!Emit(b, t) = Line(a, <<t>>)
    BY <1>1, <1>3, SignThen
  <2> HIDE DEF b
  <2>2. R!ReadRune(b, t) = R!Emit(b, "%")
    BY <1>1, <2>1, ReadIs DEF t
  <2> QED
    BY <2>1, <2>2 DEF t
<1>6. Line(a, <<t>>) = Line(st, <<t>> \o <<t>>)
  <2>1. R!Emit(a, t) = Line(st, <<t>> \o <<t>>)
    BY <1>1, LineMore
  <2>2. R!Emit(a, t) = Line(a, <<t>>)
    <3>1. /\ <<>> \in Seq(Token) /\ <<>> \o <<t>> = <<t>> /\ Line(a, <<>>) = a
      BY <1>1, EmptySeq, ConcatEmptySeq DEF Line
    <3> HIDE DEF a
    <3>2. R!Emit(Line(a, <<>>), t) = Line(a, <<>> \o <<t>>)
      BY <1>1, <1>3, <3>1, LineMore
    <3> QED
      BY <3>1, <3>2
  <2> QED
    BY <2>1, <2>2
<1>7. <<t>> \o <<t>> = <<t, t>>
  <2> DEFINE u == <<t>> \o <<t>>
  <2>1. /\ u \in Seq(Token) /\ Len(u) = 2
        /\ \A k \in 1..2 : u[k] = IF k <= 1 THEN <<t>>[k] ELSE <<t>>[k - 1]
    <3>1. Len(<<t>>) = 1
      OBVIOUS
    <3> QED
      BY <1>1, <3>1, ConcatProperties
  <2>2. /\ \A k \in 1..1 : <<t>>[k] = t
        /\ <<t, t>> \in Seq(Token) /\ Len(<<t, t>>) = 2
        /\ \A k \in 1..2 : <<t, t>>[k] = t
    BY <1>1
  <2> HIDE DEF u
  <2>3. \A k \in 1..2 : u[k] = <<t, t>>[k]
    BY <2>1, <2>2
  <2>4. u = <<t, t>>
    BY <2>1, <2>2, <2>3, SeqEqual
  <2> QED
    BY <2>4 DEF u
<1> HIDE DEF a, b, p
<1> QED
  BY <1>2, <1>4, <1>5, <1>6, <1>7 DEF t, p

LEMMA PercentAgain ==
    ASSUME FInv, out \in Seq(Token), Going, Percent
    PROVE  Outcome
<1> DEFINE k == e_fmt_str + 1
<1>1. /\ ~AtEnd /\ at = "directive" /\ Rune = "%" /\ Same
      /\ e_fmt_str' = k /\ fmt_str' = fmt_str /\ at' = "text"
      /\ ret' = "running" /\ pad_level' = pad_level
  BY DEF Percent, AtDirective, Quiet, Same
<1>2. Now' = Now
  BY DEF Percent, Quiet, Now, With
<1>3. /\ Direct(k).good /\ Direct(k).level = pad_level
      /\ Direct(k).read = "text"
  BY <1>1, DirectRune DEF Going
<1>4. /\ Taken(e_fmt_str) \in {"directive", "after_text"}
      /\ Meant(e_fmt_str) = [Now EXCEPT !.read = "%"]
      /\ Meant(e_fmt_str) \in RenderState
      /\ Meant(e_fmt_str).read = "%" /\ Meant(e_fmt_str).good
      /\ \A t \in Token : t # R!Newline =>
            R!Emit(Meant(e_fmt_str), t) = Line(Now, <<t>>)
  BY <1>1, SignIs
<1>5. Taken(k) = "waiting"
  BY <1>1, <1>4, NextRune
<1>6. /\ fmt \in Seq(Token) /\ Len(fmt) \in Nat /\ e_fmt_str \in 0..Len(fmt)
      /\ e_fmt_str \in Nat /\ fmt_str \in Nat /\ fmt_str \in 0..e_fmt_str
      /\ "%" \in Token /\ "%" # R!Newline /\ k \in 1..Len(fmt)
      /\ fmt[k] = "%" /\ k - 1 = e_fmt_str
  BY <1>1, StringIs, SomeTokens DEF R!Newline, AtEnd, Rune
<1>7. /\ Now \in RenderState /\ Now.read = "text" /\ Now.good
  BY NowIs
<1> DEFINE two == <<"%", "%">>
           one == <<"%">>
<1>8. Meant(k) = Line(Now, SubSeq(fmt, fmt_str + 1, k)) /\ fmt_str # k
  <2>1. CASE Taken(e_fmt_str) = "directive"
    <3>1. e_fmt_str > 0 /\ fmt_str = e_fmt_str - 1 /\ fmt[e_fmt_str] = "%"
      BY <1>1, <2>1 DEF Going, FollowsSign
    <3>2. Meant(k) = Line(Now, two)
      <4>1. Meant(k) =
              R!ReadRune(R!ReadRune(R!ReadRune(Meant(e_fmt_str), "%"), "%"),
                         "%")
        BY <1>1, <2>1, NextRune
      <4> QED
        BY <1>4, <1>7, <4>1, BothSigns
    <3>3. SubSeq(fmt, fmt_str + 1, k) = two
      <4>1. fmt_str + 1 = e_fmt_str /\ e_fmt_str \in 1..(Len(fmt) - 1)
        BY <1>6, <3>1
      <4> QED
        BY <1>6, <3>1, <4>1, TwoRunes
    <3>4. fmt_str # k
      BY <1>6, <3>1
    <3> HIDE DEF two, k
    <3> QED
      BY <3>2, <3>3, <3>4
  <2>2. CASE Taken(e_fmt_str) = "after_text"
    <3>1. fmt_str = e_fmt_str
      BY <1>1, <2>2 DEF Going, FollowsSign
    <3>2. Meant(k) = Line(Now, one)
      <4>1. Meant(k) = R!ReadRune(Meant(e_fmt_str), "%")
        BY <1>1, <2>2, NextRune
      <4>2. R!ReadRune(Meant(e_fmt_str), "%") = R!Emit(Meant(e_fmt_str), "%")
        BY <1>4, <1>6, ReadIs
      <4> QED
        BY <1>4, <1>6, <4>1, <4>2
    <3>3. SubSeq(fmt, fmt_str + 1, k) = one
      <4>1. fmt_str + 1 = k
        BY <3>1
      <4> HIDE DEF k
      <4> QED
        BY <1>6, <4>1, OneRune
    <3>4. fmt_str # k
      BY <1>6, <3>1
    <3> HIDE DEF one, k
    <3> QED
      BY <3>2, <3>3, <3>4
  <2> QED
    BY <1>4, <2>1, <2>2
<1> HIDE DEF k
<1> QED
  BY <1>1, <1>2, <1>3, <1>5, <1>8, GoesOn

LEMMA LevelGoes ==
    ASSUME FInv, out \in Seq(Token), Going, Level
    PROVE  Outcome
<1> DEFINE k == e_fmt_str + 1
           m == Meant(e_fmt_str)
<1>1. /\ ~AtEnd /\ at = "directive" /\ Same /\ Rune \in {"+", "-"}
      /\ e_fmt_str' = k /\ fmt_str' = k /\ at' = "text"
      /\ \/ Rune = "+" /\ pad_level' = pad_level + 1 /\ ret' = "running"
         \/ /\ Rune = "-" /\ pad_level > 0
            /\ pad_level' = pad_level - 1 /\ ret' = "running"
         \/ Rune = "-" /\ pad_level = 0 /\ ret' = "panic"
      /\ out' = out /\ is_line_padded' = is_line_padded
  BY DEF Level, AtDirective, Advance, Same
<1>2. /\ Taken(e_fmt_str) \in {"directive", "after_text"}
      /\ m = [Now EXCEPT !.read = "%"]
      /\ m \in RenderState /\ m.read = "%" /\ m.good /\ m.level = pad_level
  BY <1>1, SignIs
<1>3. Taken(k) = "none" /\ k \in 0..Len(fmt) /\ Rune \in Token
  BY <1>1, <1>2, NextRune
<1>4. Meant(k) = R!ReadRune(m, Rune)
  BY <1>1, <1>2, NextRune
<1>5. Now = [out |-> out, level |-> pad_level, padded |-> is_line_padded,
             read |-> "text", good |-> TRUE]
  BY DEF Now, With
<1>6. Now' = [out |-> out', level |-> pad_level', padded |-> is_line_padded',
              read |-> "text", good |-> TRUE]
  BY DEF Now, With
<1>7. \A l \in Nat : [m EXCEPT !.level = l, !.read = "text"] =
               [out |-> out, level |-> l, padded |-> is_line_padded,
                read |-> "text", good |-> TRUE]
  <2> SUFFICES ASSUME NEW l \in Nat
               PROVE  [m EXCEPT !.level = l, !.read = "text"] =
                        [out |-> out, level |-> l, padded |-> is_line_padded,
                         read |-> "text", good |-> TRUE]
    OBVIOUS
  <2> DEFINE c == [m EXCEPT !.level = l, !.read = "text"]
             d == [out |-> out, level |-> l, padded |-> is_line_padded,
                   read |-> "text", good |-> TRUE]
  <2>1. m.out = out /\ m.padded = is_line_padded
    <3>1. m = [Now EXCEPT !.read = "%"] /\ Now \in RenderState
          /\ Now.out = out /\ Now.padded = is_line_padded
      BY <1>2, NowIs
    <3> HIDE DEF m
    <3> QED
      BY <3>1 DEF RenderState
  <2>2. is_line_padded \in BOOLEAN
    BY StringIs
  <2>3. d \in RenderState /\ d.out = out /\ d.level = l
        /\ d.padded = is_line_padded /\ d.read = "text" /\ d.good
    BY <2>2 DEF RenderState
  <2> HIDE DEF m, d
  <2>4. c \in RenderState /\ c.out = m.out /\ c.level = l
        /\ c.padded = m.padded /\ c.read = "text" /\ c.good
    BY <1>2 DEF RenderState
  <2>5. c.good = d.good
    BY <2>3, <2>4 DEF RenderState
  <2> HIDE DEF c
  <2>6. c = d
    BY <2>1, <2>3, <2>4, <2>5, SameState
  <2> QED
    BY <2>6 DEF c, d
<1>8. CASE ret' = "running"
  <2>1. /\ Direct(k).good /\ Direct(k).level = pad_level'
        /\ Direct(k).read = "text"
    BY <1>1, <1>8, DirectRune DEF Going
  <2>2. R!ReadRune(m, Rune) = [m EXCEPT !.level = pad_level', !.read = "text"]
    <3> HIDE DEF m
    <3>1. Rune = "+" =>
            R!ReadRune(m, Rune) = [m EXCEPT !.level = @ + 1, !.read = "text"]
      BY <1>2, <1>3, ReadIs
    <3>2. Rune = "-" /\ pad_level > 0 =>
            R!ReadRune(m, Rune) = [m EXCEPT !.level = @ - 1, !.read = "text"]
      BY <1>2, <1>3, ReadIs
    <3> QED
      BY <1>1, <1>2, <1>8, <3>1, <3>2
  <2>3. Meant(k) = Now'
    <3>1. pad_level' \in Nat
      BY <1>1, <1>8, StringIs
    <3> HIDE DEF m
    <3> QED
      BY <1>1, <1>4, <1>6, <1>7, <2>2, <3>1
  <2> HIDE DEF k
  <2> QED
    BY <1>1, <1>3, <1>8, <2>1, <2>3, AllWritten
<1>9. CASE ret' = "panic"
  <2>1. Rune = "-" /\ pad_level = 0
    BY <1>1, <1>9
  <2>2. ~R!WellFormed(start.level, fmt)
    BY <1>1, <2>1, DirectRune DEF Going
  <2> QED
    BY <1>1, <1>9, <2>2 DEF Outcome
<1> QED
  BY <1>1, <1>8, <1>9

LEMMA DirectiveGoes ==
    ASSUME FInv, out \in Seq(Token), Going, Directive
    PROVE  Outcome
<1> DEFINE k == e_fmt_str + 1
           m == Meant(e_fmt_str)
           v == <<R!Value>>
<1>1. /\ ~AtEnd /\ at = "directive" /\ Same /\ Rune \in {"s", "v", "d", "u"}
      /\ e_fmt_str' = k /\ fmt_str' = k /\ at' = "text"
      /\ \/ Give(out, v) /\ is_line_padded' = TRUE /\ ret' = "running"
         \/ Fail(out, v)
  BY DEF Directive, AtDirective, Advance, Same, PrintValue
<1>2. /\ Taken(e_fmt_str) \in {"directive", "after_text"}
      /\ m \in RenderState /\ m.read = "%" /\ m.good
      /\ \A t \in Token : t # R!Newline => R!Emit(m, t) = Line(Now, <<t>>)
  BY <1>1, SignIs
<1>3. Taken(k) = "none" /\ k \in 0..Len(fmt) /\ Rune \in Token
  BY <1>1, <1>2, NextRune
<1>4. Meant(k) = R!ReadRune(m, Rune)
  BY <1>1, <1>2, NextRune
<1>5. /\ R!Value \in Token /\ R!Value # R!Newline /\ v \in Seq(Token)
      /\ v # <<>>
      /\ LineInv
  <2>1. R!Value \in Token /\ R!Value # R!Newline
    BY SomeTokens DEF R!Value, R!Newline
  <2>2. \A t \in Token : <<t>> \in Seq(Token) /\ <<t>> # <<>>
    <3>1. \A t \in Token : <<t>> \in Seq(Token) /\ Len(<<t>>) = 1
      OBVIOUS
    <3>2. Len(<<>>) = 0
      OBVIOUS
    <3> QED
      BY <3>1, <3>2
  <2> QED
    BY <2>1, <2>2 DEF FInv
<1>6. Meant(k) = Line(Now, v)
  <2>1. R!ReadRune(m, Rune) = R!Emit(m, R!Value)
    <3> HIDE DEF m
    <3> QED
      BY <1>1, <1>2, <1>3, ReadIs
  <2> QED
    BY <1>2, <1>4, <1>5, <2>1
<1> HIDE DEF v, m
<1>7. CASE Give(out, v) /\ is_line_padded' = TRUE /\ ret' = "running"
  <2>1. Now' = Line(Now, v) /\ pad_level' = pad_level
    BY <1>5, <1>7, GiveWrites DEF Now, Give
  <2>2. /\ Direct(k).good /\ Direct(k).level = pad_level
        /\ Direct(k).read = "text"
    BY <1>1, DirectRune DEF Going
  <2> HIDE DEF k
  <2> QED
    BY <1>1, <1>3, <1>6, <1>7, <2>1, <2>2, AllWritten
<1>8. CASE Fail(out, v)
  <2>1. ret' = "target" /\ IsPrefix(out', Line(Now, v).out)
    BY <1>5, <1>8, FailWrites DEF Now
  <2> QED
    BY <1>3, <1>6, <2>1 DEF Outcome
<1> QED
  BY <1>1, <1>7, <1>8

LEMMA StopGoes ==
    ASSUME FInv, out \in Seq(Token), Going,
           DirectiveLong \/ DirectiveUnknown \/ DirectiveMissing
    PROVE  Outcome
<1>1. CASE DirectiveLong
  <2>1. at = "directive" /\ ~AtEnd /\ Rune = "l"
    BY <1>1 DEF DirectiveLong, AtDirective
  <2>2. Taken(e_fmt_str) \in {"directive", "after_text"}
    BY <2>1, SignIs
  <2>3. Taken(e_fmt_str + 1) = "not_plain" /\ e_fmt_str + 1 \in 0..Len(fmt)
    BY <2>1, <2>2, NextRune
  <2>4. FALSE
    BY <2>3, StringIs, PlainThroughout DEF Going, Taken
  <2> QED
    BY <2>4
<1>2. CASE DirectiveUnknown
  <2>1. /\ at = "directive" /\ ~AtEnd /\ ret' = "format" /\ out' = out
        /\ Rune \notin {"%", "+", "-", "s", "v", "d", "u", "l"}
    BY <1>2 DEF DirectiveUnknown, AtDirective, Quiet
  <2>2. ~R!WellFormed(start.level, fmt)
    BY <2>1, DirectRune DEF Going
  <2> QED
    BY <2>1, <2>2 DEF Outcome
<1>3. CASE DirectiveMissing
  <2>1. /\ at = "directive" /\ e_fmt_str = Len(fmt) /\ ret' = "panic"
        /\ out' = out
    BY <1>3 DEF DirectiveMissing, AtDirective, AtEnd, Quiet
  <2>2. Direct(Len(fmt)).read = "%"
    BY <2>1 DEF Going, Directly
  <2>3. ~R!WellFormed(start.level, fmt)
    BY <2>2 DEF R!WellFormed, R!Rendered, Direct
  <2> QED
    BY <2>1, <2>3 DEF Outcome
<1> QED
  BY <1>1, <1>2, <1>3

LEMMA FinishGoes ==
    ASSUME FInv, out \in Seq(Token), Going, Finish
    PROVE  Outcome
<1> DEFINE p == Pending(e_fmt_str)
<1>1. /\ at = "text" /\ e_fmt_str = Len(fmt)
      /\ IF p = <<>> THEN Quiet /\ ret' = "OK"
         ELSE \/ Give(out, p) /\ is_line_padded' = TRUE /\ ret' = "OK"
              \/ Fail(out, p)
  BY DEF Finish, AtText, AtEnd
<1>2. Meant(Len(fmt)) = Line(Now, p)
  BY <1>1 DEF Going, FollowsText
<1>3. p \in Seq(Token) /\ LineInv /\ Len(fmt) \in 0..Len(fmt)
  <2>1. e_fmt_str \in fmt_str..Len(fmt) /\ Len(fmt) \in Nat
    BY StringIs
  <2> QED
    BY <2>1, PendingIs DEF FInv
<1> HIDE DEF p
<1>4. CASE p = <<>>
  <2>1. Now' = Now /\ ret' = "OK"
    BY <1>1, <1>4 DEF Quiet, Now, With
  <2> QED
    BY <1>2, <1>4, <2>1 DEF Outcome, Line
<1>5. CASE p # <<>> /\ Give(out, p) /\ is_line_padded' = TRUE /\ ret' = "OK"
  <2>1. Now' = Line(Now, p)
    BY <1>3, <1>5, GiveWrites DEF Now
  <2> QED
    BY <1>2, <1>5, <2>1 DEF Outcome
<1>6. CASE p # <<>> /\ Fail(out, p)
  <2>1. ret' = "target" /\ IsPrefix(out', Line(Now, p).out)
    BY <1>3, <1>6, FailWrites DEF Now
  <2> QED
    BY <1>2, <1>3, <2>1 DEF Outcome
<1> QED
  BY <1>1, <1>4, <1>5, <1>6

\* Every step of the loop.
LEMMA StepGoes ==
    ASSUME FInv, out \in Seq(Token), Going, Step
    PROVE  Outcome
BY TextGoes, NewlineGoes, PercentGoes, PercentAgain, LevelGoes, DirectiveGoes,
   StopGoes, FinishGoes DEF Step
-----------------------------------------------------------------------------
(* The invariant: what has been written.                                   *)

\* A beginning of what the string means; all of it, once the call is OK.
Right == /\ ret = "OK" => Now = Meant(Len(fmt))
         /\ \E n \in 0..Len(fmt) : IsPrefix(out, Meant(n).out)

LEMMA RightRenders ==
    ASSUME FInv, out \in Seq(Token), Right
    PROVE  PlainRenders
<1> DEFINE meaning == R!Rendered(start.level, start.padded, R!Rewritten(fmt))
<1>1. /\ fmt \in Seq(Token) /\ Len(fmt) \in Nat
      /\ start.level \in Nat /\ start.padded \in BOOLEAN
      /\ \A n \in 0..Len(fmt) : Meant(n) \in RenderState
  BY StringIs
<1>2. meaning = Meant(Len(fmt))
  BY <1>1, MeaningIs DEF Meant
<1> HIDE DEF meaning
<1>3. PICK n \in 0..Len(fmt) : IsPrefix(out, Meant(n).out)
  BY DEF Right
<1>4. Len(fmt) \in n..Len(fmt) /\ Len(fmt) \in 0..Len(fmt)
  BY <1>1
<1>5. IsPrefix(Meant(n).out, Meant(Len(fmt)).out)
  BY <1>1, <1>4, MeaningExtends DEF Meant
<1>6. Meant(n).out \in Seq(Token) /\ Meant(Len(fmt)).out \in Seq(Token)
  BY <1>1, <1>4 DEF RenderState
<1>7. IsPrefix(out, meaning.out)
  BY <1>2, <1>3, <1>5, <1>6, PrefixTrans
<1>8. ret = "OK" => /\ out = meaning.out /\ pad_level = meaning.level
                    /\ is_line_padded = meaning.padded /\ meaning.good
  <2>1. ret = "OK" => meaning = Now
    BY <1>2 DEF Right
  <2> QED
    BY <2>1, NowIs
<1>9. RendersAs(R!Rewritten(fmt))
  BY <1>7, <1>8 DEF RendersAs, meaning
<1> QED
  BY <1>9 DEF PlainRenders

LEMMA LineExtends ==
    ASSUME NEW st \in RenderState, NEW s \in Seq(Token)
    PROVE  IsPrefix(st.out, Line(st, s).out)
<1> DEFINE o == st.out
           p == R!Padding(st)
<1>1. o \in Seq(Token) /\ p \in Seq(Token) /\ <<>> \in Seq(Token)
  BY PaddingType, EmptySeq DEF RenderState
<1>2. CASE s = <<>>
  <2>1. Line(st, s).out = o
    BY <1>2, LineIs
  <2> HIDE DEF o
  <2>2. IsPrefix(o, o)
    BY <1>1, PrefixIs
  <2> QED
    BY <2>1, <2>2 DEF o
<1>3. CASE s # <<>>
  <2>1. Line(st, s).out = (o \o p) \o s
    BY <1>3, LineIs
  <2> HIDE DEF o, p
  <2>2. (o \o p) \o s = o \o (p \o s)
    BY <1>1, ConcatAssociative
  <2>3. p \o s \in Seq(Token)
    BY <1>1, ConcatProperties
  <2>4. IsPrefix(o, o \o (p \o s))
    BY <1>1, <2>3, PrefixIs
  <2>5. IsPrefix(o, Line(st, s).out)
    BY <2>1, <2>2, <2>4
  <2> QED
    BY <2>5 DEF o
<1> QED
  BY <1>2, <1>3

\* In the loop, too, what has been written is such a beginning.
LEMMA GoingWrites ==
    ASSUME FInv, out \in Seq(Token), Going
    PROVE  IsPrefix(out, Meant(e_fmt_str).out) /\ e_fmt_str \in 0..Len(fmt)
<1>1. Now \in RenderState /\ Now.out = out /\ e_fmt_str \in 0..Len(fmt)
  BY NowIs, StringIs
<1>2. CASE at = "text"
  <2> DEFINE p == Pending(e_fmt_str)
  <2>1. p \in Seq(Token)
    <3>1. e_fmt_str \in fmt_str..Len(fmt)
      BY StringIs
    <3> QED
      BY <3>1, PendingIs DEF FInv
  <2>2. Meant(e_fmt_str) = Line(Now, p)
    BY <1>2 DEF Going, FollowsText
  <2> HIDE DEF p
  <2> QED
    BY <1>1, <2>1, <2>2, LineExtends
<1>3. CASE at = "directive"
  <2>1. <<>> \in Seq(Token) /\ Meant(e_fmt_str).out = out
    BY <1>3, EmptySeq, SignIs
  <2> QED
    BY <1>1, <2>1, PrefixIs
<1> QED
  BY <1>2, <1>3 DEF FInv, Reading

LEMMA WritesTokens ==
    ASSUME LineInv, NEW before \in Seq(Token), NEW s \in Seq(Token),
           Give(before, s) \/ Fail(before, s)
    PROVE  out' \in Seq(Token)
<1>1. Padded(s) \in Seq(Token)
  BY PaddedType DEF LineInv
<1>2. CASE Give(before, s)
  BY <1>1, <1>2, ConcatProperties DEF Give
<1>3. CASE Fail(before, s)
  <2> DEFINE q == Padded(s)
  <2>1. PICK n \in 0..(Len(q) - 1) : out' = before \o SubSeq(q, 1, n)
    BY <1>3 DEF Fail
  <2>2. q \in Seq(Token) /\ Len(q) \in Nat
    BY <1>1, LenProperties
  <2> HIDE DEF q
  <2>3. \A k \in 1..n : q[k] \in Token
    BY <2>2, ElementOfSeq
  <2>4. SubSeq(q, 1, n) \in Seq(Token)
    BY <2>2, <2>3, SubSeqProperties
  <2> QED
    BY <2>1, <2>4, ConcatProperties
<1> QED
  BY <1>2, <1>3

LEMMA StepTokens ==
    ASSUME FInv, out \in Seq(Token), Step
    PROVE  out' \in Seq(Token) /\ Same
<1>1. Same
  BY DEF Step, ReadText, ReadNewline, ReadPercent, Percent, Level, Directive,
         DirectiveLong, DirectiveUnknown, DirectiveMissing, Finish, Same
<1>2. LineInv
  BY DEF FInv
<1>3. /\ ~AtEnd => /\ Pending(e_fmt_str) \in Seq(Token)
                   /\ Pending(e_fmt_str + 1) \in Seq(Token)
      /\ Pending(e_fmt_str) \in Seq(Token) /\ <<R!Value>> \in Seq(Token)
  <2>1. e_fmt_str \in fmt_str..Len(fmt) /\ R!Value \in Token
    BY StringIs, SomeTokens
  <2>2. <<R!Value>> \in Seq(Token)
    BY <2>1, One
  <2> QED
    BY <2>1, <2>2, PendingIs, PendingMore DEF FInv
<1>4. \/ out' = out
      \/ \E s \in Seq(Token) : Give(out, s) \/ Fail(out, s)
  <2>1. CASE \/ ReadText \/ Percent \/ Level
             \/ DirectiveUnknown \/ DirectiveMissing
    BY <2>1 DEF ReadText, Percent, Level, DirectiveUnknown, DirectiveMissing,
                Quiet
  <2>2. CASE ReadNewline
    BY <1>3, <2>2 DEF ReadNewline
  <2>3. CASE ReadPercent
    BY <1>3, <2>3 DEF ReadPercent, Quiet
  <2>4. CASE Directive \/ DirectiveLong
    BY <1>3, <2>4 DEF Directive, DirectiveLong, PrintValue, Quiet
  <2>5. CASE Finish
    BY <1>3, <2>5 DEF Finish, Quiet
  <2> QED
    BY <2>1, <2>2, <2>3, <2>4, <2>5 DEF Step
<1>5. out' \in Seq(Token)
  BY <1>2, <1>4, WritesTokens
<1> QED
  BY <1>1, <1>5

-----------------------------------------------------------------------------
(* The formatter's own calls.                                              *)

Following == ret = "running" /\ piece = "none" /\ R!Plain(fmt) => Going

Ended == ret # "running" => /\ R!Plain(fmt) => Right
                            /\ PlainSucceeds

LEMMA SameMeaning ==
    ASSUME Same
    PROVE  /\ \A n : Meant(n)' = Meant(n)
           /\ R!Plain(fmt)' = R!Plain(fmt)
           /\ Len(fmt)' = Len(fmt)
           /\ R!WellFormed(start.level, fmt)' = R!WellFormed(start.level, fmt)
BY DEF Same, Meant

LEMMA StepFollows ==
    ASSUME FInv, out \in Seq(Token), Following, FmtStep
    PROVE  Following' /\ Ended'
<1>1. Step /\ ret = "running" /\ piece = "none" /\ piece' = "none"
  BY StepKeeps DEF FmtStep
<1>2. Same
  BY <1>1, StepTokens
<1>3. CASE R!Plain(fmt)
  <2>1. Going
    BY <1>1, <1>3 DEF Following
  <2>2. Outcome
    BY <1>1, <2>1, StepGoes
  <2>3. R!Plain(fmt)'
    BY <1>2, <1>3, SameMeaning
  <2>4. ret' = "running" => Going'
    BY <2>2, <2>3, Zenon DEF Outcome, Going
  <2>5. ret' # "running" => Right'
    <3>1. Len(fmt)' = Len(fmt) /\ \A n : Meant(n)' = Meant(n)
      BY <1>2, SameMeaning
    <3>2. CASE ret' = "OK" /\ Now' = Meant(Len(fmt))
      <4> DEFINE m == Meant(Len(fmt))
      <4>1. out' \in Seq(Token) /\ Now'.out = out'
        BY <1>1, StepTokens DEF Now, With
      <4>2. <<>> \in Seq(Token) /\ Len(fmt) \in 0..Len(fmt)
        BY EmptySeq, StringIs
      <4>3. IsPrefix(out', out')
        BY <4>1, <4>2, PrefixIs
      <4>4. IsPrefix(out', m.out)
        BY <3>2, <4>1, <4>3
      <4>5. Now' = m
        BY <3>2
      <4>6. \E n \in 0..Len(fmt)' : IsPrefix(out', Meant(n)'.out)
        BY <3>1, <4>2, <4>4
      <4>7. Now' = Meant(Len(fmt))'
        BY <3>1, <4>5 DEF Same
      <4> QED
        BY <4>6, <4>7 DEF Right
    <3>3. CASE /\ ret' = "target"
               /\ \E n \in 0..Len(fmt) : IsPrefix(out', Meant(n).out)
      BY <3>1, <3>3 DEF Right
    <3>4. CASE ret' \in {"format", "panic"} /\ out' = out
      BY <2>1, <3>1, <3>4, GoingWrites DEF Right
    <3> QED
      BY <2>2, <3>2, <3>3, <3>4 DEF Outcome
  <2>6. ret' \in {"format", "panic"} => ~R!WellFormed(start.level, fmt)'
    BY <1>2, <2>2, SameMeaning DEF Outcome
  <2> QED
    BY <2>4, <2>5, <2>6 DEF Following, Ended, PlainSucceeds, WellFormedSucceeds
<1>4. CASE ~R!Plain(fmt)
  <2>1. ~R!Plain(fmt)'
    BY <1>2, <1>4, SameMeaning
  <2> QED
    BY <2>1 DEF Following, Ended, PlainSucceeds
<1> QED
  BY <1>3, <1>4

\* What a call begins with.
LEMMA CallMeans ==
    ASSUME FInv, NEW s \in Seq(Token), Begin(s)
    PROVE  /\ fmt' = s
           /\ \A n : Meant(n)' = Meaning(pad_level, is_line_padded, s, n)
           /\ pad_level \in Nat /\ is_line_padded \in BOOLEAN /\ LineInv
           /\ Meaning(pad_level, is_line_padded, s, 0) = With(<<>>)
           /\ R!Rewritings(s)[0].at = "none" /\ "none" \in Between
           /\ Len(s) \in Nat /\ <<>> \in Seq(Token)
           /\ With(<<>>) \in RenderState /\ With(<<>>).out = <<>>
           /\ With(<<>>).level = pad_level
           /\ With(<<>>).read = "text" /\ With(<<>>).good
<1>1. fmt' = s /\ start' = [level |-> pad_level, padded |-> is_line_padded]
  BY DEF Begin
<1>2. start'.level = pad_level /\ start'.padded = is_line_padded
  BY <1>1
<1>3. \A n : Meant(n)' = Meaning(pad_level, is_line_padded, s, n)
  BY <1>1, <1>2 DEF Meant
<1>4. /\ pad_level \in Nat /\ is_line_padded \in BOOLEAN /\ LineInv
      /\ Len(s) \in Nat /\ <<>> \in Seq(Token)
  BY StringIs, LenProperties, EmptySeq
<1>5. Meaning(pad_level, is_line_padded, s, 0) = With(<<>>)
  BY <1>4, MeaningIs DEF With, R!Blank
<1>6. R!Rewritings(s)[0].at = "none" /\ "none" \in Between
  BY RewritingsAre DEF Between
<1>7. /\ With(<<>>) \in RenderState /\ With(<<>>).out = <<>>
      /\ With(<<>>).level = pad_level
      /\ With(<<>>).read = "text" /\ With(<<>>).good
  BY <1>4, WithIs
<1> QED
  BY <1>1, <1>3, <1>4, <1>5, <1>6, <1>7

\* A call that wrote s, or failed to.
LEMMA CallEnds ==
    ASSUME FInv, NEW s \in Seq(Token), Begin(s), out' \in Seq(Token),
           NEW m \in RenderState,
           Meaning(pad_level, is_line_padded, s, Len(s)) = m,
           \/ ret' = "OK" /\ Now' = m
           \/ ret' = "target" /\ IsPrefix(out', m.out)
    PROVE  Following' /\ Ended'
<1>1. /\ fmt' = s /\ Len(s) \in Nat /\ <<>> \in Seq(Token)
      /\ \A n : Meant(n)' = Meaning(pad_level, is_line_padded, s, n)
  BY CallMeans
<1>2. Meant(Len(s))' = m
  BY <1>1
<1>3. IsPrefix(out', m.out)
  <2>1. CASE ret' = "OK" /\ Now' = m
    <3>1. m.out = out'
      BY <2>1 DEF Now, With
    <3>2. IsPrefix(out', out')
      BY <1>1, PrefixIs
    <3> QED
      BY <3>1, <3>2
  <2> QED
    BY <2>1
<1>4. Len(fmt)' = Len(s) /\ Len(s) \in 0..Len(s)
  BY <1>1
<1>5. \E n \in 0..Len(fmt)' : IsPrefix(out', Meant(n)'.out)
  BY <1>2, <1>3, <1>4
<1>6. ret' = "OK" => Now' = Meant(Len(fmt))'
  <2>1. Meant(Len(fmt))' = Meaning(pad_level, is_line_padded, s, Len(s))
    <3>1. start'.level = pad_level /\ start'.padded = is_line_padded
      BY DEF Begin
    <3> QED
      BY <1>1, <3>1 DEF Meant
  <2> QED
    BY <2>1
<1>7. Right'
  BY <1>5, <1>6 DEF Right
<1> QED
  BY <1>7 DEF Following, Ended, PlainSucceeds, WellFormedSucceeds

LEMMA WriteWrites ==
    ASSUME FInv, NEW s \in Seq(Token), s # <<>>,
           \A n \in DOMAIN s : s[n] \notin {"%", "\n"},
           Write(s) \/ Writeln(s)
    PROVE  out' \in Seq(Token) /\ Following' /\ Ended'
<1> DEFINE st == With(<<>>)
           n == Len(s)
           M(u, k) == Meaning(pad_level, is_line_padded, u, k)
<1>1. n \in Nat /\ DOMAIN s = 1..n /\ SubSeq(s, 1, n) = s
  BY LenProperties, SubSeqFull
<1>2. \A k \in 1..n : s[k] \notin {"%", R!Newline}
  BY <1>1 DEF R!Newline
<1>3. CASE Write(s)
  <2>1. /\ Begin(s)
        /\ \/ Give(<<>>, s) /\ is_line_padded' = TRUE /\ ret' = "OK"
           \/ Fail(<<>>, s)
    BY <1>3 DEF Write
  <2>2. /\ pad_level \in Nat /\ is_line_padded \in BOOLEAN /\ LineInv
        /\ M(s, 0) = st /\ R!Rewritings(s)[0].at \in Between
        /\ <<>> \in Seq(Token) /\ st \in RenderState
        /\ st.read = "text" /\ st.good
    BY <2>1, CallMeans
  <2>3. M(s, n) = Line(st, s)
    <3>1. 0 \in 0..Len(s) /\ Len(s) \in 0..Len(s) /\ 0 + 1 = 1
      BY <1>1
    <3>2. \A k \in 1..Len(s) : s[k] \notin {"%", R!Newline}
      BY <1>2
    <3> HIDE DEF st, n
    <3>3. M(s, Len(s)) = Line(M(s, 0), SubSeq(s, 1, Len(s)))
      BY <2>2, <3>1, <3>2, TextRun
    <3> QED
      BY <1>1, <2>2, <3>3 DEF n
  <2> HIDE DEF n
  <2>4. Line(st, s) \in RenderState
    <3> HIDE DEF st
    <3> QED
      BY <2>2, LineIs
  <2>5. /\ out' \in Seq(Token)
        /\ \/ ret' = "OK" /\ Now' = Line(st, s)
           \/ ret' = "target" /\ IsPrefix(out', Line(st, s).out)
    BY <2>1, <2>2, GiveWrites, FailWrites
  <2> HIDE DEF st
  <2>6. M(s, Len(s)) = Line(st, s)
    BY <2>3 DEF n
  <2> QED
    BY <2>1, <2>4, <2>5, <2>6, CallEnds
<1>4. CASE Writeln(s)
  <2> DEFINE t == R!Newline
             u == s \o <<t>>
             l == [Line(st, u) EXCEPT !.padded = FALSE]
  <2>1. /\ Begin(u)
        /\ \/ Give(<<>>, u) /\ is_line_padded' = FALSE /\ ret' = "OK"
           \/ Fail(<<>>, u)
    BY <1>4 DEF Writeln
  <2>2. t \in Token /\ t # "%"
    BY SomeTokens DEF R!Newline
  <2> HIDE DEF t
  <2>3. /\ u \in Seq(Token) /\ Len(u) = n + 1 /\ u # <<>>
        /\ \A k \in 1..n : u[k] = s[k]
        /\ u[n + 1] = t
    <3>1. <<t>> \in Seq(Token) /\ Len(<<t>>) = 1 /\ <<t>>[1] = t
      BY <2>2
    <3>2. /\ u \in Seq(Token) /\ Len(u) = n + 1
          /\ \A k \in 1..(n + 1) : u[k] = IF k <= n THEN s[k] ELSE <<t>>[k - n]
      BY <3>1, ConcatProperties
    <3>3. n + 1 \in 1..(n + 1) /\ \A k \in 1..n : k \in 1..(n + 1) /\ k <= n
      BY <1>1
    <3> HIDE DEF u
    <3>4. u[n + 1] = <<t>>[1]
      BY <1>1, <3>2, <3>3
    <3>5. u # <<>>
      BY <1>1, <3>2, EmptySeq
    <3> QED
      BY <3>1, <3>2, <3>3, <3>4, <3>5
  <2>4. SubSeq(u, 1, n) = s
    <3>1. 1 \in 1..n /\ n \in 1..n
      <4>1. n # 0
        BY EmptySeq
      <4> QED
        BY <1>1, <4>1
    <3>2. <<t>> \in Seq(Token)
      BY <2>2
    <3>3. SubSeq(u, 1, n) = SubSeq(s, 1, n)
      <4> DEFINE end == <<t>>
      <4>1. end \in Seq(Token)
        BY <3>2
      <4> HIDE DEF end
      <4> QED
        BY <3>1, <4>1, SubSeqOfConcat1 DEF end
    <3> QED
      BY <1>1, <3>3
  <2> HIDE DEF u
  <2>5. /\ pad_level \in Nat /\ is_line_padded \in BOOLEAN /\ LineInv
        /\ M(u, 0) = st /\ R!Rewritings(u)[0].at \in Between
        /\ <<>> \in Seq(Token) /\ st \in RenderState
        /\ st.read = "text" /\ st.good
    BY <2>1, <2>3, CallMeans
  <2>6. M(u, n) = Line(st, s) /\ R!Rewritings(u)[n].at \in Between
    <3>1. 0 \in 0..Len(u) /\ n \in 0..Len(u) /\ 0 + 1 = 1 /\ n # 0
      <4>1. n # 0
        BY EmptySeq
      <4> QED
        BY <1>1, <2>3, <4>1
    <3>2. \A k \in 1..n : u[k] \notin {"%", R!Newline}
      BY <1>2, <2>3
    <3> HIDE DEF st
    <3>3. /\ R!Rewritings(u)[n].at = "waiting"
          /\ M(u, n) = Line(M(u, 0), SubSeq(u, 1, n))
      BY <2>3, <2>5, <3>1, <3>2, TextRun
    <3> QED
      BY <2>4, <2>5, <3>3 DEF Between
  <2>7. M(u, n + 1) = R!ReadRune(Line(st, s), t)
    <3>1. n + 1 \in 1..Len(u) /\ (n + 1) - 1 = n
      BY <1>1, <2>3
    <3> DEFINE k == n + 1
    <3>2. k \in 1..Len(u) /\ k - 1 = n /\ u[k] = t
      BY <2>3, <3>1
    <3> HIDE DEF k
    <3>3. /\ R!Rewritings(u)[k - 1].at # "not_plain"
          /\ R!Rewritings(u)[k - 1].at # "directive"
      BY <2>6, <3>2 DEF Between
    <3>4. M(u, k) = R!ReadRune(M(u, k - 1), u[k])
      BY <2>3, <2>5, <3>2, <3>3, MeaningMore
    <3> QED
      BY <2>6, <3>2, <3>4 DEF k
  <2>8. /\ R!ReadRune(Line(st, s), t) = l /\ l \in RenderState
        /\ l.out = Line(st, u).out
    <3> HIDE DEF st
    <3>1. /\ Line(st, s) \in RenderState
          /\ Line(st, s).read = "text" /\ Line(st, s).good
      BY <2>5, LineIs
    <3>2. R!ReadRune(Line(st, s), t) = R!Emit(Line(st, s), t)
      BY <2>2, <3>1, ReadIs
    <3>3. R!Emit(Line(st, s), t) = l
      BY <2>2, <2>5, LineMore DEF u, t
    <3>4. Line(st, u) \in RenderState
      BY <2>3, <2>5, LineIs
    <3>5. l \in RenderState /\ l.out = Line(st, u).out
      BY <3>4 DEF RenderState
    <3> QED
      BY <3>2, <3>3, <3>5
  <2>9. /\ out' \in Seq(Token)
        /\ \/ ret' = "OK" /\ Now' = l
           \/ ret' = "target" /\ IsPrefix(out', Line(st, u).out)
    BY <2>1, <2>3, <2>5, GiveWrites, FailWrites
  <2> HIDE DEF st, l
  <2>10. M(u, Len(u)) = l
    BY <2>3, <2>7, <2>8
  <2>11. \/ ret' = "OK" /\ Now' = l
         \/ ret' = "target" /\ IsPrefix(out', l.out)
    BY <2>8, <2>9
  <2> QED
    BY <2>1, <2>3, <2>8, <2>9, <2>10, <2>11, CallEnds
<1> QED
  BY <1>3, <1>4
\* A string that only changes the level.
LEMMA LevelString ==
    ASSUME FInv, NEW r \in {"+", "-"}, Begin(<<"%", r>>)
    PROVE  /\ <<"%", r>> \in Seq(Token) /\ Len(<<"%", r>>) = 2
           /\ Meaning(pad_level, is_line_padded, <<"%", r>>, 2) =
                R!ReadRune([With(<<>>) EXCEPT !.read = "%"], r)
           /\ R!Rendered(pad_level, FALSE, <<"%", r>>) =
                R!ReadRune([R!Blank(pad_level, FALSE) EXCEPT !.read = "%"], r)
<1> DEFINE s == <<"%", r>>
           st == With(<<>>)
           M(k) == Meaning(pad_level, is_line_padded, s, k)
           g == R!Renderings(pad_level, FALSE, s)
           b == R!Blank(pad_level, FALSE)
<1>1. /\ "%" \in Token /\ r \in Token /\ r # "%"
      /\ s \in Seq(Token) /\ Len(s) = 2 /\ s[1] = "%" /\ s[2] = r
  <2>1. "%" \in Token /\ r \in Token /\ r # "%"
    BY SomeTokens
  <2> QED
    BY <2>1
<1> HIDE DEF s
<1>2. /\ pad_level \in Nat /\ is_line_padded \in BOOLEAN
      /\ M(0) = st /\ R!Rewritings(s)[0].at = "none"
      /\ st \in RenderState /\ st.read = "text" /\ st.good
  BY <1>1, CallMeans DEF s
<1>3. /\ 1 \in 1..Len(s) /\ 2 \in 1..Len(s) /\ 1 - 1 = 0 /\ 2 - 1 = 1
      /\ 0 \in 0..Len(s) /\ 1 \in 0..Len(s)
  BY <1>1
<1>4. M(1) = [st EXCEPT !.read = "%"] /\ R!Rewritings(s)[1].at = "directive"
  <2>1. M(1) = R!ReadRune(st, "%")
    <3>1. R!Rewritings(s)[1 - 1].at = "none"
      BY <1>2, <1>3
    <3>2. M(1) = R!ReadRune(M(1 - 1), s[1])
      BY <1>1, <1>2, <1>3, <3>1, MeaningMore
    <3> QED
      BY <1>1, <1>2, <1>3, <3>2
  <2>2. R!ReadRune(st, "%") = [st EXCEPT !.read = "%"]
    <3> HIDE DEF st
    <3> QED
      BY <1>1, <1>2, ReadIs
  <2>3. R!Rewritings(s)[1] = R!Rewriting(R!Rewritings(s)[1 - 1], s[1])
    BY <1>1, <1>3, RewritingsAre
  <2>4. R!Rewritings(s)[0] \in RewriteState
    BY <1>1, <1>3, RewritingsAre
  <2>5. R!Rewriting(R!Rewritings(s)[0], "%").at = "directive"
    BY <1>1, <1>2, <2>4, RewritingIs
  <2> QED
    BY <1>1, <1>3, <2>1, <2>2, <2>3, <2>5
<1>5. M(2) = R!ReadRune([st EXCEPT !.read = "%"], r)
  <2>1. R!Rewritings(s)[2 - 1].at # "not_plain"
    BY <1>3, <1>4
  <2>2. M(2) = R!ReadRune(M(2 - 1), s[2])
    BY <1>1, <1>2, <1>3, <2>1, MeaningMore
  <2> QED
    BY <1>1, <1>3, <1>4, <2>2
<1>6. g[2] = R!ReadRune([b EXCEPT !.read = "%"], r)
  <2>1. Reads(g, Len(s), pad_level, FALSE, s)
    BY <1>1, <1>2, RenderingsAre
  <2>2. g[0] = b /\ g[1] = R!ReadRune(g[0], "%") /\ g[2] = R!ReadRune(g[1], r)
    <3> HIDE DEF g
    <3>1. /\ g[0] = b
          /\ \A k \in 1..Len(s) : g[k] = R!ReadRune(g[k - 1], s[k])
      BY <2>1 DEF Reads
    <3> QED
      BY <1>1, <1>3, <3>1
  <2>3. b \in RenderState /\ b.read = "text" /\ b.good
    <3>1. b \in RenderState
      BY <1>2, BlankIs
    <3> QED
      BY <3>1 DEF R!Blank
  <2> HIDE DEF g, b
  <2>4. R!ReadRune(b, "%") = [b EXCEPT !.read = "%"]
    BY <1>1, <2>3, ReadIs
  <2> QED
    BY <2>2, <2>4
<1>7. R!Rendered(pad_level, FALSE, s) = g[2]
  BY <1>1 DEF R!Rendered
<1> QED
  BY <1>1, <1>5, <1>6, <1>7 DEF s

LEMMA PadWrites ==
    ASSUME FInv, PadInc \/ PadDec
    PROVE  out' \in Seq(Token) /\ Following' /\ Ended'
<1> DEFINE st == With(<<>>)
           m == [st EXCEPT !.read = "%"]
<1>1. PICK r \in {"+", "-"} :
         /\ Begin(<<"%", r>>) /\ out' = <<>>
         /\ is_line_padded' = is_line_padded
         /\ \/ r = "+" /\ pad_level' = pad_level + 1 /\ ret' = "OK"
            \/ /\ r = "-" /\ pad_level > 0
               /\ pad_level' = pad_level - 1 /\ ret' = "OK"
            \/ /\ r = "-" /\ ~(pad_level > 0)
               /\ pad_level' = pad_level /\ ret' = "panic"
  BY DEF PadInc, PadDec
<1> DEFINE s == <<"%", r>>
<1>2. /\ s \in Seq(Token) /\ Len(s) = 2
      /\ Meaning(pad_level, is_line_padded, s, 2) = R!ReadRune(m, r)
      /\ R!Rendered(pad_level, FALSE, s) =
           R!ReadRune([R!Blank(pad_level, FALSE) EXCEPT !.read = "%"], r)
  BY <1>1, LevelString
<1> HIDE DEF s
<1>3. /\ st \in RenderState /\ st.out = <<>> /\ st.level = pad_level
      /\ st.read = "text" /\ st.good /\ pad_level \in Nat
      /\ is_line_padded \in BOOLEAN /\ <<>> \in Seq(Token) /\ fmt' = s
      /\ Meaning(pad_level, is_line_padded, s, 0) = st
      /\ \A n : Meant(n)' = Meaning(pad_level, is_line_padded, s, n)
  BY <1>1, <1>2, CallMeans DEF s
<1>4. r \in Token /\ out' \in Seq(Token)
  BY <1>1, <1>3, SomeTokens
<1>5. m \in RenderState /\ m.read = "%" /\ m.good /\ m.level = pad_level
  <2> HIDE DEF st
  <2>1. "%" \in Token
    BY SomeTokens
  <2> QED
    BY <1>3, <2>1, SignThen
<1>6. CASE ret' = "OK"
  <2> DEFINE l == pad_level'
             now == [out |-> <<>>, level |-> l, padded |-> is_line_padded,
                     read |-> "text", good |-> TRUE]
  <2>1. l \in Nat
    BY <1>1, <1>3, <1>6
  <2>2. R!ReadRune(m, r) = [m EXCEPT !.level = l, !.read = "text"]
    <3> HIDE DEF m
    <3>1. r = "+" =>
            R!ReadRune(m, r) = [m EXCEPT !.level = @ + 1, !.read = "text"]
      BY <1>4, <1>5, ReadIs
    <3>2. r = "-" /\ pad_level > 0 =>
            R!ReadRune(m, r) = [m EXCEPT !.level = @ - 1, !.read = "text"]
      BY <1>4, <1>5, ReadIs
    <3> QED
      BY <1>1, <1>5, <1>6, <3>1, <3>2
  <2>3. Now' = now
    BY <1>1 DEF Now, With
  <2> HIDE DEF l
  <2>4. st.padded = is_line_padded /\ st.good = TRUE
    BY DEF With
  <2>5. now \in RenderState /\ now.out = <<>> /\ now.level = l
        /\ now.padded = is_line_padded /\ now.read = "text" /\ now.good = TRUE
    BY <1>3, <2>1 DEF RenderState
  <2>6. m.out = <<>> /\ m.padded = is_line_padded /\ m.good = TRUE
    <3> HIDE DEF st
    <3> QED
      BY <1>3, <2>4 DEF RenderState
  <2> HIDE DEF m, now
  <2> DEFINE c == [m EXCEPT !.level = l, !.read = "text"]
  <2>7. c \in RenderState /\ c.out = m.out /\ c.level = l
        /\ c.padded = m.padded /\ c.read = "text" /\ c.good = m.good
    BY <1>5, <2>1 DEF RenderState
  <2> HIDE DEF c
  <2>8. c = now
    BY <2>5, <2>6, <2>7, SameState
  <2>9. Meaning(pad_level, is_line_padded, s, Len(s)) = now
    BY <1>2, <2>2, <2>8 DEF c
  <2> QED
    BY <1>1, <1>2, <1>4, <1>6, <2>3, <2>5, <2>9, CallEnds DEF s
<1>7. CASE ret' = "panic"
  <2>1. r = "-" /\ ~(pad_level > 0)
    BY <1>1, <1>7
  <2>2. Right'
    <3>1. IsPrefix(out', Meant(0)'.out)
      <4>1. IsPrefix(<<>>, <<>>)
        BY <1>3, PrefixIs
      <4> QED
        BY <1>1, <1>3, <4>1
    <3>2. 0 \in 0..Len(fmt)'
      BY <1>2, <1>3
    <3> QED
      BY <1>7, <3>1, <3>2 DEF Right
  <2>3. ~R!WellFormed(pad_level, s)
    <3> DEFINE b == R!Blank(pad_level, FALSE)
               c == [b EXCEPT !.read = "%"]
    <3>1. b \in RenderState /\ b.level = pad_level /\ b.read = "text" /\ b.good
      <4>1. b \in RenderState
        BY <1>3, BlankIs
      <4> QED
        BY <4>1 DEF R!Blank
    <3> HIDE DEF b
    <3>2. c \in RenderState /\ c.read = "%" /\ c.good /\ c.level = pad_level
      <4>1. "%" \in Token
        BY SomeTokens
      <4> QED
        BY <3>1, <4>1, SignThen
    <3> HIDE DEF c
    <3>3. R!ReadRune(c, r) = [c EXCEPT !.good = FALSE]
      BY <1>4, <2>1, <3>2, ReadIs
    <3>4. ~[c EXCEPT !.good = FALSE].good
      BY <3>2 DEF RenderState
    <3>5. R!Rendered(pad_level, FALSE, s) = R!ReadRune(c, r)
      BY <1>2 DEF b, c
    <3> QED
      BY <3>3, <3>4, <3>5 DEF R!WellFormed
  <2>4. start'.level = pad_level
    BY <1>1 DEF Begin
  <2>5. ~R!WellFormed(start.level, fmt)'
    BY <1>3, <2>3, <2>4
  <2> QED
    BY <1>4, <1>7, <2>2, <2>5 DEF Following, Ended, PlainSucceeds,
                                  WellFormedSucceeds
<1> QED
  BY <1>1, <1>6, <1>7

\* write_fmt, before its first rune.
LEMMA WriteFmtStarts ==
    ASSUME FInv, NEW f \in Seq(Token), WriteFmt(f)
    PROVE  out' \in Seq(Token) /\ Following' /\ Ended'
<1>1. /\ Begin(f) /\ out' = <<>> /\ ret' = "running"
      /\ pad_level' = pad_level /\ is_line_padded' = is_line_padded
      /\ fmt' = f /\ fmt_str' = 0 /\ e_fmt_str' = 0 /\ at' = "text"
      /\ start' = [level |-> pad_level, padded |-> is_line_padded]
  BY DEF WriteFmt, Begin
<1>2. /\ \A n : Meant(n)' = Meaning(pad_level, is_line_padded, f, n)
      /\ Meaning(pad_level, is_line_padded, f, 0) = With(<<>>)
      /\ R!Rewritings(f)[0].at = "none"
      /\ pad_level \in Nat /\ <<>> \in Seq(Token)
  BY <1>1, CallMeans
<1>3. Taken(e_fmt_str)' = "none" /\ (fmt_str = e_fmt_str)'
  BY <1>1, <1>2 DEF Taken
<1>4. Meant(e_fmt_str)' = Line(Now, Pending(e_fmt_str))'
  <2>1. Pending(e_fmt_str)' = <<>>
    <3>1. Pending(e_fmt_str)' = SubSeq(f, 0 + 1, 0)
      BY <1>1 DEF Pending
    <3> QED
      BY <3>1, SubSeqEmpty
  <2>2. Now' = With(<<>>)
    BY <1>1 DEF Now, With
  <2>3. Meant(e_fmt_str)' = Meaning(pad_level, is_line_padded, f, 0)
    <3>1. start'.level = pad_level /\ start'.padded = is_line_padded
      BY <1>1
    <3> QED
      BY <1>1, <3>1 DEF Meant
  <2> QED
    BY <1>2, <2>1, <2>2, <2>3 DEF Line
<1>5. FollowsText'
  BY <1>3, <1>4 DEF FollowsText
<1>6. Directly'
  <2>1. start'.level = pad_level
    BY <1>1
  <2>2. Direct(e_fmt_str)' = R!Renderings(pad_level, FALSE, f)[0]
    BY <1>1, <2>1 DEF Direct
  <2>3. R!Renderings(pad_level, FALSE, f)[0] = R!Blank(pad_level, FALSE)
    BY <1>2, RenderingsAre DEF Reads
  <2>4. Direct(e_fmt_str)' =
          [out |-> <<>>, level |-> pad_level, padded |-> FALSE,
           read |-> "text", good |-> TRUE]
    BY <2>2, <2>3 DEF R!Blank
  <2>5. /\ Direct(e_fmt_str)'.good /\ Direct(e_fmt_str)'.level = pad_level
        /\ Direct(e_fmt_str)'.read = "text"
    BY <2>4
  <2> QED
    BY <1>1, <2>5 DEF Directly
<1> QED
  BY <1>1, <1>2, <1>5, <1>6 DEF Following, Ended, Going

LEMMA CallWrites ==
    ASSUME FInv, FmtCall
    PROVE  out' \in Seq(Token) /\ Following' /\ Ended'
<1>1. ASSUME NEW s \in Texts, Write(s) \/ Writeln(s)
      PROVE  out' \in Seq(Token) /\ Following' /\ Ended'
  <2>1. /\ s \in Seq(Token) /\ s # <<>>
        /\ \A n \in DOMAIN s : s[n] \notin {"%", "\n"}
    BY RuneAssumption, TextAssumption, TokenSeq
  <2> QED
    BY <1>1, <2>1, WriteWrites
<1>2. ASSUME NEW f \in Formats, WriteFmt(f)
      PROVE  out' \in Seq(Token) /\ Following' /\ Ended'
  <2>1. f \in Seq(Token)
    BY RuneAssumption, TokenSeq
  <2> QED
    BY <1>2, <2>1, WriteFmtStarts
<1> QED
  BY <1>1, <1>2, PadWrites DEF FmtCall

\* An idle formatter.
LEMMA IdleRight ==
    ASSUME FInv, out = <<>>, ret = "none"
    PROVE  Following /\ Ended
<1>1. Len(fmt) \in Nat /\ Meant(0) \in RenderState /\ 0 \in 0..Len(fmt)
  <2>1. Len(fmt) \in Nat
    BY StringIs
  <2>2. 0 \in 0..Len(fmt)
    BY <2>1
  <2> QED
    BY <2>1, <2>2, StringIs
<1>2. Meant(0).out \in Seq(Token)
  BY <1>1 DEF RenderState
<1>3. IsPrefix(<<>>, Meant(0).out)
  BY <1>2, PrefixIs
<1>4. Right
  BY <1>1, <1>3 DEF Right
<1> QED
  BY <1>4 DEF Following, Ended, PlainSucceeds, WellFormedSucceeds
-----------------------------------------------------------------------------
(* What the calls of DbgFmt print.                                         *)

\* No rune of s is a sign or ends a line.
Unsigned(s) == \A n \in 1..Len(s) : s[n] \notin {"%", R!Newline}

Space == " "
Separator == ","
Mark == "\""

LEMMA Signless ==
    /\ \A t \in {"[", "]", Separator, Space, Mark} :
         t \in Token /\ t # "%" /\ t # R!Newline
    /\ <<",", " ">> = <<Separator, Space>>
BY Zenon DEF Token, Space, Separator, Mark, R!Newline

\* s between two runes.
Frame(o, s, c) == (<<o>> \o s) \o <<c>>

LEMMA Framed ==
    ASSUME NEW s \in Seq(Token), Unsigned(s), NEW o \in Token, NEW c \in Token,
           o # "%", o # R!Newline, c # "%", c # R!Newline
    PROVE  /\ Frame(o, s, c) \in Seq(Token)
           /\ Len(Frame(o, s, c)) = Len(s) + 2 /\ Unsigned(Frame(o, s, c))
           /\ Frame(o, s, c)[1] = o /\ Frame(o, s, c)[Len(s) + 2] = c
           /\ \A k \in 1..Len(s) : Frame(o, s, c)[k + 1] = s[k]
<1> DEFINE L == Frame(o, s, c)
           b == <<o>> \o s
           m == Len(s)
<1>1. /\ m \in Nat
      /\ \A n \in 1..m : s[n] \in Token /\ s[n] # "%" /\ s[n] # R!Newline
  BY LenProperties, ElementOfSeq DEF Unsigned
<1>2. /\ <<o>> \in Seq(Token) /\ Len(<<o>>) = 1 /\ <<o>>[1] = o
      /\ <<c>> \in Seq(Token) /\ Len(<<c>>) = 1 /\ <<c>>[1] = c
  OBVIOUS
<1>3. /\ b \in Seq(Token) /\ Len(b) = m + 1
      /\ b[1] = o /\ \A n \in 1..m : b[n + 1] = s[n]
  <2>1. /\ b \in Seq(Token) /\ Len(b) = 1 + m
        /\ \A n \in 1..(1 + m) : b[n] = IF n <= 1 THEN <<o>>[n] ELSE s[n - 1]
    BY <1>2, ConcatProperties
  <2> HIDE DEF b, m
  <2>2. /\ 1 \in 1..(1 + m)
        /\ \A n \in 1..m : /\ n + 1 \in 1..(1 + m) /\ ~(n + 1 <= 1)
                           /\ (n + 1) - 1 = n
    BY <1>1
  <2>3. b[1] = <<o>>[1]
    BY <2>1, <2>2
  <2>4. ASSUME NEW n \in 1..m PROVE b[n + 1] = s[n]
    <3>1. b[n + 1] = s[(n + 1) - 1]
      BY <2>1, <2>2
    <3> QED
      BY <2>2, <3>1
  <2> QED
    BY <1>1, <1>2, <2>1, <2>3, <2>4
<1>0. L = b \o <<c>>
  BY DEF Frame
<1> HIDE DEF b, m, L
<1>4. /\ L \in Seq(Token) /\ Len(L) = m + 2
      /\ L[1] = o /\ \A n \in 1..m : L[n + 1] = s[n]
      /\ L[m + 2] = c
  <2>1. /\ L \in Seq(Token) /\ Len(L) = (m + 1) + 1
        /\ \A n \in 1..((m + 1) + 1) :
             L[n] = IF n <= m + 1 THEN b[n] ELSE <<c>>[n - (m + 1)]
    BY <1>0, <1>2, <1>3, ConcatProperties
  <2>2. /\ 1 \in 1..((m + 1) + 1) /\ 1 <= m + 1
        /\ \A n \in 1..m : n + 1 \in 1..((m + 1) + 1) /\ n + 1 <= m + 1
        /\ m + 2 \in 1..((m + 1) + 1) /\ ~(m + 2 <= m + 1)
        /\ (m + 2) - (m + 1) = 1
    BY <1>1
  <2>3. L[m + 2] = <<c>>[(m + 2) - (m + 1)]
    BY <2>1, <2>2
  <2>4. L[1] = b[1] /\ \A n \in 1..m : L[n + 1] = b[n + 1]
    BY <2>1, <2>2
  <2>5. Len(L) = m + 2
    BY <1>1, <2>1
  <2> QED
    BY <1>2, <1>3, <2>1, <2>2, <2>3, <2>4, <2>5
<1>5. Unsigned(L)
  <2> SUFFICES ASSUME NEW n \in 1..Len(L) PROVE L[n] # "%" /\ L[n] # R!Newline
    BY DEF Unsigned
  <2> DEFINE k == n - 1
  <2>1. n = 1 \/ n = m + 2 \/ (k \in 1..m /\ k + 1 = n)
    BY <1>1, <1>4
  <2> HIDE DEF k
  <2>2. k \in 1..m /\ k + 1 = n => L[n] = s[k]
    BY <1>4
  <2> QED
    BY <1>1, <1>4, <2>1, <2>2
<1> QED
  BY <1>4, <1>5 DEF m, L

\* What lies between the brackets.
Middle(s) == [n \in 1..(3 * Len(s) - 2) |->
                IF n % 3 = 1 THEN s[n \div 3 + 1]
                ELSE IF n % 3 = 2 THEN Separator ELSE Space]

LEMMA MiddleIs ==
    ASSUME NEW s \in Seq(Token), Unsigned(s)
    PROVE  /\ Middle(s) \in Seq(Token) /\ Unsigned(Middle(s))
           /\ Len(Middle(s)) = IF s = <<>> THEN 0 ELSE 3 * Len(s) - 2
           /\ \A k \in 1..Len(s) : Middle(s)[3 * k - 2] = s[k]
           /\ \A k \in 1..(Len(s) - 1) : /\ Middle(s)[3 * k - 1] = Separator
                                         /\ Middle(s)[3 * k] = Space
<1> DEFINE f(n) == IF n % 3 = 1 THEN s[n \div 3 + 1]
                   ELSE IF n % 3 = 2 THEN Separator ELSE Space
           mid == Middle(s)
           m == IF Len(s) = 0 THEN 0 ELSE 3 * Len(s) - 2
<1>1. /\ Len(s) \in Nat /\ (s = <<>> <=> Len(s) = 0) /\ m \in Nat
      /\ \A n \in 1..Len(s) : s[n] \in Token /\ s[n] # "%" /\ s[n] # R!Newline
  BY LenProperties, EmptySeq, ElementOfSeq DEF Unsigned
<1>2. \A t \in {Separator, Space} : t \in Token /\ t # "%" /\ t # R!Newline
  BY Signless
<1> HIDE DEF mid, R!Newline
<1>3. ASSUME NEW n \in Int
      PROVE  /\ (n % 3) = 1 => f(n) = s[(n \div 3) + 1]
             /\ (n % 3) = 2 => f(n) = Separator
             /\ (n % 3) # 1 /\ (n % 3) # 2 => f(n) = Space
  OBVIOUS
<1>4. 1..(3 * Len(s) - 2) = 1..m
  BY <1>1
<1>5. mid = [n \in 1..m |-> f(n)]
  BY <1>4 DEF Middle, mid
<1> HIDE DEF f
<1>6. ASSUME NEW n \in 1..m
      PROVE  f(n) \in Token /\ f(n) # "%" /\ f(n) # R!Newline
  <2>1. CASE (n % 3) = 1
    <3>1. (n \div 3) + 1 \in 1..Len(s)
      BY <1>1, <2>1
    <3>2. f(n) = s[(n \div 3) + 1]
      BY <1>3, <2>1
    <3> QED
      BY <1>1, <3>1, <3>2
  <2>2. CASE (n % 3) # 1
    <3>1. f(n) \in {Separator, Space}
      BY <1>3, <2>2
    <3> QED
      BY <1>2, <3>1
  <2> QED
    BY <2>1, <2>2
<1>7. ASSUME NEW k \in 1..Len(s)
      PROVE  3 * k - 2 \in 1..m /\ f(3 * k - 2) = s[k]
  <2> DEFINE n == 3 * k - 2
  <2>1. n \in 1..m /\ (n % 3) = 1 /\ (n \div 3) + 1 = k
    BY <1>1
  <2> HIDE DEF n
  <2>2. f(n) = s[k]
    BY <1>3, <2>1
  <2> QED
    BY <2>1, <2>2 DEF n
<1>8. ASSUME NEW k \in 1..(Len(s) - 1)
      PROVE  /\ 3 * k - 1 \in 1..m /\ f(3 * k - 1) = Separator
             /\ 3 * k \in 1..m /\ f(3 * k) = Space
  <2> DEFINE n == 3 * k - 1  o == 3 * k
  <2>1. n \in 1..m /\ (n % 3) = 2 /\ o \in 1..m /\ (o % 3) = 0
    BY <1>1
  <2> HIDE DEF n, o
  <2>2. f(n) = Separator /\ f(o) = Space
    BY <1>3, <2>1
  <2> QED
    BY <2>1, <2>2 DEF n, o
<1> HIDE DEF m
<1>9. mid \in Seq(Token) /\ Len(mid) = m /\ \A n \in 1..m : mid[n] = f(n)
  <2>1. \A n \in 1..m : f(n) \in Token
    BY <1>6
  <2> QED
    BY <1>1, <1>5, <2>1
<1>10. Unsigned(mid)
  BY <1>6, <1>9 DEF Unsigned
<1>11. ASSUME NEW k \in 1..Len(s) PROVE mid[3 * k - 2] = s[k]
  BY <1>7, <1>9
<1>12. ASSUME NEW k \in 1..(Len(s) - 1)
       PROVE  mid[3 * k - 1] = Separator /\ mid[3 * k] = Space
  BY <1>8, <1>9
<1>13. Len(mid) = IF s = <<>> THEN 0 ELSE 3 * Len(s) - 2
  BY <1>1, <1>9 DEF m
<1> QED
  BY <1>9, <1>10, <1>11, <1>12, <1>13 DEF mid

LEMMA ListedIs ==
    ASSUME NEW s \in Seq(Token), Unsigned(s)
    PROVE  /\ Listed(s) \in Seq(Token)
           /\ Len(Listed(s)) = IF s = <<>> THEN 2 ELSE 3 * Len(s)
           /\ Listed(s)[1] = "[" /\ Unsigned(Listed(s))
           /\ \A k \in 1..Len(s) : Listed(s)[3 * k - 1] = s[k]
           /\ \A k \in 1..(Len(s) - 1) : /\ Listed(s)[3 * k] = Separator
                                         /\ Listed(s)[3 * k + 1] = Space
           /\ s # <<>> => Listed(s)[3 * Len(s)] = "]"
<1> DEFINE mid == Middle(s)
           L == Listed(s)
           o == "["
           c == "]"
<1>1. L = Frame(o, mid, c)
  BY Zenon DEF Listed, Middle, Frame, Space, Separator
<1>2. Len(s) \in Nat /\ (s = <<>> <=> Len(s) = 0)
  BY LenProperties, EmptySeq
<1>3. /\ o \in Token /\ o # "%" /\ o # R!Newline
      /\ c \in Token /\ c # "%" /\ c # R!Newline
  BY Signless
<1>4. /\ mid \in Seq(Token) /\ Unsigned(mid)
      /\ Len(mid) = IF s = <<>> THEN 0 ELSE 3 * Len(s) - 2
      /\ \A k \in 1..Len(s) : mid[3 * k - 2] = s[k]
      /\ \A k \in 1..(Len(s) - 1) : /\ mid[3 * k - 1] = Separator
                                    /\ mid[3 * k] = Space
  BY MiddleIs
<1> HIDE DEF mid, L, o, c
<1>5. /\ L \in Seq(Token) /\ Len(L) = Len(mid) + 2 /\ Unsigned(L)
      /\ L[1] = o /\ L[Len(mid) + 2] = c
      /\ \A k \in 1..Len(mid) : L[k + 1] = mid[k]
  <2>1. mid \in Seq(Token) /\ Unsigned(mid)
    BY <1>4
  <2>2. /\ Frame(o, mid, c) \in Seq(Token)
        /\ Len(Frame(o, mid, c)) = Len(mid) + 2
        /\ Unsigned(Frame(o, mid, c))
        /\ Frame(o, mid, c)[1] = o /\ Frame(o, mid, c)[Len(mid) + 2] = c
        /\ \A k \in 1..Len(mid) : Frame(o, mid, c)[k + 1] = mid[k]
    BY <1>3, <2>1, Framed
  <2> QED
    BY <1>1, <2>2, Zenon
<1>6. Len(L) = IF s = <<>> THEN 2 ELSE 3 * Len(s)
  BY <1>2, <1>4, <1>5
<1>7. ASSUME NEW k \in 1..Len(s) PROVE L[3 * k - 1] = s[k]
  <2> DEFINE n == 3 * k - 2
  <2>1. n \in 1..Len(mid) /\ n + 1 = 3 * k - 1
    BY <1>2, <1>4
  <2>2. mid[n] = s[k]
    BY <1>4
  <2> HIDE DEF n
  <2>3. L[n + 1] = mid[n]
    BY <1>5, <2>1
  <2> QED
    BY <2>1, <2>2, <2>3
<1>8. ASSUME NEW k \in 1..(Len(s) - 1)
      PROVE  L[3 * k] = Separator /\ L[3 * k + 1] = Space
  <2> DEFINE n == 3 * k - 1  j == 3 * k
  <2>1. n \in 1..Len(mid) /\ n + 1 = j /\ j \in 1..Len(mid)
    BY <1>2, <1>4
  <2>2. mid[n] = Separator /\ mid[j] = Space
    BY <1>4
  <2> HIDE DEF n, j
  <2>3. L[n + 1] = mid[n] /\ L[j + 1] = mid[j]
    BY <1>5, <2>1
  <2>4. L[j] = Separator /\ L[j + 1] = Space
    BY <2>1, <2>2, <2>3
  <2> QED
    BY <2>4 DEF j
<1>9. s # <<>> => L[3 * Len(s)] = c
  <2>1. s # <<>> => Len(mid) + 2 = 3 * Len(s)
    BY <1>2, <1>4
  <2> QED
    BY <1>5, <2>1
<1> QED
  BY <1>5, <1>6, <1>7, <1>8, <1>9 DEF L, o, c

LEMMA QuotedIs ==
    ASSUME NEW s \in Seq(Token), Unsigned(s)
    PROVE  /\ Quoted(s) \in Seq(Token) /\ Len(Quoted(s)) = Len(s) + 2
           /\ Unsigned(Quoted(s))
           /\ Quoted(s)[1] = Mark /\ Quoted(s)[Len(s) + 2] = Mark
           /\ \A k \in 1..Len(s) : Quoted(s)[k + 1] = s[k]
<1>1. Quoted(s) = Frame(Mark, s, Mark)
  BY Zenon DEF Quoted, Mark, Frame
<1>2. Mark \in Token /\ Mark # "%" /\ Mark # R!Newline
  BY Signless
<1> QED
  BY <1>1, <1>2, Framed
-----------------------------------------------------------------------------
(* The writes of DbgFmt.                                                   *)

\* How much of the string is written before a piece, of l items at the nth.
Before(p, n, l) ==
    IF p \in {"open", "quote"} THEN 0
    ELSE IF p = "text" THEN 1
    ELSE IF p \in {"item", "last"} THEN 3 * n + 1
    ELSE IF p = "comma" THEN 3 * n + 2
    ELSE IF p = "close" THEN 3 * l - 1
    ELSE l + 1

Source(s, p) ==
    IF p \in {"quote", "text", "unquote"} THEN Quoted(s) ELSE Listed(s)

\* What is written is what the runes before the next piece mean.
Listing ==
    ret = "running" /\ piece # "none" =>
        /\ Unsigned(items)
        /\ fmt = Source(items, piece)
        /\ piece = "close" => items # <<>>
        /\ piece = "text" => is_line_padded
        /\ \E k \in 0..Len(fmt) : /\ k = Before(piece, i, Len(items))
                                  /\ Taken(k) \in Between
                                  /\ Meant(k) = Now

\* One write of a call.
LEMMA PieceWrites ==
    ASSUME FInv, out \in Seq(Token), Unsigned(fmt),
           NEW j \in 0..Len(fmt), Taken(j) \in Between, Meant(j) = Now,
           NEW k \in j..Len(fmt), NEW s \in Seq(Token),
           SubSeq(fmt, j + 1, k) = s, s # <<>> \/ is_line_padded,
           NEW next, NEW result, WriteThen(s, next, result)
    PROVE  /\ out' \in Seq(Token) /\ Same /\ items' = items
           /\ \/ /\ piece' = next /\ ret' = result /\ is_line_padded' = TRUE
                 /\ Taken(k) \in Between /\ Meant(k) = Now'
              \/ /\ piece' = "none" /\ ret' = "target"
                 /\ IsPrefix(out', Meant(k).out)
<1>1. /\ Same /\ items' = items
      /\ \/ /\ Give(out, s) /\ is_line_padded' = TRUE
            /\ piece' = next /\ ret' = result
         \/ Fail(out, s) /\ piece' = "none"
  BY DEF WriteThen, Same
<1>2. /\ fmt \in Seq(Token) /\ Len(fmt) \in Nat /\ LineInv
      /\ start.level \in Nat /\ start.padded \in BOOLEAN
      /\ Now \in RenderState /\ Now.read = "text" /\ Now.good
  BY StringIs, NowIs
<1>3. Taken(k) \in Between /\ Meant(k) = Line(Now, s)
  <2>1. \A n \in (j + 1)..k : fmt[n] \notin {"%", R!Newline}
    <3>1. \A n \in (j + 1)..k : n \in 1..Len(fmt)
      BY <1>2
    <3> QED
      BY <3>1 DEF Unsigned
  <2>2. /\ R!Rewritings(fmt)[j].at \in Between
        /\ Meaning(start.level, start.padded, fmt, j) = Now
    BY DEF Taken, Meant
  <2>3. /\ R!Rewritings(fmt)[k].at = IF k = j THEN R!Rewritings(fmt)[j].at
                                     ELSE "waiting"
        /\ Meaning(start.level, start.padded, fmt, k) =
             Line(Meaning(start.level, start.padded, fmt, j),
                  SubSeq(fmt, j + 1, k))
    <3>1. /\ Meaning(start.level, start.padded, fmt, j).read = "text"
          /\ Meaning(start.level, start.padded, fmt, j).good
      BY <1>2, <2>2
    <3> DEFINE lv == start.level
               pd == start.padded
    <3>2. lv \in Nat /\ pd \in BOOLEAN /\ fmt \in Seq(Token)
      BY <1>2
    <3> HIDE DEF lv, pd
    <3>3. /\ Meaning(lv, pd, fmt, j).read = "text"
          /\ Meaning(lv, pd, fmt, j).good
          /\ R!Rewritings(fmt)[j].at \in Between
      BY <2>2, <3>1 DEF lv, pd
    <3>4. /\ R!Rewritings(fmt)[k].at = IF k = j THEN R!Rewritings(fmt)[j].at
                                       ELSE "waiting"
          /\ Meaning(lv, pd, fmt, k) =
               Line(Meaning(lv, pd, fmt, j), SubSeq(fmt, j + 1, k))
      BY <2>1, <3>2, <3>3, TextRun
    <3> QED
      BY <3>4 DEF lv, pd
  <2>4. R!Rewritings(fmt)[k].at \in Between
    BY <2>2, <2>3 DEF Between
  <2> QED
    BY <2>2, <2>3, <2>4 DEF Taken, Meant
<1>4. CASE /\ Give(out, s) /\ is_line_padded' = TRUE
           /\ piece' = next /\ ret' = result
  <2>1. out' \in Seq(Token) /\ Now' = Line(Now, s)
    BY <1>2, <1>4, GiveWrites DEF Now
  <2> QED
    BY <1>1, <1>3, <1>4, <2>1
<1>5. CASE Fail(out, s) /\ piece' = "none"
  <2>1. /\ out' \in Seq(Token) /\ ret' = "target"
        /\ IsPrefix(out', Line(Now, s).out)
    BY <1>2, <1>5, FailWrites DEF Now
  <2> QED
    BY <1>1, <1>3, <1>5, <2>1
<1> QED
  BY <1>1, <1>4, <1>5

LEMMA PieceEnds ==
    ASSUME FInv, Same, out' \in Seq(Token), NEW k \in 0..Len(fmt),
           piece' = "none",
           \/ ret' = "target" /\ IsPrefix(out', Meant(k).out)
           \/ ret' = "OK" /\ k = Len(fmt) /\ Meant(k) = Now'
    PROVE  Following' /\ Listing' /\ Ended'
<1>1. Len(fmt)' = Len(fmt) /\ \A n : Meant(n)' = Meant(n)
  BY SameMeaning
<1>2. IsPrefix(out', Meant(k).out)
  <2>1. CASE Meant(k) = Now'
    <3>1. Now'.out = out' /\ <<>> \in Seq(Token)
      BY EmptySeq DEF Now, With
    <3>2. IsPrefix(out', out')
      BY <3>1, PrefixIs
    <3> QED
      BY <2>1, <3>1, <3>2
  <2> QED
    BY <2>1
<1>3. \E n \in 0..Len(fmt)' : IsPrefix(out', Meant(n)'.out)
  BY <1>1, <1>2
<1>4. ret' = "OK" => Now' = Meant(Len(fmt))'
  <2>1. Meant(Len(fmt))' = Meant(Len(fmt))
    BY DEF Same, Meant
  <2> QED
    BY <2>1
<1>5. Right'
  BY <1>3, <1>4 DEF Right
<1> QED
  BY <1>5 DEF Following, Listing, Ended, PlainSucceeds, WellFormedSucceeds

LEMMA PieceMoves ==
    ASSUME FInv, Same, items' = items, Unsigned(items),
           ret' = "running", piece' # "none", is_line_padded' = TRUE,
           fmt = Source(items, piece'), piece' = "close" => items # <<>>,
           NEW k \in 0..Len(fmt), k = Before(piece', i', Len(items)),
           Taken(k) \in Between, Meant(k) = Now'
    PROVE  Following' /\ Listing' /\ Ended'
<1>1. /\ Len(fmt)' = Len(fmt) /\ \A n : Meant(n)' = Meant(n)
      /\ \A n : Taken(n)' = Taken(n)
      /\ fmt' = fmt
  BY SameMeaning DEF Same, Taken
<1>2. \E n \in 0..Len(fmt)' : /\ n = Before(piece, i, Len(items))'
                              /\ Taken(n)' \in Between
                              /\ Meant(n)' = Now'
  <2>1. Before(piece, i, Len(items))' = k
    BY DEF Before
  <2> QED
    BY <1>1, <2>1
<1>3. /\ Unsigned(items)' /\ fmt' = Source(items, piece)'
      /\ (items # <<>>)' = (items # <<>>)
  BY <1>1 DEF Unsigned, Source
<1>4. Listing'
  BY <1>2, <1>3 DEF Listing, Between
<1> QED
  BY <1>4 DEF Following, Ended

\* Of the runes before a piece, and the string of the call.
Underway ==
    /\ FInv /\ Inside /\ Listing /\ out \in Seq(Token)
    /\ ret = "running" /\ piece # "none"

LEMMA UnderwayIs ==
    ASSUME Underway
    PROVE  LET j == Before(piece, i, Len(items)) IN
           /\ FInv /\ out \in Seq(Token)
           /\ Unsigned(items) /\ Unsigned(fmt) /\ fmt = Source(items, piece)
           /\ fmt \in Seq(Token) /\ Len(fmt) \in Nat
           /\ items \in Seq(Token) /\ Len(items) \in Nat /\ i \in Nat
           /\ items = <<>> <=> Len(items) = 0
           /\ j \in 0..Len(fmt) /\ Taken(j) \in Between /\ Meant(j) = Now
           /\ piece = "text" => is_line_padded
           /\ piece = "close" => items # <<>>
<1>1. /\ FInv /\ out \in Seq(Token) /\ Unsigned(items)
      /\ items \in Seq(Token) /\ fmt = Source(items, piece)
      /\ i \in Nat
      /\ piece = "text" => is_line_padded
      /\ piece = "close" => items # <<>>
      /\ \E k \in 0..Len(fmt) : /\ k = Before(piece, i, Len(items))
                                /\ Taken(k) \in Between
                                /\ Meant(k) = Now
  BY Zenon DEF Underway, Listing, Inside
<1>2. fmt \in Seq(Token) /\ Len(fmt) \in Nat
  BY <1>1, StringIs
<1>3. Len(items) \in Nat /\ (items = <<>> <=> Len(items) = 0)
  BY <1>1, LenProperties, EmptySeq
<1>4. Unsigned(fmt)
  <2>1. Unsigned(Listed(items)) /\ Unsigned(Quoted(items))
    BY <1>1, ListedIs, QuotedIs
  <2> QED
    BY <1>1, <2>1, Zenon DEF Source
<1> QED
  BY <1>1, <1>2, <1>3, <1>4

\* A call writes s and goes on, and s is what the runes up to the next piece
\* are; or it writes s, and s is all that was left.
LEMMA PieceGoes ==
    ASSUME Underway, NEW j \in Nat, j = Before(piece, i, Len(items)),
           NEW k \in j..Len(fmt), NEW s \in Seq(Token),
           SubSeq(fmt, j + 1, k) = s, s # <<>> \/ piece = "text",
           NEW next, NEW result, WriteThen(s, next, result),
           \/ /\ result = "running" /\ next # "none"
              /\ fmt = Source(items, next)
              /\ next = "close" => items # <<>>
              /\ k = Before(next, i', Len(items))
           \/ result = "OK" /\ next = "none" /\ k = Len(fmt)
    PROVE  out' \in Seq(Token) /\ Following' /\ Listing' /\ Ended'
<1>1. /\ FInv /\ out \in Seq(Token) /\ Unsigned(items) /\ Unsigned(fmt)
      /\ j \in 0..Len(fmt) /\ Taken(j) \in Between /\ Meant(j) = Now
      /\ s # <<>> \/ is_line_padded
      /\ Len(fmt) \in Nat
  BY UnderwayIs
<1>2. /\ out' \in Seq(Token) /\ Same /\ items' = items
      /\ \/ /\ piece' = next /\ ret' = result /\ is_line_padded' = TRUE
            /\ Taken(k) \in Between /\ Meant(k) = Now'
         \/ /\ piece' = "none" /\ ret' = "target"
            /\ IsPrefix(out', Meant(k).out)
  BY <1>1, PieceWrites
<1>3. k \in 0..Len(fmt)
  BY <1>1
<1>4. CASE piece' = "none" /\ ret' = "target" /\ IsPrefix(out', Meant(k).out)
  <2>1. Following' /\ Listing' /\ Ended'
    BY <1>1, <1>2, <1>3, <1>4, PieceEnds
  <2> QED
    BY <1>2, <2>1
<1>5. CASE /\ piece' = next /\ ret' = result /\ is_line_padded' = TRUE
           /\ Taken(k) \in Between /\ Meant(k) = Now'
  <2>1. CASE result = "OK" /\ next = "none" /\ k = Len(fmt)
    <3>1. Following' /\ Listing' /\ Ended'
      BY <1>1, <1>2, <1>3, <1>5, <2>1, PieceEnds
    <3> QED
      BY <1>2, <3>1
  <2>2. CASE /\ result = "running" /\ next # "none"
             /\ fmt = Source(items, next)
             /\ next = "close" => items # <<>>
             /\ k = Before(next, i', Len(items))
    <3>1. /\ ret' = "running" /\ piece' # "none"
          /\ fmt = Source(items, piece')
          /\ piece' = "close" => items # <<>>
          /\ k = Before(piece', i', Len(items))
      BY <1>5, <2>2
    <3>2. Following' /\ Listing' /\ Ended'
      BY <1>1, <1>2, <1>3, <1>5, <3>1, PieceMoves
    <3> QED
      BY <1>2, <3>2
  <2> QED
    BY <2>1, <2>2
<1> QED
  BY <1>2, <1>4, <1>5

\* The items, and what is between them.
LEMMA ItemsGo ==
    ASSUME Underway, Open \/ Item \/ Comma \/ LastItem \/ Close
    PROVE  out' \in Seq(Token) /\ Following' /\ Listing' /\ Ended'
<1> DEFINE l == Len(items)
           L == Listed(items)
<1>1. /\ items \in Seq(Token) /\ l \in Nat /\ i \in Nat /\ Unsigned(items)
      /\ items = <<>> <=> l = 0
      /\ \A n \in 1..l : items[n] \in Token
      /\ piece = "close" => items # <<>>
      /\ fmt = Source(items, piece) /\ FInv /\ out \in Seq(Token)
  <2>1. /\ items \in Seq(Token) /\ l \in Nat /\ i \in Nat /\ Unsigned(items)
        /\ items = <<>> <=> l = 0
        /\ piece = "close" => items # <<>>
        /\ fmt = Source(items, piece) /\ FInv /\ out \in Seq(Token)
    BY UnderwayIs
  <2> QED
    BY <2>1, ElementOfSeq
<1>2. /\ fmt = L /\ ret = "running"
      /\ piece \in {"open", "item", "comma", "last", "close"}
      /\ piece = "open" => i = 0
      /\ piece \in {"item", "comma"} /\ items # <<>> => i < l - 1
      /\ piece = "comma" => items # <<>>
      /\ piece = "last" => items # <<>> /\ i = l - 1
  <2>1. piece \in {"open", "item", "comma", "last", "close"}
    BY DEF Open, Item, Comma, LastItem, Close
  <2>2. fmt = L
    BY <1>1, <2>1 DEF Source
  <2> QED
    BY <2>1, <2>2 DEF Underway, Inside
<1>3. /\ L \in Seq(Token) /\ Len(L) = IF items = <<>> THEN 2 ELSE 3 * l
      /\ L[1] = "["
      /\ \A k \in 1..l : L[3 * k - 1] = items[k]
      /\ \A k \in 1..(l - 1) : L[3 * k] = Separator /\ L[3 * k + 1] = Space
      /\ items # <<>> => L[3 * l] = "]"
  BY <1>1, ListedIs
<1>4. \A n \in {"item", "last", "comma", "close"} : fmt = Source(items, n)
  BY <1>2 DEF Source
<1> HIDE DEF L, l
<1>5. CASE Open
  <2>1. /\ piece = "open" /\ i = 0 /\ i' = i
        /\ WriteThen(<<"[">>, PieceAt(i), "running")
    BY <1>2, <1>5 DEF Open, WriteNext
  <2>2. 1 \in 1..Len(L)
    BY <1>1, <1>3
  <2>3. SubSeq(fmt, 0 + 1, 1) = <<"[">>
    <3>1. SubSeq(L, 1, 1) = <<L[1]>>
      BY <1>3, <2>2, OneRune
    <3> QED
      BY <1>2, <1>3, <3>1
  <2>4. /\ PieceAt(i) \in {"item", "last"}
        /\ Before(PieceAt(i), i', l) = 1
    BY <2>1 DEF PieceAt, Before
  <2>5. /\ 0 = Before(piece, i, l) /\ 0 \in Nat /\ 1 \in 0..Len(fmt)
        /\ <<"[">> \in Seq(Token) /\ <<"[">> # <<>>
    <3>1. 0 = Before(piece, i, l) /\ 0 \in Nat /\ 1 \in 0..Len(fmt)
      BY <1>2, <2>1, <2>2 DEF Before
    <3>2. <<"[">> \in Seq(Token)
      BY TokenIn
    <3>3. <<"[">> # <<>>
      OBVIOUS
    <3> QED
      BY <3>1, <3>2, <3>3
  <2> DEFINE next == PieceAt(i)
  <2>6. /\ next # "none" /\ fmt = Source(items, next) /\ next # "close"
        /\ 1 = Before(next, i', Len(items))
    BY <1>4, <2>4 DEF l
  <2> HIDE DEF next
  <2> QED
    BY <2>1, <2>3, <2>5, <2>6, PieceGoes DEF next, l
<1>6. CASE Item
  <2>1. CASE i < l
    <3>1. /\ piece = "item" /\ i' = i
          /\ WriteThen(<<items[i + 1]>>, "comma", "running")
      BY <1>6, <2>1 DEF Item, IntDbgFmt, WriteNext, l
    <3> DEFINE j == 3 * i + 1
               k == 3 * i + 2
               r == items[i + 1]
               s == <<r>>
    <3>2. items # <<>> /\ i + 1 \in 1..l /\ i < l - 1
      BY <1>1, <1>2, <2>1, <3>1
    <3>3. r \in Token
      BY <1>1, <3>2
    <3>4. /\ j \in Nat /\ j + 1 = k /\ k \in 1..Len(L) /\ k \in j..Len(L)
          /\ k = 3 * (i + 1) - 1
      BY <1>1, <1>3, <3>2
    <3>5. L[k] = r
      <4>1. L[3 * (i + 1) - 1] = items[i + 1]
        BY <1>3, <3>2
      <4> QED
        BY <3>4, <4>1
    <3>6. j = Before(piece, i, l) /\ k = Before("comma", i', l)
      BY <3>1 DEF Before
    <3> HIDE DEF r, j, k
    <3>7. SubSeq(L, k, k) = s /\ s \in Seq(Token) /\ s # <<>>
      BY <1>3, <3>3, <3>4, <3>5, OneRune
    <3> HIDE DEF s
    <3>8. SubSeq(fmt, j + 1, k) = s /\ k \in j..Len(fmt)
      BY <1>2, <3>4, <3>7
    <3>9. WriteThen(s, "comma", "running")
      BY <3>1 DEF s, r
    <3>10. /\ j = Before(piece, i, Len(items))
           /\ k = Before("comma", i', Len(items))
      BY <3>6 DEF l
    <3> QED
      BY <1>4, <3>4, <3>7, <3>8, <3>9, <3>10, PieceGoes
  <2>2. CASE ~(i < l)
    <3>1. /\ piece = "item" /\ piece' = piece /\ ret' = "panic"
          /\ out' = out /\ Same
      BY <1>6, <2>2 DEF Item, l, Quiet, Same
    <3>2. \E n \in 0..Len(fmt) : Meant(n) = Now
      <4>1. Before(piece, i, Len(items)) \in 0..Len(fmt)
            /\ Meant(Before(piece, i, Len(items))) = Now
        BY UnderwayIs
      <4> QED
        BY <4>1
    <3>3. PICK n \in 0..Len(fmt) : Meant(n) = Now
      BY <3>2
    <3>4. IsPrefix(out', Meant(n).out)
      <4>1. Now.out = out /\ <<>> \in Seq(Token)
        BY <1>1, NowIs, EmptySeq
      <4>2. IsPrefix(out, out)
        BY <1>1, <4>1, PrefixIs
      <4> QED
        BY <3>1, <3>3, <4>1, <4>2
    <3>5. Right'
      <4>1. Len(fmt)' = Len(fmt) /\ \A m : Meant(m)' = Meant(m)
        BY <3>1, SameMeaning
      <4> QED
        BY <3>1, <3>4, <4>1 DEF Right
    <3>6. out' \in Seq(Token)
      BY <1>1, <3>1
    <3> QED
      BY <3>1, <3>5, <3>6 DEF Following, Listing, Ended, PlainSucceeds
  <2> QED
    BY <2>1, <2>2
<1>7. CASE Comma
  <2> DEFINE j == 3 * i + 2
             k == 3 * i + 4
             m == 3 * i + 3
             s == <<Separator, Space>>
             next == PieceAt(i + 1)
  <2>1. /\ piece = "comma" /\ i' = i + 1 /\ WriteThen(s, next, "running")
    <3>1. /\ piece = "comma" /\ i' = i + 1
          /\ WriteThen(<<",", " ">>, next, "running")
      BY <1>7, Zenon DEF Comma, WriteNext
    <3> QED
      BY <3>1, Signless, Zenon
  <2>2. items # <<>> /\ i + 1 \in 1..(l - 1)
    BY <1>1, <1>2, <2>1
  <2>3. /\ j \in Nat /\ j + 1 = m /\ m + 1 = k /\ m \in 1..(Len(L) - 1)
        /\ k \in j..Len(L) /\ m = 3 * (i + 1) /\ k = 3 * (i + 1) + 1
    BY <1>1, <1>3, <2>2
  <2>4. L[m] = Separator /\ L[m + 1] = Space
    <3>1. L[3 * (i + 1)] = Separator /\ L[3 * (i + 1) + 1] = Space
      BY <1>3, <2>2
    <3> QED
      BY <2>3, <3>1
  <2>5. j = Before(piece, i, l)
    BY <2>1 DEF Before
  <2>6. next \in {"item", "last"} /\ k = Before(next, i', l)
    <3>1. next \in {"item", "last"}
      BY DEF PieceAt
    <3>2. k = 3 * i' + 1
      BY <1>1, <2>1
    <3> HIDE DEF next, k
    <3> QED
      BY <3>1, <3>2 DEF Before
  <2> HIDE DEF j, k, m, next
  <2>7. s \in Seq(Token) /\ s # <<>>
    <3>1. Separator \in Token /\ Space \in Token
      BY Signless
    <3> QED
      BY <3>1
  <2>8. SubSeq(L, m, m + 1) = <<L[m], L[m + 1]>>
    BY <1>3, <2>3, TwoRunes
  <2>9. SubSeq(L, m, k) = s
    BY <2>3, <2>4, <2>8
  <2> HIDE DEF s
  <2>10. SubSeq(fmt, j + 1, k) = s /\ k \in j..Len(fmt)
    BY <1>2, <2>3, <2>9
  <2>11. /\ j = Before(piece, i, Len(items))
         /\ k = Before(next, i', Len(items))
         /\ next # "none" /\ next # "close" /\ fmt = Source(items, next)
    BY <1>4, <2>5, <2>6 DEF l
  <2> QED
    BY <2>1, <2>3, <2>7, <2>10, <2>11, PieceGoes
<1>8. CASE LastItem
  <2> DEFINE j == 3 * i + 1
             k == 3 * l - 1
             r == items[l]
             s == <<r>>
  <2>1. piece = "last" /\ i' = i /\ WriteThen(s, "close", "running")
    BY <1>8 DEF LastItem, IntDbgFmt, WriteNext, GetLast, l
  <2>2. items # <<>> /\ i = l - 1 /\ l \in 1..l
    BY <1>1, <1>2, <2>1
  <2>3. r \in Token
    BY <1>1, <2>2
  <2>4. j \in Nat /\ j + 1 = k /\ k \in 1..Len(L) /\ k \in j..Len(L)
    BY <1>1, <1>3, <2>2
  <2>5. L[k] = r
    BY <1>3, <2>2
  <2>6. j = Before(piece, i, l) /\ k = Before("close", i', l)
    BY <2>1 DEF Before
  <2> HIDE DEF r, j, k
  <2>7. SubSeq(L, k, k) = s /\ s \in Seq(Token) /\ s # <<>>
    BY <1>3, <2>3, <2>4, <2>5, OneRune
  <2> HIDE DEF s
  <2>8. SubSeq(fmt, j + 1, k) = s /\ k \in j..Len(fmt)
    BY <1>2, <2>4, <2>7
  <2>9. j = Before(piece, i, Len(items)) /\ k = Before("close", i', Len(items))
    BY <2>6 DEF l
  <2> QED
    BY <1>4, <2>1, <2>2, <2>4, <2>7, <2>8, <2>9, PieceGoes
<1>9. CASE Close
  <2> DEFINE j == 3 * l - 1
             k == 3 * l
             s == <<"]">>
  <2>1. piece = "close" /\ items # <<>> /\ WriteThen(s, "none", "OK")
    BY <1>1, <1>9 DEF Close, WriteEnd
  <2>2. l >= 1
    BY <1>1, <2>1
  <2>3. /\ j \in Nat /\ j + 1 = k /\ k \in 1..Len(L) /\ k \in j..Len(L)
        /\ k = Len(L)
    BY <1>1, <1>3, <2>1, <2>2
  <2>4. L[k] = "]" /\ s \in Seq(Token) /\ s # <<>>
    BY <1>3, <2>1, TokenIn
  <2>5. j = Before(piece, i, l)
    BY <2>1 DEF Before
  <2> HIDE DEF j, k
  <2>6. SubSeq(L, k, k) = s
    BY <1>3, <2>3, <2>4, OneRune
  <2> HIDE DEF s
  <2>7. SubSeq(fmt, j + 1, k) = s /\ k \in j..Len(fmt) /\ k = Len(fmt)
    BY <1>2, <2>3, <2>6
  <2>8. j = Before(piece, i, Len(items))
    BY <2>5 DEF l
  <2> QED
    BY <2>1, <2>3, <2>4, <2>7, <2>8, PieceGoes
<1> QED
  BY <1>5, <1>6, <1>7, <1>8, <1>9

\* The runes of a string, between quotation marks.
LEMMA RunesGo ==
    ASSUME Underway, Quote \/ Text \/ Unquote
    PROVE  out' \in Seq(Token) /\ Following' /\ Listing' /\ Ended'
<1> DEFINE l == Len(items)
           L == Quoted(items)
           s == <<Mark>>
<1>1. /\ items \in Seq(Token) /\ l \in Nat /\ Unsigned(items)
      /\ fmt = Source(items, piece)
  BY UnderwayIs
<1>2. fmt = L
  <2>1. piece \in {"quote", "text", "unquote"}
    BY DEF Quote, Text, Unquote
  <2> QED
    BY <1>1, <2>1 DEF Source
<1>3. /\ L \in Seq(Token) /\ Len(L) = l + 2
      /\ L[1] = Mark /\ L[l + 2] = Mark
      /\ \A k \in 1..l : L[k + 1] = items[k]
  BY <1>1, QuotedIs
<1>4. \A n \in {"text", "unquote"} : fmt = Source(items, n)
  BY <1>2 DEF Source
<1>5. s \in Seq(Token) /\ s # <<>>
  <2>1. Mark \in Token
    BY Signless
  <2> QED
    BY <2>1
<1> HIDE DEF L, l
<1>6. CASE Quote
  <2>1. piece = "quote" /\ i' = i /\ WriteThen(s, "text", "running")
    BY <1>6, Zenon DEF Quote, WriteNext, Mark
  <2>2. 1 \in 1..Len(L) /\ 0 \in Nat /\ 0 + 1 = 1
    BY <1>1, <1>3
  <2>3. SubSeq(L, 1, 1) = s
    BY <1>3, <2>2, OneRune
  <2> HIDE DEF s
  <2>4. SubSeq(fmt, 0 + 1, 1) = s /\ 1 \in 0..Len(fmt)
    BY <1>2, <2>2, <2>3
  <2>5. 0 = Before(piece, i, Len(items)) /\ 1 = Before("text", i', Len(items))
    BY <2>1 DEF Before
  <2> QED
    BY <1>4, <1>5, <2>1, <2>2, <2>4, <2>5, PieceGoes
<1>7. CASE Text
  <2> DEFINE k == l + 1
             u == SubSeq(L, 2, k)
  <2>1. piece = "text" /\ i' = i /\ WriteThen(items, "unquote", "running")
    BY <1>7 DEF Text, WriteNext
  <2>2. 1 \in Nat /\ 1 + 1 = 2 /\ k \in 1..Len(L) /\ k \in Int
    BY <1>1, <1>3
  <2>3. u = items
    <3>1. \A n \in 2..k : n \in 1..Len(L) /\ L[n] \in Token
      BY <1>1, <1>3, ElementOfSeq
    <3>2. u \in Seq(Token) /\ Len(u) = l /\ \A n \in 1..l : u[n] = L[2 + n - 1]
      <4>1. /\ u \in Seq(Token)
            /\ Len(u) = IF 2 <= k THEN k - 2 + 1 ELSE 0
            /\ \A n \in 1..(k - 2 + 1) : u[n] = L[2 + n - 1]
        BY <1>3, <2>2, <3>1, SubSeqProperties
      <4>2. k - 2 + 1 = l /\ (2 <= k => l >= 1) /\ (~(2 <= k) => l = 0)
        BY <1>1
      <4> HIDE DEF u, k
      <4> QED
        BY <1>1, <4>1, <4>2
    <3> HIDE DEF u
    <3>3. \A n \in 1..l : u[n] = items[n]
      <4> SUFFICES ASSUME NEW n \in 1..l PROVE u[n] = items[n]
        OBVIOUS
      <4>1. 2 + n - 1 = n + 1
        BY <1>1
      <4> QED
        BY <1>3, <3>2, <4>1
    <3> QED
      BY <1>1, <3>2, <3>3, SeqEqual DEF l
  <2>4. /\ 1 = Before(piece, i, Len(items))
        /\ k = Before("unquote", i', Len(items))
    BY <2>1 DEF Before, l
  <2> HIDE DEF k
  <2>5. SubSeq(fmt, 1 + 1, k) = items /\ k \in 1..Len(fmt)
    BY <1>2, <2>2, <2>3 DEF u
  <2> QED
    BY <1>1, <1>4, <2>1, <2>2, <2>4, <2>5, PieceGoes
<1>8. CASE Unquote
  <2> DEFINE j == l + 1
             k == l + 2
  <2>1. piece = "unquote" /\ WriteThen(s, "none", "OK")
    BY <1>8, Zenon DEF Unquote, WriteEnd, Mark
  <2>2. /\ j \in Nat /\ j + 1 = k /\ k \in 1..Len(L) /\ k \in j..Len(L)
        /\ k = Len(L)
    BY <1>1, <1>3
  <2>3. L[k] = Mark
    BY <1>3
  <2>4. j = Before(piece, i, Len(items))
    BY <2>1 DEF Before, l
  <2> HIDE DEF j, k
  <2>5. SubSeq(L, k, k) = s
    BY <1>3, <2>2, <2>3, OneRune
  <2> HIDE DEF s
  <2>6. SubSeq(fmt, j + 1, k) = s /\ k \in j..Len(fmt) /\ k = Len(fmt)
    BY <1>2, <2>2, <2>5
  <2> QED
    BY <1>5, <2>1, <2>2, <2>4, <2>6, PieceGoes
<1> QED
  BY <1>6, <1>7, <1>8

-----------------------------------------------------------------------------
(* The invariant of all of the calls.                                      *)

Written == DInv /\ out \in Seq(Token) /\ Following /\ Listing /\ Ended

\* slice_dbg_fmt and str_dbg_fmt, before they write.
LEMMA BeginDbgWrites ==
    ASSUME Written, NEW s \in Slices, SliceDbgFmt(s) \/ StrDbgFmt(s)
    PROVE  out' \in Seq(Token) /\ Following' /\ Listing' /\ Ended'
<1>1. FInv /\ s \in Seq(Token) /\ Len(s) \in Nat
  <2>1. s \in Seq(Token)
    BY SliceAssumption, TokenSeq
  <2> QED
    BY <2>1, LenProperties DEF Written, DInv
<1>2. Unsigned(s)
  <2>1. \A n \in DOMAIN s : s[n] \notin {"%", "\n"}
    BY SliceAssumption
  <2>2. DOMAIN s = 1..Len(s)
    BY <1>1, LenProperties
  <2> QED
    BY <2>1, <2>2, Zenon DEF Unsigned, R!Newline
<1>3. PICK first \in {"open", "quote"} : BeginDbg(s, Source(s, first), first)
  BY DEF SliceDbgFmt, StrDbgFmt, Source
<1> DEFINE text == Source(s, first)
<1>4. text \in Seq(Token)
  <2>1. Listed(s) \in Seq(Token) /\ Quoted(s) \in Seq(Token)
    BY <1>1, <1>2, ListedIs, QuotedIs
  <2> QED
    BY <2>1 DEF Source
<1>5. /\ Begin(text) /\ out' = <<>> /\ ret' = "running" /\ items' = s
      /\ piece' = first /\ i' = 0
      /\ pad_level' = pad_level /\ is_line_padded' = is_line_padded
      /\ start' = [level |-> pad_level, padded |-> is_line_padded]
      /\ fmt' = text
  BY <1>3 DEF BeginDbg, Begin
<1> HIDE DEF text
<1>6. /\ Meaning(pad_level, is_line_padded, text, 0) = With(<<>>)
      /\ R!Rewritings(text)[0].at \in Between
      /\ Len(text) \in Nat /\ <<>> \in Seq(Token)
  BY <1>1, <1>4, <1>5, CallMeans
<1>7. Meant(0)' = Now'
  <2>1. Now' = With(<<>>)
    BY <1>5 DEF Now, With
  <2>2. start'.level = pad_level /\ start'.padded = is_line_padded
    BY <1>5
  <2>3. Meant(0)' = Meaning(pad_level, is_line_padded, text, 0)
    BY <1>5, <2>2 DEF Meant
  <2> QED
    BY <1>6, <2>1, <2>3
<1>8. Taken(0)' \in Between
  BY <1>5, <1>6 DEF Taken
<1>9. Before(piece, i, Len(items))' = 0
  BY <1>5 DEF Before
<1>10. \E k \in 0..Len(fmt)' : /\ k = Before(piece, i, Len(items))'
                               /\ Taken(k)' \in Between
                               /\ Meant(k)' = Now'
  <2>1. 0 \in 0..Len(fmt)'
    BY <1>5, <1>6
  <2> QED
    BY <1>7, <1>8, <1>9, <2>1
<1>11. Unsigned(items)' /\ fmt' = Source(items, piece)'
  BY <1>2, <1>5 DEF Unsigned, Source, text
<1>12. /\ piece' # "close" /\ piece' # "text" /\ piece' # "none"
       /\ ret' = "running"
  BY <1>5
<1>13. Listing'
  BY <1>10, <1>11, <1>12 DEF Listing, Between
<1> QED
  BY <1>5, <1>6, <1>12, <1>13 DEF Following, Ended

LEMMA IdleAgain ==
    (FInv /\ out = <<>> /\ ret = "none" => Following /\ Ended)'
<1>1. FInv /\ out = <<>> /\ ret = "none" => Following /\ Ended
  BY IdleRight
<1> QED
  BY <1>1, PTL

LEMMA WrittenInit == DbgInit => Written
<1> SUFFICES ASSUME DbgInit PROVE Written
  OBVIOUS
<1>1. DInv
  BY InitDbg
<1>2. out = <<>> /\ ret = "none" /\ piece = "none" /\ FInv
  BY <1>1 DEF DbgInit, Init, DInv
<1>3. out \in Seq(Token) /\ Following /\ Ended
  BY <1>2, EmptySeq, IdleRight
<1> QED
  BY <1>1, <1>2, <1>3 DEF Written, Listing

LEMMA WrittenNext == Written /\ [DbgNext]_dbgVars => Written'
<1> SUFFICES ASSUME Written, [DbgNext]_dbgVars PROVE Written'
  OBVIOUS
<1>1. DInv' /\ FInv' /\ FInv /\ Inside /\ Stopping /\ out \in Seq(Token)
  BY NextDbg DEF Written, DInv
<1> SUFFICES out' \in Seq(Token) /\ Following' /\ Listing' /\ Ended'
  BY <1>1 DEF Written
<1>2. ASSUME NEW s \in Slices, SliceDbgFmt(s) \/ StrDbgFmt(s)
      PROVE  out' \in Seq(Token) /\ Following' /\ Listing' /\ Ended'
  BY <1>2, BeginDbgWrites
<1>3. CASE DbgStep
  <2>1. Underway
    <3>1. ret = "running" /\ piece # "none"
      BY <1>3 DEF DbgStep, Open, Item, Comma, LastItem, Close, Quote, Text,
                  Unquote
    <3> QED
      BY <1>1, <3>1 DEF Underway, Written
  <2> QED
    BY <1>3, <2>1, ItemsGo, RunesGo DEF DbgStep
<1>4. CASE FmtStep
  <2>1. out' \in Seq(Token) /\ Following' /\ Ended'
    BY <1>1, <1>4, StepTokens, StepFollows DEF FmtStep, Written
  <2>2. piece' = "none"
    BY <1>4 DEF FmtStep
  <2> QED
    BY <2>1, <2>2 DEF Listing
<1>5. CASE FmtCall
  <2>1. out' \in Seq(Token) /\ Following' /\ Ended'
    BY <1>1, <1>5, CallWrites
  <2>2. piece' = "none"
    <3>1. ret = "none" /\ piece' = piece
      BY <1>5 DEF FmtCall, Write, Writeln, WriteFmt, PadInc, PadDec, Begin,
                  Idle
    <3> QED
      BY <1>1, <3>1 DEF Stopping
  <2> QED
    BY <2>1, <2>2 DEF Listing
<1>6. CASE DbgReturn
  <2>1. out' = <<>> /\ ret' = "none"
    BY <1>6 DEF DbgReturn, Return
  <2>2. Following' /\ Ended'
    BY <1>1, <2>1, IdleAgain
  <2> QED
    BY <2>1, <2>2, EmptySeq DEF Listing
<1>7. CASE UNCHANGED dbgVars
  <2>1. /\ out' = out /\ ret' = ret /\ piece' = piece /\ i' = i
        /\ items' = items /\ fmt' = fmt /\ start' = start /\ at' = at
        /\ fmt_str' = fmt_str /\ e_fmt_str' = e_fmt_str
        /\ pad_level' = pad_level /\ is_line_padded' = is_line_padded
    BY <1>7 DEF dbgVars, vars
  <2>2. /\ Following' <=> Following
        /\ Listing' <=> Listing
        /\ Ended' <=> Ended
    <3>1. Now' = Now /\ \A n : Meant(n)' = Meant(n) /\ Taken(n)' = Taken(n)
      BY <2>1 DEF Now, With, Meant, Taken
    <3>2. Following' = Following
      BY <2>1 DEF Following, Going, FollowsText, FollowsSign, Directly, Now,
                  With,
                  Meant, Taken, Direct, Pending
    <3>3. Listing' = Listing
      BY <2>1 DEF Listing, Unsigned, Source, Before, Taken, Meant, Now, With,
                  Between
    <3>4. Ended' = Ended
      BY <2>1 DEF Ended, Right, PlainSucceeds, WellFormedSucceeds, Now, With,
                  Meant
    <3> QED
      BY <3>2, <3>3, <3>4
  <2> QED
    BY <1>1, <2>1, <2>2 DEF Written
<1> QED
  BY <1>2, <1>3, <1>4, <1>5, <1>6, <1>7 DEF DbgNext

\* In the middle of a call, too, what has been written is a beginning.
LEMMA WrittenRenders ==
    ASSUME Written
    PROVE  PlainRenders /\ PlainSucceeds
<1>1. FInv /\ Inside /\ out \in Seq(Token)
  BY DEF Written, DInv
<1>2. CASE ret # "running"
  <2>1. PlainSucceeds /\ (R!Plain(fmt) => Right)
    BY <1>2 DEF Written, Ended
  <2>2. CASE R!Plain(fmt)
    BY <1>1, <2>1, <2>2, RightRenders
  <2>3. CASE ~R!Plain(fmt)
    BY <2>1, <2>3 DEF PlainRenders
  <2> QED
    BY <2>2, <2>3, <2>1
<1>3. CASE ret = "running"
  <2>1. PlainSucceeds
    BY <1>3 DEF PlainSucceeds, WellFormedSucceeds
  <2>2. CASE R!Plain(fmt)
    <3>1. CASE piece = "none"
      <4>1. IsPrefix(out, Meant(e_fmt_str).out) /\ e_fmt_str \in 0..Len(fmt)
        BY <1>1, <1>3, <2>2, <3>1, GoingWrites DEF Written, Following
      <4>2. Right
        BY <1>3, <4>1 DEF Right
      <4> QED
        BY <1>1, <2>1, <4>2, RightRenders
    <3>2. CASE piece # "none"
      <4> DEFINE k == Before(piece, i, Len(items))
      <4>1. k \in 0..Len(fmt) /\ Meant(k) = Now
        <5>1. Underway
          BY <1>1, <1>3, <3>2 DEF Underway, Written
        <5> QED
          BY <5>1, UnderwayIs
      <4> HIDE DEF k
      <4>2. IsPrefix(out, Meant(k).out)
        <5>1. Now.out = out /\ <<>> \in Seq(Token)
          BY <1>1, NowIs, EmptySeq
        <5>2. IsPrefix(out, out)
          BY <1>1, <5>1, PrefixIs
        <5> QED
          BY <4>1, <5>1, <5>2
      <4>3. Right
        BY <1>3, <4>1, <4>2 DEF Right
      <4> QED
        BY <1>1, <2>1, <4>3, RightRenders
    <3> QED
      BY <3>1, <3>2
  <2>3. CASE ~R!Plain(fmt)
    BY <2>1, <2>3 DEF PlainRenders
  <2> QED
    BY <2>2, <2>3
<1> QED
  BY <1>2, <1>3

-----------------------------------------------------------------------------

\* What string_formatter_write, write_fmt, slice_dbg_fmt and str_dbg_fmt have
\* written is at all times a beginning of what their string means, read with
\* the "%%" that the code shows twice; and all of it, with the level and the
\* padding it asks for, once the call is OK.  A text may hold newlines: they are
\* copied, and begin no line to be indented.
THEOREM PlainRendersCorrect == DbgSpec => []PlainRenders
<1>1. Written => PlainRenders
  BY WrittenRenders
<1> QED
  BY WrittenInit, WrittenNext, <1>1, PTL DEF DbgSpec

\* string_formatter_write_fmt refuses a plain string, or stops at it, only if
\* it is malformed.
THEOREM PlainSucceedsCorrect == DbgSpec => []PlainSucceeds
<1>1. Written => PlainSucceeds
  BY WrittenRenders
<1> QED
  BY WrittenInit, WrittenNext, <1>1, PTL DEF DbgSpec
=============================================================================
