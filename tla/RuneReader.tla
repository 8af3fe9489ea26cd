----------------------------- MODULE RuneReader -----------------------------
(***************************************************************************)
(* Reading a str_t rune by rune and encoding each into a second buffer of  *)
(* its size, as test_string.c does; the counting is str_rune_len's.  The   *)
(* string is an encoding of some runes that may have lost its last bytes.  *)
(***************************************************************************)
EXTENDS Utf8, SequencesExt

CONSTANTS
    Runes,              \* the runes a string is made of
    MaxRunes,           \* bound: how many
    MaxCut              \* bound: how many bytes are lost

ASSUME RunesAssumption ==
    Runes \subseteq 0..MaxRune /\ MaxRunes \in Nat /\ MaxCut \in Nat

VARIABLES
    runes,              \* what the string was made of
    input,              \* its bytes
    read,               \* bytes read (self, then istr_it)
    output,             \* bytes written (up to ostr_it)
    len,                \* runes read
    ret                 \* "running", "panic", or the result of str_rune_len

vars == <<runes, input, read, output, len, ret>>

Encodings(rs) == FlattenSeq([n \in DOMAIN rs |-> Encoded(rs[n])])

Init ==
    /\ runes \in UNION {[1..n -> Runes] : n \in 0..MaxRunes}
    /\ \E cut \in 0..MaxCut :
          input = SubSeq(Encodings(runes), 1, Len(Encodings(runes)) - cut)
    /\ read = 0
    /\ output = <<>>
    /\ len = 0
    /\ ret = "running"

Rest == SubSeq(input, read + 1, Len(input))

\* One rune is read and encoded; the encoder is asserted to succeed.
NextRune ==
    /\ ret = "running"
    /\ NextError(Rest) = "OK"
    /\ read' = read + LeadSize(Rest[1])
    /\ len' = len + 1
    /\ LET r == Decoded(Rest) IN
       IF EncodeError(r, Len(input) - Len(output)) = "OK"
       THEN output' = output \o Encoded(r) /\ UNCHANGED ret
       ELSE ret' = "panic" /\ UNCHANGED output
    /\ UNCHANGED <<runes, input>>

\* The end of the string is the end of the loop, any other error its result.
\* (A slip: only the end of the string ends the loop.)
StopAtEndOnly ==
    /\ ret = "running"
    /\ NextError(Rest) = "EMPTY_STRING"
    /\ ret' = "OK"
    /\ UNCHANGED <<runes, input, read, output, len>>

Stop ==
    /\ ret = "running"
    /\ NextError(Rest) # "OK"
    /\ ret' = IF NextError(Rest) = "EMPTY_STRING" THEN "OK" ELSE NextError(Rest)
    /\ UNCHANGED <<runes, input, read, output, len>>

Next == NextRune \/ Stop

Spec == Init /\ [][Next]_vars /\ WF_vars(Next)

-----------------------------------------------------------------------------

\* The string is read rune by rune, each is encoded to the bytes it was read
\* from, and the target always has room for it.
Transcodes ==
    /\ output = SubSeq(input, 1, read)
    /\ output = Encodings(SubSeq(runes, 1, len))
    /\ ret # "panic"

\* A string that lost bytes is read up to its last whole rune, and is refused
\* unless it lost whole runes; one that lost none is read to its end.
CutIsFound ==
    /\ ret = "OK" => read = Len(input)
    /\ ret = "INCOMPLETE_RUNE" =>
          /\ len < Len(runes)
          /\ IsStrictPrefix(Rest, Encoded(runes[len + 1]))
    /\ ret \in {"running", "OK", "INCOMPLETE_RUNE"}

\* Reading ends.
Ends == <>(ret # "running")
=============================================================================
