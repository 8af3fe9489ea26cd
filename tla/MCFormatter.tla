---------------------------- MODULE MCFormatter -----------------------------
\* Format strings for Formatter, up to MaxRunes runes, and slices for DbgFmt.
EXTENDS DbgFmt

CONSTANTS MaxRunes, Runes

\* "s" and "v" are read as "d" is, and "u" as any rune after an l.
AnyRunes == {"%", "l", "d", "+", "-", "x", "\n"}

Strings == UNION {[1..n -> Runes] : n \in 0..MaxRunes}

Word == {<<"x">>}

\* The second is S("\n") of the println macros.
Words == {<<"x">>, <<R!TextNewline>>}

\* Items, and runes.
UpToThree ==
    {<<>>, <<"x">>, <<"x", R!TextNewline>>, <<"x", R!TextNewline, "z">>}
=============================================================================
