---------------------------- MODULE MCRuneReader ----------------------------
\* The runes on either side of each change of size.
EXTENDS RuneReader

Boundaries ==
    {0, 127, 128, 191, 2047, 2048, 4095, 65535, 65536, 262144, MaxRune}
=============================================================================
