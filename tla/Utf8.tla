-------------------------------- MODULE Utf8 --------------------------------
(***************************************************************************)
(* The rune decoder and encoder of string.h, on sequences of bytes.  The   *)
(* masks and shifts of the code are remainders and quotients by powers of  *)
(* two, and its ors are sums of disjoint bits.                             *)
(***************************************************************************)
EXTENDS Integers, Sequences

Byte == 0..255
MaxRune == 1114111                          \* 0x10ffff

\* The size of a rune by its first byte; 0 if no rune begins with it.
\* (A slip: the last lead byte of four is left out.)
LeadSizeShort(c) ==
    CASE c < 128 -> 1
      [] 128 <= c /\ c < 224 -> 2
      [] 224 <= c /\ c < 240 -> 3
      [] 240 <= c /\ c < 244 -> 4
      [] OTHER -> 0
LeadSize(c) ==
    CASE c < 128 -> 1
      [] 128 <= c /\ c < 224 -> 2
      [] 224 <= c /\ c < 240 -> 3
      [] 240 <= c /\ c < 248 -> 4
      [] OTHER -> 0

\* The low six bits, which every byte but the first contributes.
Low(c) == c % 64

\* (A slip: one bit too few of the first byte.)
DecodedNarrow(s) ==
    CASE LeadSize(s[1]) = 1 -> s[1]
      [] LeadSize(s[1]) = 2 -> (s[1] % 16) * 64 + Low(s[2])
      [] LeadSize(s[1]) = 3 ->
             (s[1] % 16) * 4096 + Low(s[2]) * 64 + Low(s[3])
      [] LeadSize(s[1]) = 4 ->
             (s[1] % 8) * 262144 + Low(s[2]) * 4096 + Low(s[3]) * 64 + Low(s[4])
Decoded(s) ==
    CASE LeadSize(s[1]) = 1 -> s[1]
      [] LeadSize(s[1]) = 2 -> (s[1] % 32) * 64 + Low(s[2])
      [] LeadSize(s[1]) = 3 ->
             (s[1] % 16) * 4096 + Low(s[2]) * 64 + Low(s[3])
      [] LeadSize(s[1]) = 4 ->
             (s[1] % 8) * 262144 + Low(s[2]) * 4096 + Low(s[3]) * 64 + Low(s[4])

\* The error of str_next_rune.
NextError(s) ==
    CASE s = <<>> -> "EMPTY_STRING"
      [] s # <<>> /\ LeadSize(s[1]) = 0 -> "INVALID_RUNE"
      [] s # <<>> /\ LeadSize(s[1]) > Len(s) -> "INCOMPLETE_RUNE"
      [] OTHER -> "OK"

\* The size of the encoding of a rune; 0 if it has none.
EncodedSize(r) ==
    CASE r < 128 -> 1
      [] 128 <= r /\ r < 2048 -> 2
      [] 2048 <= r /\ r < 65536 -> 3
      [] 65536 <= r /\ r <= MaxRune -> 4
      [] OTHER -> 0

Encoded(r) ==
    CASE EncodedSize(r) = 1 -> <<r>>
      [] EncodedSize(r) = 2 -> <<192 + (r \div 64), 128 + Low(r)>>
      [] EncodedSize(r) = 3 ->
             <<224 + (r \div 4096), 128 + Low(r \div 64), 128 + Low(r)>>
      [] EncodedSize(r) = 4 ->
             <<240 + (r \div 262144), 128 + Low(r \div 4096),
               128 + Low(r \div 64), 128 + Low(r)>>

\* The error of str_encode_next_rune for a target of n bytes.
EncodeError(r, n) ==
    CASE EncodedSize(r) = 0 -> "INVALID_RUNE"
      [] EncodedSize(r) > n -> "SMALL_TARGET"
      [] OTHER -> "OK"
=============================================================================
