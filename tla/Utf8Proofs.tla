----------------------------- MODULE Utf8Proofs -----------------------------
(***************************************************************************)
(* The decoder undoes the encoder for every rune, whatever bytes follow;   *)
(* and RuneReader, which reads whole strings with it, for every set of     *)
(* runes, every string of them and every number of bytes lost.             *)
(***************************************************************************)
EXTENDS RuneReader, SequenceTheorems, WellFoundedInduction, TLAPS

\* What remains and what is taken by a power of two.
LEMMA Digit ==
    ASSUME NEW r \in Nat
    PROVE  r = 64 * (r \div 64) + Low(r) /\ Low(r) \in 0..63
BY SMT DEF Low

LEMMA Digits ==
    ASSUME NEW r \in Nat
    PROVE  /\ (r \div 64) \div 64 = r \div 4096
           /\ (r \div 4096) \div 64 = r \div 262144
           /\ r \div 64 \in Nat /\ r \div 4096 \in Nat /\ r \div 262144 \in Nat
BY SMT

\* A rune is the sum of what three bytes contribute, or four.
SumOfThree(r) ==
    r = 4096 * (r \div 4096) + 64 * Low(r \div 64) + Low(r)
SumOfFour(r) ==
    r = 262144 * (r \div 262144) + 4096 * Low(r \div 4096)
            + 64 * Low(r \div 64) + Low(r)

LEMMA Sums ==
    ASSUME NEW r \in Nat
    PROVE  SumOfThree(r) /\ SumOfFour(r)
<1>. DEFINE q == r \div 64  p == r \div 4096  o == r \div 262144
<1>1. q \in Nat /\ p \in Nat /\ o \in Nat /\ q \div 64 = p /\ p \div 64 = o
  BY Digits, SMT
<1>2. r = 64 * q + Low(r) /\ Low(r) \in 0..63
  BY Digit, SMT
<1>. HIDE DEF q, p, o
<1>3. q = 64 * (q \div 64) + Low(q) /\ Low(q) \in 0..63
  BY <1>1, SMT DEF Low
<1>4. p = 64 * (p \div 64) + Low(p) /\ Low(p) \in 0..63
  BY <1>1, SMT DEF Low
<1>5. q = 64 * p + Low(q) /\ p = 64 * o + Low(p)
  BY <1>1, <1>3, <1>4, SMT
<1>6. ASSUME NEW x \in Nat, NEW y \in Nat, NEW z \in Nat,
             r = 64 * q + x, q = 64 * p + y, p = 64 * o + z
      PROVE  /\ r = 4096 * p + 64 * y + x
             /\ r = 262144 * o + 4096 * z + 64 * y + x
  BY <1>1, <1>6, SMT
<1>7. /\ r = 4096 * p + 64 * Low(q) + Low(r)
      /\ r = 262144 * o + 4096 * Low(p) + 64 * Low(q) + Low(r)
  <2>1. Low(r) \in Nat /\ Low(q) \in Nat /\ Low(p) \in Nat
    BY <1>2, <1>3, <1>4, SMT
  <2>. QED  BY <2>1, <1>2, <1>5, <1>6, SMT
<1>. QED  BY <1>7, SMT DEF q, p, o, SumOfThree, SumOfFour

\* The four sizes, and the quotient that the first byte holds.
LEMMA Sizes ==
    ASSUME NEW r \in Nat, r <= MaxRune
    PROVE  \/ r < 128 /\ EncodedSize(r) = 1
           \/ EncodedSize(r) = 2 /\ r \div 64 \in 2..31
           \/ EncodedSize(r) = 3 /\ r \div 4096 \in 0..15
           \/ EncodedSize(r) = 4 /\ r \div 262144 \in 0..4
BY SMT DEF EncodedSize, MaxRune

\* How a first byte is told.
LEMMA LeadSizes ==
    ASSUME NEW c \in Int
    PROVE  /\ c < 128 => LeadSize(c) = 1
           /\ 192 <= c /\ c < 224 => LeadSize(c) = 2
           /\ 224 <= c /\ c < 240 => LeadSize(c) = 3
           /\ 240 <= c /\ c < 248 => LeadSize(c) = 4
<1>1. c < 128 => LeadSize(c) = 1
  BY SMT DEF LeadSize
<1>2. 192 <= c /\ c < 224 => LeadSize(c) = 2
  BY SMT DEF LeadSize
<1>3. 224 <= c /\ c < 240 => LeadSize(c) = 3
  BY SMT DEF LeadSize
<1>4. 240 <= c /\ c < 248 => LeadSize(c) = 4
  BY SMT DEF LeadSize
<1>. QED  BY <1>1, <1>2, <1>3, <1>4

\* str_encode_next_rune makes one to four bytes, of which the first says how
\* many; str_next_rune reads the rune back, with anything after it.
THEOREM RoundTrip ==
    ASSUME NEW r \in Nat, r <= MaxRune, NEW tail \in Seq(Byte)
    PROVE  /\ Encoded(r) \in Seq(Byte)
           /\ Len(Encoded(r)) = EncodedSize(r)
           /\ NextError(Encoded(r) \o tail) = "OK"
           /\ LeadSize((Encoded(r) \o tail)[1]) = EncodedSize(r)
           /\ Decoded(Encoded(r) \o tail) = r
<1>. DEFINE s == Encoded(r) \o tail
<1>0. Len(tail) \in Nat
  OBVIOUS
<1>a. /\ Low(r) \in 0..63 /\ Low(r \div 64) \in 0..63
      /\ Low(r \div 4096) \in 0..63
      /\ r \div 64 \in Nat /\ r \div 4096 \in Nat /\ r \div 262144 \in Nat
  BY Digit, Digits, SMT
<1>1. CASE r < 128 /\ EncodedSize(r) = 1
  <2>1. Encoded(r) = <<r>>
    BY <1>1 DEF Encoded
  <2>2. r \in 0..127
    BY <1>1, SMT
  <2>3. LeadSize(r) = 1 /\ r \in Byte
    BY <1>1, LeadSizes, SMT DEF Byte
  <2>4. s[1] = r /\ Len(s) = 1 + Len(tail) /\ s # <<>>
    BY <2>1, <2>3, <1>0
  <2>. HIDE DEF s
  <2>5. LeadSize(s[1]) = 1
    BY <2>3, <2>4
  <2>6. Decoded(s) = r
    BY <2>4, <2>5, SMT DEF Decoded
  <2>7. NextError(s) = "OK"
    BY <2>4, <2>5, <1>0, SMT DEF NextError
  <2>8. Encoded(r) \in Seq(Byte) /\ Len(Encoded(r)) = 1
    BY <2>1, <2>3
  <2>. QED  BY <2>5, <2>6, <2>7, <2>8, <1>1 DEF s
<1>2. CASE EncodedSize(r) = 2 /\ r \div 64 \in 2..31
  <2>. DEFINE o == r \div 64  l2 == Low(r)
              b1 == 192 + o  b2 == 128 + l2
  <2>1. Encoded(r) = <<b1, b2>>
    BY <1>2, SMT DEF Encoded
  <2>2. r = 64 * o + l2
    BY Digit, Zenon
  <2>3. o \in 0..31 /\ l2 \in 0..63
    BY <1>2, <1>a, SMT
  <2>. HIDE DEF o, l2
  <2>4. b1 % 32 = o /\ b1 \in 192..223
    BY <2>3, SMT
  <2>b2. Low(b2) = l2 /\ b2 \in Byte
    BY <2>3, SMT DEF Low, Byte
  <2>. HIDE DEF b1, b2
  <2>b1. LeadSize(b1) = 2 /\ b1 \in Byte
    BY <2>4, LeadSizes, SMT DEF Byte
  <2>5. /\ s[1] = b1 /\ s[2] = b2
        /\ Len(s) = 2 + Len(tail) /\ s # <<>>
    BY <2>1, <2>b1, <2>b2, <1>0
  <2>. HIDE DEF s
  <2>6. LeadSize(s[1]) = 2
    BY <2>b1, <2>5
  <2>7. Decoded(s) = (s[1] % 32) * 64 + Low(s[2])
    BY <2>6, SMT DEF Decoded
  <2>8. Decoded(s) = r
    BY <2>2, <2>3, <2>4, <2>b1, <2>b2, <2>5, <2>7, SMT
  <2>9. NextError(s) = "OK"
    BY <2>5, <2>6, <1>0, SMT DEF NextError
  <2>10. Encoded(r) \in Seq(Byte) /\ Len(Encoded(r)) = 2
    BY <2>1, <2>b1, <2>b2
  <2>. QED  BY <2>6, <2>8, <2>9, <2>10, <1>2 DEF s
<1>3. CASE EncodedSize(r) = 3 /\ r \div 4096 \in 0..15
  <2>. DEFINE o == r \div 4096  l2 == Low(r \div 64)  l3 == Low(r)
              b1 == 224 + o  b2 == 128 + l2  b3 == 128 + l3
  <2>1. Encoded(r) = <<b1, b2, b3>>
    BY <1>3, SMT DEF Encoded
  <2>2. r = 4096 * o + 64 * l2 + l3
    <3>1. SumOfThree(r)
      BY Sums
    <3>. QED  BY <3>1, SMT DEF SumOfThree
  <2>3. o \in 0..15 /\ l2 \in 0..63 /\ l3 \in 0..63
    BY <1>3, <1>a, SMT
  <2>. HIDE DEF o, l2, l3
  <2>4. b1 % 16 = o /\ b1 \in 224..239
    BY <2>3, SMT
  <2>b2. Low(b2) = l2 /\ b2 \in Byte
    BY <2>3, SMT DEF Low, Byte
  <2>b3. Low(b3) = l3 /\ b3 \in Byte
    BY <2>3, SMT DEF Low, Byte
  <2>. HIDE DEF b1, b2, b3
  <2>b1. LeadSize(b1) = 3 /\ b1 \in Byte
    BY <2>4, LeadSizes, SMT DEF Byte
  <2>5. /\ s[1] = b1 /\ s[2] = b2 /\ s[3] = b3
        /\ Len(s) = 3 + Len(tail) /\ s # <<>>
    BY <2>1, <2>b1, <2>b2, <2>b3, <1>0
  <2>. HIDE DEF s
  <2>6. LeadSize(s[1]) = 3
    BY <2>b1, <2>5
  <2>7. Decoded(s) = (s[1] % 16) * 4096 + Low(s[2]) * 64 + Low(s[3])
    BY <2>6, SMT DEF Decoded
  <2>8. Decoded(s) = r
    BY <2>2, <2>3, <2>4, <2>b1, <2>b2, <2>b3, <2>5, <2>7, SMT
  <2>9. NextError(s) = "OK"
    BY <2>5, <2>6, <1>0, SMT DEF NextError
  <2>10. Encoded(r) \in Seq(Byte) /\ Len(Encoded(r)) = 3
    BY <2>1, <2>b1, <2>b2, <2>b3
  <2>. QED  BY <2>6, <2>8, <2>9, <2>10, <1>3 DEF s
<1>4. CASE EncodedSize(r) = 4 /\ r \div 262144 \in 0..4
  <2>. DEFINE o == r \div 262144  l2 == Low(r \div 4096)
              l3 == Low(r \div 64)  l4 == Low(r)
              b1 == 240 + o  b2 == 128 + l2  b3 == 128 + l3  b4 == 128 + l4
  <2>1. Encoded(r) = <<b1, b2, b3, b4>>
    BY <1>4, SMT DEF Encoded
  <2>2. r = 262144 * o + 4096 * l2 + 64 * l3 + l4
    <3>1. SumOfFour(r)
      BY Sums
    <3>. QED  BY <3>1, SMT DEF SumOfFour
  <2>3. o \in 0..7 /\ l2 \in 0..63 /\ l3 \in 0..63 /\ l4 \in 0..63
    BY <1>4, <1>a, SMT
  <2>. HIDE DEF o, l2, l3, l4
  <2>4. b1 % 8 = o /\ b1 \in 240..247
    BY <2>3, SMT
  <2>b2. Low(b2) = l2 /\ b2 \in Byte
    BY <2>3, SMT DEF Low, Byte
  <2>b3. Low(b3) = l3 /\ b3 \in Byte
    BY <2>3, SMT DEF Low, Byte
  <2>b4. Low(b4) = l4 /\ b4 \in Byte
    BY <2>3, SMT DEF Low, Byte
  <2>. HIDE DEF b1, b2, b3, b4
  <2>b1. LeadSize(b1) = 4 /\ b1 \in Byte
    BY <2>4, LeadSizes, SMT DEF Byte
  <2>5. /\ s[1] = b1 /\ s[2] = b2 /\ s[3] = b3 /\ s[4] = b4
        /\ Len(s) = 4 + Len(tail) /\ s # <<>>
    BY <2>1, <2>b1, <2>b2, <2>b3, <2>b4, <1>0
  <2>. HIDE DEF s
  <2>6. LeadSize(s[1]) = 4
    BY <2>b1, <2>5
  <2>7. Decoded(s) = (s[1] % 8) * 262144 + Low(s[2]) * 4096
                     + Low(s[3]) * 64 + Low(s[4])
    BY <2>6, SMT DEF Decoded
  <2>8. Decoded(s) = r
    BY <2>2, <2>3, <2>4, <2>b1, <2>b2, <2>b3, <2>b4, <2>5, <2>7, SMT
  <2>9. NextError(s) = "OK"
    BY <2>5, <2>6, <1>0, SMT DEF NextError
  <2>10. Encoded(r) \in Seq(Byte) /\ Len(Encoded(r)) = 4
    BY <2>1, <2>b1, <2>b2, <2>b3, <2>b4
  <2>. QED  BY <2>6, <2>8, <2>9, <2>10, <1>4 DEF s
<1>. QED  BY <1>1, <1>2, <1>3, <1>4, Sizes

-----------------------------------------------------------------------------
(* Numbers.                                                                *)

\* A set of numbers has a least one.
LEMMA LeastElement ==
    ASSUME NEW S, S \subseteq Nat, S # {}
    PROVE  \E x \in S : \A y \in S : x <= y
<1>1. PICK R : /\ IsWellFoundedOn(R, Nat)
               /\ \A x, y \in Nat : x < y => <<x, y>> \in R
  <2> DEFINE T == OpToRel(<, Nat)
  <2>1. IsWellFoundedOn(T, Nat)
    BY NatLessThanWellFounded
  <2>2. \A x, y \in Nat : x < y => <<x, y>> \in T
    BY DEF OpToRel
  <2> HIDE DEF T
  <2> QED
    BY <2>1, <2>2
<1>2. IsWellFoundedOn(R, Nat)
  BY <1>1
<1>3. PICK x \in S : \A y \in S : ~ (<<y, x>> \in R)
  BY <1>2, WFMin
<1>4. ASSUME NEW y \in S PROVE x <= y
  <2>1. x \in Nat /\ y \in Nat /\ ~(y < x)
    BY <1>1, <1>3
  <2> QED
    BY <2>1
<1> QED
  BY <1>4

-----------------------------------------------------------------------------
(* FlattenSeq.                                                             *)

\* The concatenations of the first one to n entries of s.
Joined(s, n, f) ==
    f = [i \in 1..n |-> IF i = 1 THEN s[i] ELSE f[i - 1] \o s[i]]

\* Each is the one before it and one entry more.
LEMMA JoinedAt ==
    ASSUME NEW s, NEW n \in Nat, NEW f, Joined(s, n, f), NEW i \in 1..n
    PROVE  f[i] = IF i = 1 THEN s[i] ELSE f[i - 1] \o s[i]
BY DEF Joined

\* There are such concatenations, of any entries.
LEMMA JoinedExists ==
    ASSUME NEW s, NEW n \in Nat
    PROVE  \E f : Joined(s, n, f)
<1> DEFINE Off == {m \in Nat : ~ \E f : Joined(s, m, f)}
<1>1. CASE Off = {}
  BY <1>1
<1>2. CASE Off # {}
  <2>1. Off \subseteq Nat
    OBVIOUS
  <2>2. PICK m \in Off : \A l \in Off : m <= l
    BY <1>2, <2>1, LeastElement
  <2>3. m \in Nat /\ ~ \E f : Joined(s, m, f)
    OBVIOUS
  <2>4. CASE m = 0
    <3>1. Joined(s, 0, [i \in {} |-> s])
      BY DEF Joined
    <3> QED
      BY <2>3, <2>4, <3>1
  <2>5. CASE m # 0
    <3>1. m - 1 \in Nat /\ ~(m <= m - 1)
      BY <2>3, <2>5
    <3>2. PICK f : Joined(s, m - 1, f)
      BY <2>2, <3>1
    <3> DEFINE last == IF m = 1 THEN s[m] ELSE f[m - 1] \o s[m]
               g == [i \in 1..m |-> IF i = m THEN last ELSE f[i]]
    <3>3. ASSUME NEW i \in 1..m
          PROVE  g[i] = IF i = 1 THEN s[i] ELSE g[i - 1] \o s[i]
      <4>1. CASE i = m /\ i = 1
        BY <4>1
      <4>2. CASE i = m /\ i # 1
        <5>1. i - 1 \in 1..m /\ i - 1 # m
          BY <4>2, <2>3
        <5>2. g[i - 1] = f[i - 1] /\ g[i] = last
          BY <4>2, <5>1
        <5> QED
          BY <4>2, <5>2
      <4>3. CASE i # m
        <5>1. i \in 1..(m - 1)
          BY <4>3, <2>3
        <5>2. f[i] = IF i = 1 THEN s[i] ELSE f[i - 1] \o s[i]
          BY <3>1, <3>2, <5>1, JoinedAt
        <5>3. i # 1 => i - 1 \in 1..m /\ i - 1 # m
          BY <5>1, <2>3
        <5>4. i # 1 => g[i - 1] = f[i - 1]
          BY <5>3
        <5>5. g[i] = f[i]
          BY <4>3
        <5> HIDE DEF g
        <5> QED
          BY <5>2, <5>4, <5>5
      <4> QED
        BY <4>1, <4>2, <4>3
    <3>4. Joined(s, m, g)
      <4>1. [i \in 1..m |-> g[i]] = g
        OBVIOUS
      <4>2. [i \in 1..m |-> g[i]] =
              [i \in 1..m |-> IF i = 1 THEN s[i] ELSE g[i - 1] \o s[i]]
        <5> HIDE DEF g
        <5> QED
          BY <3>3
      <4> QED
        BY <4>1, <4>2 DEF Joined
    <3> QED
      BY <2>3, <3>4
  <2> QED
    BY <2>4, <2>5
<1> QED
  BY <1>1, <1>2

\* There is one way only, for entries that agree.
LEMMA JoinedAgree ==
    ASSUME NEW s, NEW t, NEW n \in Nat, NEW m \in Nat, n <= m,
           NEW f, Joined(s, n, f), NEW g, Joined(t, m, g),
           \A i \in 1..n : s[i] = t[i]
    PROVE  \A i \in 1..n : f[i] = g[i]
<1> DEFINE Off == {i \in 1..n : f[i] # g[i]}
<1>1. CASE Off = {}
  BY <1>1
<1>2. CASE Off # {}
  <2>1. Off \subseteq Nat
    OBVIOUS
  <2>2. PICK i \in Off : \A l \in Off : i <= l
    BY <1>2, <2>1, LeastElement
  <2>3. i \in 1..n /\ f[i] # g[i] /\ i \in 1..m
    OBVIOUS
  <2>4. f[i] = IF i = 1 THEN s[i] ELSE f[i - 1] \o s[i]
    BY <2>3, JoinedAt
  <2>5. g[i] = IF i = 1 THEN t[i] ELSE g[i - 1] \o t[i]
    BY <2>3, JoinedAt
  <2>6. i # 1 => f[i - 1] = g[i - 1]
    <3>1. i # 1 => i - 1 \in 1..n /\ ~(i <= i - 1)
      BY <2>3
    <3> QED
      BY <2>2, <3>1
  <2>7. s[i] = t[i]
    BY <2>3
  <2> QED
    BY <2>3, <2>4, <2>5, <2>6, <2>7
<1> QED
  BY <1>1, <1>2

\* What FlattenSeq is, by any such concatenations.
LEMMA FlattenJoined ==
    ASSUME NEW S, NEW s \in Seq(S), s # <<>>, NEW f, Joined(s, Len(s), f)
    PROVE  FlattenSeq(s) = f[Len(s)]
<1>1. Len(s) \in Nat /\ Len(s) # 0
  BY LenProperties, EmptySeq
<1> DEFINE flatten == CHOOSE g : Joined(s, Len(s), g)
<1>2. Joined(s, Len(s), flatten)
  OBVIOUS
<1>3. FlattenSeq(s) = flatten[Len(s)]
  BY <1>1 DEF FlattenSeq, Joined
<1> HIDE DEF flatten
<1>4. \A i \in 1..Len(s) : flatten[i] = f[i]
  BY <1>1, <1>2, JoinedAgree
<1> QED
  BY <1>1, <1>3, <1>4

\* FlattenSeq of nothing.
LEMMA FlattenEmpty == FlattenSeq(<<>>) = <<>>
<1>1. Len(<<>>) = 0
  OBVIOUS
<1> QED
  BY <1>1, SMT DEF FlattenSeq

\* FlattenSeq, one sequence more.
LEMMA FlattenAppend ==
    ASSUME NEW S, NEW s \in Seq(S), NEW e \in S
    PROVE  FlattenSeq(Append(s, e)) = IF s = <<>> THEN e ELSE FlattenSeq(s) \o e
<1> DEFINE t == Append(s, e)
           n == Len(s)
<1>1. /\ t \in Seq(S) /\ Len(t) = n + 1 /\ n \in Nat
      /\ \A i \in 1..n : t[i] = s[i]
      /\ t[n + 1] = e
  BY AppendProperties, LenProperties
<1> HIDE DEF t
<1>2. t # <<>> /\ n + 1 \in Nat /\ n + 1 \in 1..(n + 1)
  BY <1>1
<1>3. PICK g : Joined(t, n + 1, g)
  BY <1>2, JoinedExists
<1>4. FlattenSeq(t) = g[n + 1]
  BY <1>1, <1>2, <1>3, FlattenJoined
<1>5. g[n + 1] = IF n + 1 = 1 THEN t[n + 1] ELSE g[n] \o t[n + 1]
  <2>1. g[n + 1] = IF n + 1 = 1 THEN t[n + 1] ELSE g[(n + 1) - 1] \o t[n + 1]
    BY <1>2, <1>3, JoinedAt
  <2>2. (n + 1) - 1 = n
    BY <1>1
  <2> QED
    BY <2>1, <2>2
<1>6. CASE s = <<>>
  BY <1>1, <1>4, <1>5, <1>6 DEF t
<1>7. CASE s # <<>>
  <2>1. n # 0 /\ n \in 1..n /\ n + 1 # 1
    BY <1>1, <1>7, EmptySeq
  <2>2. PICK f : Joined(s, n, f)
    BY <1>1, JoinedExists
  <2>3. FlattenSeq(s) = f[n]
    BY <1>7, <2>2, FlattenJoined
  <2>4. \A i \in 1..n : f[i] = g[i]
    BY <1>1, <1>2, <1>3, <2>2, JoinedAgree
  <2> QED
    BY <1>1, <1>4, <1>5, <1>7, <2>1, <2>3, <2>4 DEF t
<1> QED
  BY <1>6, <1>7

-----------------------------------------------------------------------------
(* The encodings of a string, rune by rune.                                *)

Rune == 0..MaxRune
Codes(rs) == [n \in DOMAIN rs |-> Encoded(rs[n])]

\* The bytes of the first k runes.
FirstBytes(rs, k) == Encodings(SubSeq(rs, 1, k))

\* The bytes of one rune.
LEMMA CodeOf ==
    ASSUME NEW r \in Rune
    PROVE  /\ Encoded(r) \in Seq(Byte) /\ Len(Encoded(r)) = EncodedSize(r)
           /\ EncodedSize(r) \in 1..4
<1>1. r \in Nat /\ r <= MaxRune
  <2>1. MaxRune \in Int
    BY SMT DEF MaxRune
  <2> QED
    BY <2>1, SMT DEF Rune
<1> DEFINE none == <<>>
<1>0. none \in Seq(Byte)
  OBVIOUS
<1> HIDE DEF none
<1>2. Encoded(r) \in Seq(Byte) /\ Len(Encoded(r)) = EncodedSize(r)
  BY <1>0, <1>1, RoundTrip
<1>3. EncodedSize(r) \in 1..4
  BY <1>1, Sizes
<1> QED
  BY <1>2, <1>3

\* No rune has no bytes.
LEMMA FirstBytesNone ==
    ASSUME NEW rs \in Seq(Rune)
    PROVE  FirstBytes(rs, 0) = <<>>
<1>1. SubSeq(rs, 1, 0) = <<>>
  BY SubSeqEmpty
<1>2. DOMAIN SubSeq(rs, 1, 0) = {} /\ Codes(SubSeq(rs, 1, 0)) = <<>>
  BY <1>1 DEF Codes
<1>3. FirstBytes(rs, 0) = FlattenSeq(Codes(SubSeq(rs, 1, 0)))
  BY DEF FirstBytes, Encodings, Codes
<1> QED
  BY <1>2, <1>3, FlattenEmpty

\* All of the runes have all of the bytes.
LEMMA FirstBytesAll ==
    ASSUME NEW rs \in Seq(Rune)
    PROVE  FirstBytes(rs, Len(rs)) = Encodings(rs)
<1>1. SubSeq(rs, 1, Len(rs)) = rs
  BY SubSeqFull
<1> QED
  BY <1>1 DEF FirstBytes

\* One rune more, given that the bytes before it are bytes.
LEMMA FirstBytesStep ==
    ASSUME NEW rs \in Seq(Rune), NEW k \in 0..(Len(rs) - 1),
           FirstBytes(rs, k) \in Seq(Byte)
    PROVE  FirstBytes(rs, k + 1) = FirstBytes(rs, k) \o Encoded(rs[k + 1])
<1> DEFINE a == SubSeq(rs, 1, k)
           b == SubSeq(rs, 1, k + 1)
           e == Encoded(rs[k + 1])
<1>1. Len(rs) \in Nat /\ k \in Nat /\ k + 1 \in 1..Len(rs) /\ rs[k + 1] \in Rune
  BY LenProperties, ElementOfSeq
<1>2. /\ a \in Seq(Rune) /\ Len(a) = k /\ \A i \in 1..k : a[i] = rs[i]
      /\ DOMAIN a = 1..k
  <2>1. \A i \in 1..k : rs[i] \in Rune
    BY <1>1, ElementOfSeq
  <2>2. /\ a \in Seq(Rune) /\ Len(a) = IF 1 <= k THEN k - 1 + 1 ELSE 0
        /\ \A i \in 1..(k - 1 + 1) : a[i] = rs[1 + i - 1]
    BY <1>1, <2>1, SubSeqProperties
  <2>3. Len(a) = k /\ \A i \in 1..k : i \in 1..(k - 1 + 1) /\ 1 + i - 1 = i
    BY <1>1, <2>2
  <2> QED
    BY <2>2, <2>3, LenProperties
<1>3. /\ b \in Seq(Rune) /\ Len(b) = k + 1 /\ \A i \in 1..(k + 1) : b[i] = rs[i]
      /\ DOMAIN b = 1..(k + 1)
  <2>1. \A i \in 1..(k + 1) : rs[i] \in Rune
    BY <1>1, ElementOfSeq
  <2>2. /\ b \in Seq(Rune) /\ Len(b) = IF 1 <= k + 1 THEN k + 1 - 1 + 1 ELSE 0
        /\ \A i \in 1..(k + 1 - 1 + 1) : b[i] = rs[1 + i - 1]
    BY <1>1, <2>1, SubSeqProperties
  <2>3. /\ Len(b) = k + 1
        /\ \A i \in 1..(k + 1) : i \in 1..(k + 1 - 1 + 1) /\ 1 + i - 1 = i
    BY <1>1, <2>2
  <2> QED
    BY <2>2, <2>3, LenProperties
<1> HIDE DEF a, b
<1>4. e \in Seq(Byte)
  BY <1>1, CodeOf
<1> HIDE DEF e
<1>5. Codes(a) \in Seq(Seq(Byte)) /\ Len(Codes(a)) = k
  <2>1. \A i \in 1..k : a[i] \in Rune
    BY <1>2, ElementOfSeq
  <2>2. \A i \in 1..k : Encoded(a[i]) \in Seq(Byte)
    BY <2>1, CodeOf
  <2>3. Codes(a) \in [1..k -> Seq(Byte)]
    BY <1>2, <2>2 DEF Codes
  <2>4. Codes(a) \in Seq(Seq(Byte))
    BY <1>1, <2>3, SeqDef
  <2> QED
    BY <1>1, <2>3, <2>4, LenProperties
<1>6. Codes(b) = Append(Codes(a), e)
  <2>1. /\ Append(Codes(a), e) \in Seq(Seq(Byte))
        /\ Len(Append(Codes(a), e)) = k + 1
        /\ \A i \in 1..k : Append(Codes(a), e)[i] = Codes(a)[i]
        /\ Append(Codes(a), e)[k + 1] = e
    BY <1>4, <1>5, AppendProperties
  <2>2. Append(Codes(a), e) = [i \in 1..(k + 1) |-> Append(Codes(a), e)[i]]
    BY <2>1, LenProperties
  <2>3. ASSUME NEW i \in 1..(k + 1)
        PROVE  Encoded(b[i]) = Append(Codes(a), e)[i]
    <3>1. CASE i = k + 1
      BY <3>1, <1>3, <2>1 DEF e
    <3>2. CASE i # k + 1
      <4>1. i \in 1..k
        BY <1>1, <3>2
      <4>2. Codes(a)[i] = Encoded(a[i]) /\ a[i] = b[i]
        BY <4>1, <1>2, <1>3 DEF Codes
      <4> QED
        BY <2>1, <4>1, <4>2
    <3> QED
      BY <3>1, <3>2
  <2>4. Codes(b) = [i \in 1..(k + 1) |-> Encoded(b[i])]
    BY <1>3 DEF Codes
  <2> QED
    BY <2>2, <2>3, <2>4
<1>7. /\ FirstBytes(rs, k) = FlattenSeq(Codes(a))
      /\ FirstBytes(rs, k + 1) = FlattenSeq(Codes(b))
  BY DEF FirstBytes, Encodings, Codes, a, b
<1>8. FlattenSeq(Codes(b)) =
        IF Codes(a) = <<>> THEN e ELSE FlattenSeq(Codes(a)) \o e
  BY <1>4, <1>5, <1>6, FlattenAppend
<1>9. CASE Codes(a) = <<>>
  <2>1. FlattenSeq(Codes(a)) = <<>>
    BY <1>9, FlattenEmpty
  <2>2. <<>> \o e = e
    BY <1>4, ConcatEmptySeq
  <2> QED
    BY <1>7, <1>8, <1>9, <2>1, <2>2 DEF e
<1>10. CASE Codes(a) # <<>>
  BY <1>7, <1>8, <1>10 DEF e
<1> QED
  BY <1>9, <1>10

\* They are bytes, however many runes.
LEMMA FirstBytesAreBytes ==
    ASSUME NEW rs \in Seq(Rune)
    PROVE  \A k \in 0..Len(rs) : FirstBytes(rs, k) \in Seq(Byte)
<1>1. Len(rs) \in Nat
  BY LenProperties
<1> DEFINE Off == {k \in 0..Len(rs) : FirstBytes(rs, k) \notin Seq(Byte)}
<1>2. CASE Off = {}
  BY <1>2
<1>3. CASE Off # {}
  <2>1. Off \subseteq Nat
    BY <1>1
  <2>2. PICK k \in Off : \A l \in Off : k <= l
    BY <1>3, <2>1, LeastElement
  <2>3. k \in 0..Len(rs) /\ FirstBytes(rs, k) \notin Seq(Byte)
    OBVIOUS
  <2>4. k # 0
    <3>1. <<>> \in Seq(Byte)
      OBVIOUS
    <3> QED
      BY <2>3, <3>1, FirstBytesNone
  <2>5. PICK j \in 0..(Len(rs) - 1) : j + 1 = k
    <3>1. k - 1 \in 0..(Len(rs) - 1) /\ (k - 1) + 1 = k
      BY <1>1, <2>3, <2>4
    <3> QED
      BY <3>1
  <2>6. FirstBytes(rs, j) \in Seq(Byte)
    <3>1. j \in 0..Len(rs) /\ ~(k <= j)
      BY <1>1, <2>5
    <3> QED
      BY <2>2, <3>1
  <2>7. rs[k] \in Rune
    <3>1. k \in 1..Len(rs)
      BY <1>1, <2>3, <2>4
    <3> QED
      BY <3>1, ElementOfSeq
  <2>8. Encoded(rs[k]) \in Seq(Byte)
    BY <2>7, CodeOf
  <2>9. FirstBytes(rs, k) = FirstBytes(rs, j) \o Encoded(rs[k])
    BY <2>5, <2>6, FirstBytesStep
  <2>10. FirstBytes(rs, k) \in Seq(Byte)
    BY <2>6, <2>8, <2>9, ConcatProperties
  <2> QED
    BY <2>3, <2>10
<1> QED
  BY <1>2, <1>3

\* Concatenation is associative; stated for bytes, as the provers need it.
LEMMA Assoc ==
    \A s, t, u \in Seq(Byte) : (s \o t) \o u = s \o (t \o u)
<1> SUFFICES ASSUME NEW s \in Seq(Byte), NEW t \in Seq(Byte), NEW u \in Seq(Byte)
             PROVE  (s \o t) \o u = s \o (t \o u)
  OBVIOUS
<1> QED
  BY ConcatAssociative

\* The bytes of a string go on from those of its first k runes.
LEMMA FirstBytesPrefix ==
    ASSUME NEW rs \in Seq(Rune), NEW k \in 0..Len(rs)
    PROVE  \A m \in k..Len(rs) : \E tail \in Seq(Byte) :
              FirstBytes(rs, m) = FirstBytes(rs, k) \o tail
<1>1. Len(rs) \in Nat /\ k \in Nat /\ FirstBytes(rs, k) \in Seq(Byte)
  BY LenProperties, FirstBytesAreBytes
<1> DEFINE Goes(m) == \E tail \in Seq(Byte) :
                         FirstBytes(rs, m) = FirstBytes(rs, k) \o tail
           Off == {m \in k..Len(rs) : ~Goes(m)}
<1>2. CASE Off = {}
  BY <1>2
<1>3. CASE Off # {}
  <2>1. Off \subseteq Nat
    BY <1>1
  <2>2. PICK m \in Off : \A l \in Off : m <= l
    BY <1>3, <2>1, LeastElement
  <2>3. m \in k..Len(rs) /\ ~Goes(m)
    OBVIOUS
  <2>4. m # k
    <3>1. FirstBytes(rs, k) = FirstBytes(rs, k) \o <<>> /\ <<>> \in Seq(Byte)
      BY <1>1, ConcatEmptySeq
    <3> QED
      BY <2>3, <3>1
  <2>5. PICK j \in k..(Len(rs) - 1) : j + 1 = m
    <3>1. m - 1 \in k..(Len(rs) - 1) /\ (m - 1) + 1 = m
      BY <1>1, <2>3, <2>4
    <3> QED
      BY <3>1
  <2>6. j \in k..Len(rs) /\ ~(m <= j) /\ j \in 0..(Len(rs) - 1) /\ j \in 0..Len(rs)
    BY <1>1, <2>5
  <2>7. Goes(j)
    BY <2>2, <2>6
  <2>8. PICK tail \in Seq(Byte) : FirstBytes(rs, j) = FirstBytes(rs, k) \o tail
    BY <2>7
  <2>9. rs[m] \in Rune
    <3>1. m \in 1..Len(rs)
      BY <1>1, <2>5
    <3> QED
      BY <3>1, ElementOfSeq
  <2>10. Encoded(rs[m]) \in Seq(Byte)
    BY <2>9, CodeOf
  <2>11. FirstBytes(rs, m) = FirstBytes(rs, j) \o Encoded(rs[m])
    BY <2>5, <2>6, FirstBytesAreBytes, FirstBytesStep
  <2>12. FirstBytes(rs, m) = FirstBytes(rs, k) \o (tail \o Encoded(rs[m]))
    <3> DEFINE a == FirstBytes(rs, k)
               e == Encoded(rs[m])
    <3>1. a \in Seq(Byte) /\ tail \in Seq(Byte) /\ e \in Seq(Byte)
      BY <1>1, <2>10
    <3>2. FirstBytes(rs, m) = (a \o tail) \o e
      BY <2>8, <2>11
    <3> HIDE DEF a, e
    <3>3. (a \o tail) \o e = a \o (tail \o e)
      BY <3>1, Assoc
    <3> QED
      BY <3>2, <3>3 DEF a, e
  <2>13. tail \o Encoded(rs[m]) \in Seq(Byte)
    BY <2>8, <2>10, ConcatProperties
  <2> QED
    BY <2>3, <2>12, <2>13
<1> QED
  BY <1>2, <1>3

\* a begins with c.
Begins(a, c) == \E t \in Seq(Byte) : a = c \o t

\* Of two ways to part a sequence, the shorter start begins the longer.
LEMMA TwoParts ==
    ASSUME NEW a \in Seq(Byte), NEW b \in Seq(Byte), NEW c \in Seq(Byte),
           NEW d \in Seq(Byte), a \o b = c \o d
    PROVE  /\ Len(c) <= Len(a) => Begins(a, c)
           /\ Len(a) < Len(c) => IsStrictPrefix(a, c)
<1>1. /\ Len(a) \in Nat /\ Len(b) \in Nat /\ Len(c) \in Nat /\ Len(d) \in Nat
  BY LenProperties
<1>2. /\ \A i \in 1..(Len(a) + Len(b)) :
           (a \o b)[i] = IF i <= Len(a) THEN a[i] ELSE b[i - Len(a)]
      /\ \A i \in 1..(Len(c) + Len(d)) :
           (c \o d)[i] = IF i <= Len(c) THEN c[i] ELSE d[i - Len(c)]
      /\ Len(a) + Len(b) = Len(c) + Len(d)
  <2>1. Len(a \o b) = Len(a) + Len(b) /\ Len(c \o d) = Len(c) + Len(d)
    BY ConcatProperties
  <2> QED
    BY <2>1, ConcatProperties
<1>3. \A i \in 1..Len(a) : i <= Len(c) => a[i] = c[i]
  BY <1>1, <1>2
<1>4. ASSUME Len(c) <= Len(a) PROVE Begins(a, c)
  <2> DEFINE t == SubSeq(a, Len(c) + 1, Len(a))
  <2>1. \A i \in (Len(c) + 1)..Len(a) : a[i] \in Byte
    <3>1. \A i \in (Len(c) + 1)..Len(a) : i \in 1..Len(a)
      BY <1>1
    <3> QED
      BY <3>1, ElementOfSeq
  <2>2. /\ t \in Seq(Byte)
        /\ Len(t) = IF Len(c) + 1 <= Len(a) THEN Len(a) - (Len(c) + 1) + 1 ELSE 0
        /\ \A i \in 1..(Len(a) - (Len(c) + 1) + 1) : t[i] = a[Len(c) + 1 + i - 1]
    <3>1. Len(c) + 1 \in Int /\ Len(a) \in Int
      BY <1>1
    <3> QED
      BY <2>1, <3>1, SubSeqProperties
  <2>3. Len(t) = Len(a) - Len(c)
    BY <1>1, <1>4, <2>2
  <2>4. \A i \in 1..(Len(a) - Len(c)) : t[i] = a[Len(c) + i]
    <3>1. ASSUME NEW i \in 1..(Len(a) - Len(c))
          PROVE  /\ i \in 1..(Len(a) - (Len(c) + 1) + 1)
                 /\ Len(c) + 1 + i - 1 = Len(c) + i
      BY <1>1
    <3> QED
      BY <2>2, <3>1
  <2> HIDE DEF t
  <2>5. c \o t \in Seq(Byte) /\ Len(c \o t) = Len(a)
    <3>1. c \o t \in Seq(Byte) /\ Len(c \o t) = Len(c) + Len(t)
      BY <2>2, ConcatProperties
    <3> QED
      BY <1>1, <2>3, <3>1
  <2>6. ASSUME NEW i \in 1..Len(a) PROVE a[i] = (c \o t)[i]
    <3>1. i \in 1..(Len(c) + Len(t))
      BY <1>1, <2>3
    <3>2. (c \o t)[i] = IF i <= Len(c) THEN c[i] ELSE t[i - Len(c)]
      BY <2>2, <3>1, ConcatProperties
    <3>3. CASE i <= Len(c)
      BY <1>3, <3>2, <3>3
    <3>4. CASE ~(i <= Len(c))
      <4>1. i - Len(c) \in 1..(Len(a) - Len(c)) /\ Len(c) + (i - Len(c)) = i
        BY <1>1, <3>4
      <4>2. t[i - Len(c)] = a[i]
        BY <2>4, <4>1
      <4> QED
        BY <3>2, <3>4, <4>2
    <3> QED
      BY <3>3, <3>4
  <2>7. a = c \o t
    BY <2>5, <2>6, SeqEqual
  <2> QED
    BY <2>2, <2>7 DEF Begins
<1>5. ASSUME Len(a) < Len(c) PROVE IsStrictPrefix(a, c)
  <2>1. SubSeq(a, 1, Len(a)) = a
    BY SubSeqFull
  <2>2. \A i \in 1..Len(a) : i \in 1..Len(c) /\ c[i] \in Byte
    <3>1. \A i \in 1..Len(a) : i \in 1..Len(c)
      BY <1>1, <1>5
    <3> QED
      BY <3>1, ElementOfSeq
  <2> DEFINE p == SubSeq(c, 1, Len(a))
  <2>3. /\ p \in Seq(Byte) /\ Len(p) = IF 1 <= Len(a) THEN Len(a) - 1 + 1 ELSE 0
        /\ \A i \in 1..(Len(a) - 1 + 1) : p[i] = c[1 + i - 1]
    <3>1. 1 \in Int /\ Len(a) \in Int
      BY <1>1
    <3> QED
      BY <2>2, <3>1, SubSeqProperties
  <2>4. Len(p) = Len(a) /\ \A i \in 1..Len(a) : p[i] = c[i]
    <3>1. ASSUME NEW i \in 1..Len(a)
          PROVE  i \in 1..(Len(a) - 1 + 1) /\ 1 + i - 1 = i
      BY <1>1
    <3> QED
      BY <1>1, <2>3, <3>1
  <2> HIDE DEF p
  <2>5. \A i \in 1..Len(a) : a[i] = p[i]
    <3>1. \A i \in 1..Len(a) : i <= Len(c)
      BY <1>1, <1>5
    <3> QED
      BY <1>3, <2>4, <3>1
  <2>6. a = p
    BY <2>3, <2>4, <2>5, SeqEqual
  <2>7. a # c /\ Len(a) <= Len(c)
    BY <1>1, <1>5
  <2> QED
    BY <2>1, <2>6, <2>7 DEF IsStrictPrefix, IsPrefix, p
<1> QED
  BY <1>4, <1>5

\* The first and the rest of a concatenation.
LEMMA PartsOf ==
    ASSUME NEW S, NEW a \in Seq(S), NEW b \in Seq(S)
    PROVE  /\ SubSeq(a \o b, 1, Len(a)) = a
           /\ SubSeq(a \o b, Len(a) + 1, Len(a \o b)) = b
<1>1. /\ Len(a) \in Nat /\ Len(b) \in Nat /\ Len(a \o b) = Len(a) + Len(b)
  BY LenProperties, ConcatProperties
<1>2. SubSeq(a \o b, 1, Len(a)) = a
  <2>1. CASE Len(a) = 0
    BY <2>1, SubSeqEmpty, EmptySeq
  <2>2. CASE Len(a) # 0
    <3>1. 1 \in 1..Len(a) /\ Len(a) \in 1..Len(a)
      BY <1>1, <2>2
    <3>2. SubSeq(a \o b, 1, Len(a)) = SubSeq(a, 1, Len(a))
      BY <3>1, SubSeqOfConcat1
    <3> QED
      BY <3>2, SubSeqFull
  <2> QED
    BY <2>1, <2>2
<1>3. SubSeq(a \o b, Len(a) + 1, Len(a) + Len(b)) = b
  <2>1. CASE Len(b) = 0
    <3>1. Len(a) + 1 \in Int /\ Len(a) + Len(b) \in Int
          /\ Len(a) + Len(b) < Len(a) + 1
      BY <1>1, <2>1
    <3>2. SubSeq(a \o b, Len(a) + 1, Len(a) + Len(b)) = <<>>
      BY <3>1, SubSeqEmpty
    <3> QED
      BY <2>1, <3>2, EmptySeq
  <2>2. CASE Len(b) # 0
    <3> DEFINE m == Len(a) + 1
               n == Len(a) + Len(b)
    <3>1. m \in (Len(a) + 1)..(Len(a) + Len(b)) /\ n \in (Len(a) + 1)..(Len(a) + Len(b))
      BY <1>1, <2>2
    <3>2. m - Len(a) = 1 /\ n - Len(a) = Len(b)
      BY <1>1
    <3> HIDE DEF m, n
    <3>3. SubSeq(a \o b, m, n) = SubSeq(b, m - Len(a), n - Len(a))
      BY <3>1, SubSeqOfConcat2
    <3>4. SubSeq(b, 1, Len(b)) = b
      BY SubSeqFull
    <3> QED
      BY <3>2, <3>3, <3>4 DEF m, n
  <2> QED
    BY <2>1, <2>2
<1> QED
  BY <1>1, <1>2, <1>3

\* What is left of a string that loses its end.
LEMMA Cut ==
    ASSUME NEW S, NEW s \in Seq(S), NEW n \in Int, n <= Len(s)
    PROVE  /\ SubSeq(s, 1, n) \in Seq(S)
           /\ \E lost \in Seq(S) : SubSeq(s, 1, n) \o lost = s
<1>1. Len(s) \in Nat
  BY LenProperties
<1>2. CASE n < 1
  <2>1. SubSeq(s, 1, n) = <<>>
    BY <1>2, SubSeqEmpty
  <2>2. <<>> \in Seq(S) /\ <<>> \o s = s
    BY ConcatEmptySeq
  <2> QED
    BY <2>1, <2>2
<1>3. CASE ~(n < 1)
  <2>1. n \in Nat /\ n \in 0..Len(s)
    BY <1>1, <1>3
  <2>2. /\ \A i \in 1..n : s[i] \in S
        /\ \A i \in (n + 1)..Len(s) : s[i] \in S
    <3>1. \A i \in 1..Len(s) : s[i] \in S
      BY ElementOfSeq
    <3> QED
      BY <1>1, <2>1, <3>1
  <2>3. SubSeq(s, 1, n) \in Seq(S) /\ SubSeq(s, n + 1, Len(s)) \in Seq(S)
    <3>1. 1 \in Int /\ n \in Int /\ n + 1 \in Int /\ Len(s) \in Int
      BY <1>1, <2>1
    <3> QED
      BY <2>2, <3>1, SubSeqProperties
  <2>4. SubSeq(s, 1, n) \o SubSeq(s, n + 1, Len(s)) = SubSeq(s, 1, Len(s))
    <3>1. 1 \in 1..Len(s) + 1 /\ n \in (1 - 1)..Len(s) /\ Len(s) \in n..Len(s)
      BY <1>1, <2>1
    <3> QED
      BY <3>1, ConcatAdjacentSubSeq
  <2>5. SubSeq(s, 1, Len(s)) = s
    BY SubSeqFull
  <2> QED
    BY <2>3, <2>4, <2>5
<1> QED
  BY <1>2, <1>3

-----------------------------------------------------------------------------
(* The reader.                                                             *)

\* The input begins with what was written and is what the string began with.
Reads ==
    /\ runes \in Seq(Rune)
    /\ len \in 0..Len(runes)
    /\ input \in Seq(Byte)
    /\ output \in Seq(Byte)
    /\ output = FirstBytes(runes, len)
    /\ read = Len(output)
    /\ \E lost \in Seq(Byte) : input \o lost = Encodings(runes)
    /\ \E rest \in Seq(Byte) : input = output \o rest

RInv == Reads /\ CutIsFound

\* A string that lost bytes begins what it was made of.
LEMMA InitRInv == Init => RInv
<1> SUFFICES ASSUME Init PROVE RInv
  OBVIOUS
<1>1. PICK n \in 0..MaxRunes : runes \in [1..n -> Runes]
  BY DEF Init
<1>2. runes \in Seq(Rune) /\ Len(runes) \in Nat
  <2>1. n \in Nat /\ Runes \subseteq Rune
    BY RunesAssumption DEF Rune
  <2>2. runes \in [1..n -> Rune]
    BY <1>1, <2>1
  <2>3. runes \in Seq(Rune)
    BY <2>1, <2>2, SeqDef
  <2> QED
    BY <2>3, LenProperties
<1> DEFINE all == Encodings(runes)
<1>3. all \in Seq(Byte) /\ Len(all) \in Nat
  <2>1. Len(runes) \in 0..Len(runes)
    BY <1>2
  <2>2. FirstBytes(runes, Len(runes)) \in Seq(Byte)
    BY <1>2, <2>1, FirstBytesAreBytes
  <2>3. all \in Seq(Byte)
    BY <1>2, <2>2, FirstBytesAll
  <2> QED
    BY <2>3, LenProperties
<1> HIDE DEF all
<1>4. PICK cut \in 0..MaxCut : input = SubSeq(all, 1, Len(all) - cut)
  BY DEF Init, all
<1>5. Len(all) - cut \in Int /\ Len(all) - cut <= Len(all)
  BY <1>3, RunesAssumption
<1>6. input \in Seq(Byte) /\ \E lost \in Seq(Byte) : input \o lost = all
  BY <1>3, <1>4, <1>5, Cut
<1>7. read = 0 /\ output = <<>> /\ len = 0 /\ ret = "running"
  BY DEF Init
<1>8. /\ output \in Seq(Byte) /\ output = FirstBytes(runes, len)
      /\ Len(output) = 0 /\ input = output \o input
  <2>1. <<>> \in Seq(Byte) /\ Len(<<>>) = 0
    OBVIOUS
  <2>2. <<>> \o input = input
    BY <1>6, ConcatEmptySeq
  <2>3. FirstBytes(runes, 0) = <<>>
    BY <1>2, FirstBytesNone
  <2> QED
    BY <1>7, <2>1, <2>2, <2>3
<1>9. Reads
  <2>1. len \in 0..Len(runes) /\ read = Len(output)
    BY <1>2, <1>7, <1>8
  <2>2. \E lost \in Seq(Byte) : input \o lost = Encodings(runes)
    BY <1>6 DEF all
  <2>3. \E rest \in Seq(Byte) : input = output \o rest
    BY <1>6, <1>8
  <2> QED
    BY <1>2, <1>6, <1>8, <2>1, <2>2, <2>3 DEF Reads
<1>10. CutIsFound
  BY <1>7 DEF CutIsFound
<1> QED
  BY <1>9, <1>10 DEF RInv

\* The rest of the input.
LEMMA RestIs ==
    ASSUME Reads
    PROVE  /\ Rest \in Seq(Byte) /\ Len(Rest) \in Nat
           /\ input = output \o Rest
           /\ Len(input) = Len(output) + Len(Rest) /\ Len(output) \in Nat
           /\ output = SubSeq(input, 1, read)
<1>1. PICK rest \in Seq(Byte) : input = output \o rest
  BY DEF Reads
<1>2. output \in Seq(Byte) /\ read = Len(output)
  BY DEF Reads
<1>3. /\ SubSeq(input, 1, Len(output)) = output
      /\ SubSeq(input, Len(output) + 1, Len(input)) = rest
  BY <1>1, <1>2, PartsOf
<1>4. Rest = rest
  BY <1>2, <1>3 DEF Rest
<1> QED
  BY <1>1, <1>2, <1>3, <1>4, LenProperties, ConcatProperties

\* While some of the input is left there is a rune it begins: whole, and then
\* it is decoded and no error is found, or cut short.
LEMMA RestBegins ==
    ASSUME Reads, Rest # <<>>
    PROVE  /\ len < Len(runes) /\ len + 1 \in 1..Len(runes)
           /\ runes[len + 1] \in Rune
           /\ LeadSize(Rest[1]) = EncodedSize(runes[len + 1])
           /\ \/ /\ NextError(Rest) = "OK"
                 /\ Decoded(Rest) = runes[len + 1]
                 /\ EncodedSize(runes[len + 1]) <= Len(Rest)
                 /\ \E t \in Seq(Byte) : Rest = Encoded(runes[len + 1]) \o t
              \/ /\ NextError(Rest) = "INCOMPLETE_RUNE"
                 /\ IsStrictPrefix(Rest, Encoded(runes[len + 1]))
<1>1. /\ runes \in Seq(Rune) /\ Len(runes) \in Nat /\ len \in 0..Len(runes)
      /\ output \in Seq(Byte) /\ output = FirstBytes(runes, len)
  BY LenProperties DEF Reads
<1>2. /\ Rest \in Seq(Byte) /\ Len(Rest) \in Nat /\ input = output \o Rest
      /\ Len(Rest) # 0
  BY RestIs, EmptySeq
<1>3. PICK lost \in Seq(Byte) : input \o lost = Encodings(runes)
  BY DEF Reads
<1>4. Rest \o lost \in Seq(Byte) /\ output \o (Rest \o lost) = Encodings(runes)
  <2>1. (output \o Rest) \o lost = output \o (Rest \o lost)
    BY <1>1, <1>2, Assoc
  <2> QED
    BY <1>2, <1>3, <2>1, ConcatProperties
<1>5. len # Len(runes)
  <2>1. SUFFICES ASSUME len = Len(runes) PROVE FALSE
    OBVIOUS
  <2>2. output = Encodings(runes)
    BY <1>1, <2>1, FirstBytesAll
  <2>3. Rest \o lost = <<>>
    BY <1>1, <1>4, <2>2, ConcatEqualIffEmpty
  <2>4. Rest = <<>>
    BY <1>2, <2>3, ConcatEqualIffEmpty
  <2> QED
    BY <2>4
<1>6. /\ len < Len(runes) /\ len + 1 \in 1..Len(runes)
      /\ len + 1 \in 0..Len(runes) /\ len \in 0..(Len(runes) - 1)
  BY <1>1, <1>5
<1> DEFINE r == runes[len + 1]
           e == Encoded(r)
<1>7. r \in Rune
  BY <1>1, <1>6, ElementOfSeq
<1>8. /\ e \in Seq(Byte) /\ Len(e) = EncodedSize(r) /\ Len(e) \in 1..4
      /\ FirstBytes(runes, len + 1) = output \o e
  <2>1. e \in Seq(Byte) /\ Len(e) = EncodedSize(r) /\ Len(e) \in 1..4
    BY <1>7, CodeOf
  <2> QED
    BY <1>1, <1>6, <2>1, FirstBytesStep
<1>9. PICK tail \in Seq(Byte) :
        FirstBytes(runes, Len(runes)) = FirstBytes(runes, len + 1) \o tail
  <2>1. Len(runes) \in (len + 1)..Len(runes)
    BY <1>1, <1>6
  <2> QED
    BY <1>1, <1>6, <2>1, FirstBytesPrefix
<1> HIDE DEF e, r
<1>10. Rest \o lost = e \o tail
  <2>1. Encodings(runes) = (output \o e) \o tail
    BY <1>1, <1>8, <1>9, FirstBytesAll
  <2>2. (output \o e) \o tail = output \o (e \o tail) /\ e \o tail \in Seq(Byte)
    BY <1>1, <1>8, Assoc, ConcatProperties
  <2>3. output \o (Rest \o lost) = output \o (e \o tail)
    BY <1>4, <2>1, <2>2
  <2> QED
    BY <1>1, <1>4, <2>2, <2>3, ConcatSimplifications
<1>11. r \in Nat /\ r <= MaxRune
  <2>1. MaxRune \in Int
    BY SMT DEF MaxRune
  <2> QED
    BY <1>7, <2>1, SMT DEF Rune
<1>12. LeadSize(Rest[1]) = EncodedSize(r)
  <2>1. LeadSize((e \o tail)[1]) = EncodedSize(r)
    BY <1>11, RoundTrip DEF e
  <2>2. (Rest \o lost)[1] = Rest[1]
    <3>1. 1 \in 1..(Len(Rest) + Len(lost)) /\ 1 <= Len(Rest)
      <4>1. Len(lost) \in Nat
        BY LenProperties
      <4> QED
        BY <1>2, <4>1
    <3> QED
      BY <1>2, <3>1, ConcatProperties
  <2> QED
    BY <1>10, <2>1, <2>2
<1>13. CASE Len(e) <= Len(Rest)
  <2>1. PICK t \in Seq(Byte) : Rest = e \o t
    <3>1. /\ Rest \in Seq(Byte) /\ lost \in Seq(Byte)
          /\ e \in Seq(Byte) /\ tail \in Seq(Byte)
      BY <1>2, <1>8
    <3>2. Begins(Rest, e)
      BY <3>1, <1>10, <1>13, TwoParts
    <3> QED
      BY <3>2 DEF Begins
  <2>2. NextError(Rest) = "OK" /\ Decoded(Rest) = r
    BY <1>11, <2>1, RoundTrip DEF e
  <2> QED
    BY <1>6, <1>7, <1>8, <1>12, <1>13, <2>1, <2>2 DEF e, r
<1>14. CASE Len(Rest) < Len(e)
  <2>1. IsStrictPrefix(Rest, e)
    <3>1. /\ Rest \in Seq(Byte) /\ lost \in Seq(Byte)
          /\ e \in Seq(Byte) /\ tail \in Seq(Byte)
      BY <1>2, <1>8
    <3> QED
      BY <3>1, <1>10, <1>14, TwoParts
  <2>2. NextError(Rest) = "INCOMPLETE_RUNE"
    <3>1. LeadSize(Rest[1]) # 0 /\ LeadSize(Rest[1]) > Len(Rest)
      BY <1>2, <1>8, <1>12, <1>14
    <3> DEFINE s == Rest
    <3>2. s # <<>> /\ LeadSize(s[1]) # 0 /\ LeadSize(s[1]) > Len(s)
      BY <3>1
    <3> HIDE DEF s
    <3>3. NextError(s) = "INCOMPLETE_RUNE"
      BY <3>2 DEF NextError
    <3> QED
      BY <3>3 DEF s
  <2> QED
    BY <1>6, <1>7, <1>12, <2>1, <2>2 DEF e, r
<1>15. Len(e) <= Len(Rest) \/ Len(Rest) < Len(e)
  <2>1. Len(e) \in Int /\ Len(Rest) \in Int
    BY <1>2, <1>8
  <2> QED
    BY <2>1
<1> QED
  BY <1>13, <1>14, <1>15

\* Every step reads on along the runes, and none panics.
LEMMA NextRInv == RInv /\ [Next]_vars => RInv' /\ (ret # "panic" => ret' # "panic")
<1> SUFFICES ASSUME RInv, [Next]_vars
             PROVE  RInv' /\ (ret # "panic" => ret' # "panic")
  OBVIOUS
<1>1. Reads /\ CutIsFound
  BY DEF RInv
<1>2. CASE NextRune
  <2>1. /\ ret = "running" /\ NextError(Rest) = "OK"
        /\ read' = read + LeadSize(Rest[1]) /\ len' = len + 1
        /\ runes' = runes /\ input' = input
    BY <1>2 DEF NextRune
  <2>2. Rest # <<>>
    <3>1. NextError(<<>>) = "EMPTY_STRING"
      BY DEF NextError
    <3> QED
      BY <2>1, <3>1
  <2> DEFINE r == runes[len + 1]
             e == Encoded(r)
  <2>3. /\ len + 1 \in 1..Len(runes) /\ r \in Rune
        /\ LeadSize(Rest[1]) = EncodedSize(r)
        /\ Decoded(Rest) = r /\ EncodedSize(r) <= Len(Rest)
        /\ \E t \in Seq(Byte) : Rest = e \o t
    BY <1>1, <2>1, <2>2, RestBegins
  <2>4. /\ e \in Seq(Byte) /\ Len(e) = EncodedSize(r) /\ EncodedSize(r) \in 1..4
    BY <2>3, CodeOf
  <2>5. /\ input = output \o Rest /\ Len(input) = Len(output) + Len(Rest)
        /\ Len(output) \in Nat /\ Len(Rest) \in Nat
        /\ output \in Seq(Byte) /\ read = Len(output)
        /\ runes \in Seq(Rune) /\ Len(runes) \in Nat /\ len \in 0..Len(runes)
        /\ output = FirstBytes(runes, len) /\ input \in Seq(Byte)
    BY <1>1, RestIs, LenProperties DEF Reads
  <2> HIDE DEF r, e
  <2>6. EncodeError(Decoded(Rest), Len(input) - Len(output)) = "OK"
    <3>1. Len(input) - Len(output) = Len(Rest)
      BY <2>5
    <3>2. EncodedSize(r) # 0 /\ ~(EncodedSize(r) > Len(Rest))
      BY <2>3, <2>4, <2>5
    <3>3. EncodeError(r, Len(Rest)) = "OK"
      BY <3>2 DEF EncodeError
    <3> QED
      BY <2>3, <3>1, <3>3
  <2>7. output' = output \o e /\ ret' = ret
    BY <1>2, <2>3, <2>6 DEF NextRune, e
  <2>8. PICK t \in Seq(Byte) : Rest = e \o t
    BY <2>3
  <2>9. output' \in Seq(Byte) /\ Len(output') = read' /\ input = output' \o t
    <3>1. (output \o e) \o t = output \o (e \o t)
      <4>1. output \in Seq(Byte) /\ e \in Seq(Byte) /\ t \in Seq(Byte)
        BY <2>4, <2>5
      <4> QED
        BY <4>1, Assoc
    <3>2. output' \in Seq(Byte) /\ Len(output') = Len(output) + Len(e)
      BY <2>4, <2>5, <2>7, ConcatProperties
    <3> QED
      BY <2>1, <2>3, <2>4, <2>5, <2>7, <2>8, <3>1, <3>2
  <2>10. output' = FirstBytes(runes, len + 1)
    <3>1. len \in 0..(Len(runes) - 1)
      BY <2>3, <2>5
    <3>2. FirstBytes(runes, len + 1) = FirstBytes(runes, len) \o Encoded(runes[len + 1])
      BY <2>5, <3>1, FirstBytesStep
    <3> QED
      BY <2>5, <2>7, <3>2 DEF e, r
  <2>11. len' \in 0..Len(runes)
    BY <2>1, <2>3, <2>5
  <2>12. Reads'
    <3>1. \E lost \in Seq(Byte) : input \o lost = Encodings(runes)
      BY <1>1 DEF Reads
    <3>2. Encodings(runes)' = Encodings(runes)
          /\ FirstBytes(runes, len)' = FirstBytes(runes, len + 1)
      BY <2>1 DEF Encodings, FirstBytes
    <3>3. \E lost \in Seq(Byte) : input' \o lost = Encodings(runes)'
      BY <2>1, <3>1, <3>2
    <3> QED
      BY <2>1, <2>5, <2>9, <2>10, <2>11, <3>2, <3>3 DEF Reads
  <2>13. CutIsFound'
    BY <2>1, <2>7 DEF CutIsFound
  <2> QED
    BY <2>1, <2>7, <2>12, <2>13 DEF RInv
<1>3. CASE Stop
  <2>1. /\ ret = "running" /\ NextError(Rest) # "OK"
        /\ ret' = IF NextError(Rest) = "EMPTY_STRING" THEN "OK" ELSE NextError(Rest)
        /\ UNCHANGED <<runes, input, read, output, len>>
    BY <1>3 DEF Stop
  <2>2. Reads'
    BY <1>1, <2>1 DEF Reads, Encodings, FirstBytes
  <2>3. CASE Rest = <<>>
    <3>1. NextError(Rest) = "EMPTY_STRING"
      BY <2>3 DEF NextError
    <3>2. ret' = "OK"
      BY <2>1, <3>1
    <3>3. read = Len(input)
      <4>1. Len(Rest) = 0 /\ Len(input) = Len(output) + Len(Rest)
            /\ Len(output) \in Nat /\ read = Len(output)
        BY <1>1, <2>3, RestIs DEF Reads
      <4> QED
        BY <4>1
    <3>4. CutIsFound'
      BY <2>1, <3>2, <3>3 DEF CutIsFound
    <3> QED
      BY <2>2, <3>2, <3>4 DEF RInv
  <2>4. CASE Rest # <<>>
    <3>1. /\ len < Len(runes) /\ NextError(Rest) = "INCOMPLETE_RUNE"
          /\ IsStrictPrefix(Rest, Encoded(runes[len + 1]))
      BY <1>1, <2>1, <2>4, RestBegins
    <3>2. ret' = "INCOMPLETE_RUNE"
      BY <2>1, <3>1
    <3>3. Rest' = Rest
      BY <2>1 DEF Rest
    <3>4. CutIsFound'
      BY <2>1, <3>1, <3>2, <3>3 DEF CutIsFound
    <3> QED
      BY <2>2, <3>2, <3>4 DEF RInv
  <2> QED
    BY <2>3, <2>4
<1>4. CASE UNCHANGED vars
  <2>1. UNCHANGED <<runes, input, read, output, len, ret>>
    BY <1>4 DEF vars
  <2>2. Rest' = Rest
    BY <2>1 DEF Rest
  <2>3. Reads' /\ CutIsFound'
    BY <1>1, <2>1, <2>2 DEF Reads, CutIsFound, Encodings, FirstBytes
  <2> QED
    BY <2>1, <2>3 DEF RInv
<1> QED
  BY <1>2, <1>3, <1>4 DEF Next

\* The invariant holds in every state of every run.
LEMMA AlwaysRInv == Spec => []RInv
<1>1. RInv /\ [Next]_vars => RInv'
  BY NextRInv
<1> QED
  BY <1>1, InitRInv, PTL DEF Spec

\* CutIsFound: str_rune_len reads a string that lost bytes up to its last
\* whole rune, and refuses it exactly if it lost part of one.
THEOREM CutCorrect == Spec => []CutIsFound
<1>1. RInv => CutIsFound
  BY DEF RInv
<1> QED
  BY <1>1, AlwaysRInv, PTL

\* Transcodes: what str_next_rune reads of a string, str_encode_next_rune writes
\* again byte for byte, and its target never runs out of room.
THEOREM TranscodeCorrect == Spec => []Transcodes
<1>1. ASSUME RInv PROVE Transcodes
  <2>1. Reads /\ ret \in {"running", "OK", "INCOMPLETE_RUNE"}
    BY <1>1 DEF RInv, CutIsFound
  <2>2. output = SubSeq(input, 1, read)
    BY <2>1, RestIs
  <2>3. output = Encodings(SubSeq(runes, 1, len))
    BY <2>1 DEF Reads, FirstBytes
  <2> QED
    BY <2>1, <2>2, <2>3 DEF Transcodes
<1> QED
  BY <1>1, AlwaysRInv, PTL
=============================================================================
