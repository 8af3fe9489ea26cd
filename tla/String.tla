------------------------------- MODULE String -------------------------------
(***************************************************************************)
(* String (string.h): a growable buffer of bytes.  string_reserve_cap has  *)
(* the allocator resize the buffer and leaves byte_cap as it was, so the   *)
(* rest capacity, an unsigned difference, is that of the first buffer for  *)
(* as long as the text fits in it, and wraps to a huge one after that.     *)
(***************************************************************************)
EXTENDS Integers, Sequences

CONSTANTS
    Byte,
    Strs,               \* the strings that are added
    Runes,              \* the encodings of the runes that are added
    Caps,               \* the capacities string_init is called with
    Reserves,           \* the arguments of string_reserve_cap
    Word,               \* usize_t is modulo Word
    MaxLen,             \* bound: the length of the text
    AllocMayFail,
    Junk                \* a byte never written

ASSUME StrAssumption == Strs \subseteq Seq(Byte) /\ Runes \subseteq Seq(Byte)
ASSUME RuneAssumption == \A r \in Runes : Len(r) \in 1..4
ASSUME CapAssumption ==
    /\ Caps \subseteq Nat /\ Reserves \subseteq Nat
    /\ Word \in Nat \ {0} /\ MaxLen \in Nat
ASSUME FlagAssumption == AllocMayFail \in BOOLEAN /\ Junk \notin Byte

VARIABLES
    mem,                \* the buffer at ptr, as long as the allocator made it
    byte_cap,
    byte_len,
    asked,              \* how many bytes the last call was to add
    ret                 \* "OK", "MEM_ALLOC", "panic" (an assertion failed), or
                        \* "overrun" (bytes go past the buffer: undefined),
                        \* or "undefined" (StringViews)

vars == <<mem, byte_cap, byte_len, asked, ret>>

RUNE_ENCODED_MAX_SIZE == 4

Larger(m, n) == IF m >= n THEN m ELSE n

\* string_rest_cap.  (A slip: a byte is kept for a final zero.)
RestCapForZero == (byte_cap - byte_len - 1) % Word
RestCap == (byte_cap - byte_len) % Word

\* What string_reserve_cap(n) resizes to, and what the functions that add n
\* bytes have it resize to.  (A slip: the second is not added to byte_cap.)
ReserveSize(n) == Larger(byte_cap * 2, byte_cap + n)
GrownSizeOnce(n) == Larger(byte_cap * 2, byte_cap + n)
GrownSize(n) == ReserveSize(Larger(byte_cap * 2, byte_cap + n))

Blank(n) == [k \in 1..n |-> Junk]
Resized(m, n) == [k \in 1..n |-> IF k <= Len(m) THEN m[k] ELSE Junk]

\* memcpy of s to an offset in m, where it fits.
Copied(m, offset, s) ==
    [k \in 1..Len(m) |->
        IF k \in (offset + 1)..(offset + Len(s)) THEN s[k - offset] ELSE m[k]]

\* memmove of the text to an offset in m.
Moved(m, offset) == Copied(m, offset, SubSeq(m, 1, byte_len))

-----------------------------------------------------------------------------

\* string_init, string_new_cap_in and string_from_str_in.
Init ==
    /\ \/ \E cap \in Caps :
             mem = Blank(cap) /\ byte_cap = cap /\ byte_len = 0
       \/ \E s \in Strs :
             mem = s /\ byte_cap = Len(s) /\ byte_len = Len(s)
    /\ asked = 0
    /\ ret = "OK"

\* A call that is to add n bytes may begin.
Begin(n) ==
    /\ ret \in {"OK", "MEM_ALLOC"}
    /\ byte_len + n <= MaxLen
    /\ asked' = n
    /\ UNCHANGED byte_cap

NoMemory(n) == AllocMayFail /\ RestCap < n

\* The buffer once there is room for n bytes, as the code counts it.
Buffer(n) == IF RestCap < n THEN Resized(mem, GrownSize(n)) ELSE mem

\* The text becomes what is in m, n bytes longer, if they are inside m.
Put(m, new, n) ==
    IF byte_len + n <= Len(m)
    THEN mem' = new /\ byte_len' = byte_len + n /\ ret' = "OK"
    ELSE mem' = m /\ byte_len' = byte_len /\ ret' = "overrun"

AppendStr(s) ==
    /\ Begin(Len(s))
    /\ \/ LET m == Buffer(Len(s)) IN Put(m, Copied(m, byte_len, s), Len(s))
       \/ NoMemory(Len(s)) /\ ret' = "MEM_ALLOC" /\ UNCHANGED <<mem, byte_len>>

\* (A slip: the string is put in front before the text has moved.)
PrependUnmoved(s) ==
    /\ Begin(Len(s))
    /\ \/ LET m == Copied(Buffer(Len(s)), 0, s) IN
          Put(Buffer(Len(s)), Moved(m, Len(s)), Len(s))
       \/ NoMemory(Len(s)) /\ ret' = "MEM_ALLOC" /\ UNCHANGED <<mem, byte_len>>

PrependStr(s) ==
    /\ Begin(Len(s))
    /\ \/ LET m == Buffer(Len(s)) IN
          Put(m, Copied(Moved(m, Len(s)), 0, s), Len(s))
       \/ NoMemory(Len(s)) /\ ret' = "MEM_ALLOC" /\ UNCHANGED <<mem, byte_len>>

\* The length once r is encoded into what is left of byte_cap, counted back
\* from byte_cap.
RuneLen(r) == (byte_cap - (RestCap - Len(r))) % Word

\* string_append_rune: encoding it is asserted to succeed.
AppendRune(r) ==
    /\ Begin(Len(r))
    /\ \/ NoMemory(RUNE_ENCODED_MAX_SIZE)
          /\ ret' = "MEM_ALLOC"
          /\ UNCHANGED <<mem, byte_len>>
       \/ LET m == Buffer(RUNE_ENCODED_MAX_SIZE) IN
          CASE RestCap < Len(r) ->
                 ret' = "panic" /\ mem' = m /\ byte_len' = byte_len
            [] RestCap >= Len(r) /\ byte_len + Len(r) > Len(m) ->
                 ret' = "overrun" /\ mem' = m /\ byte_len' = byte_len
            [] OTHER ->
                 /\ mem' = Copied(m, byte_len, r)
                 /\ byte_len' = RuneLen(r)
                 /\ ret' = "OK"

\* output_string_stream_write: reserve, then append, and both are asserted.
StreamWrite(s) ==
    /\ Begin(Len(s))
    /\ \/ LET reserved == IF RestCap < Len(s)
                          THEN Resized(mem, ReserveSize(Len(s))) ELSE mem
              m == IF RestCap < Len(s)
                   THEN Resized(reserved, GrownSize(Len(s))) ELSE mem
          IN  Put(m, Copied(m, byte_len, s), Len(s))
       \/ NoMemory(Len(s)) /\ ret' = "panic" /\ UNCHANGED <<mem, byte_len>>

ReserveCap(n) ==
    /\ Begin(0)
    /\ \/ /\ mem' = IF RestCap < n THEN Resized(mem, ReserveSize(n)) ELSE mem
          /\ ret' = "OK"
       \/ NoMemory(n) /\ ret' = "MEM_ALLOC" /\ UNCHANGED mem
    /\ UNCHANGED byte_len

Reset ==
    /\ Begin(0)
    /\ byte_len' = 0
    /\ ret' = "OK"
    /\ UNCHANGED mem

Next ==
    \/ \E s \in Strs : AppendStr(s) \/ PrependStr(s) \/ StreamWrite(s)
    \/ \E r \in Runes : AppendRune(r)
    \/ \E n \in Reserves : ReserveCap(n)
    \/ Reset

Spec == Init /\ [][Next]_vars

-----------------------------------------------------------------------------

\* The text is inside the buffer, and only its bytes are ever read: none of
\* them is one that was never written.
TypeOK ==
    /\ byte_cap \in Nat
    /\ byte_len \in 0..Len(mem)
    /\ \A k \in 1..byte_len : mem[k] \in Byte
    /\ \A k \in 1..Len(mem) : mem[k] \in Byte \union {Junk}
    /\ ret \in {"OK", "MEM_ALLOC", "panic", "overrun", "undefined"}

\* The first growth makes room for three times byte_cap, whoever asks for it
\* and with whatever reservations before; bytes go past the buffer only when
\* the text outgrows that.
RoomForThreeTimes == ret = "overrun" => byte_len + asked > 3 * byte_cap

\* While it is inside the buffer, the text is what was added to it: a call
\* that returns OK has added all it was given, one that fails nothing.
Contents == SubSeq(mem, 1, byte_len)
T == INSTANCE Text WITH Pieces <- Strs \union Runes, text <- Contents
IsText == T!Spec

\* A rune that string_append_rune reserved RUNE_ENCODED_MAX_SIZE bytes for can
\* be encoded: what it asserts.
RuneFits == ret # "panic"
=============================================================================
