----------------------------- MODULE StringViews -----------------------------
(***************************************************************************)
(* A String (string.h) that is given a part of its own text, seen through  *)
(* string_to_str and str_byte_slice.  Growing frees the bytes of the view  *)
(* before they are read; prepending moves the text under it.               *)
(***************************************************************************)
EXTENDS String

VARIABLES
    from,               \* where in the text the last such part began
    stop                \* "no", "freed" (what a view showed was freed, then
                        \* read), or "garbled" (it had moved, then was read)

viewVars == <<vars, from, stop>>

\* str_byte_slice of string_to_str: n bytes of the text from f.
ByteSlice(m, f, n) == SubSeq(m, f + 1, f + n)

\* Bound: the parts of the text that read as one of Strs or Runes.
Parts ==
    {p \in (0..byte_len) \X (0..byte_len) :
        /\ p[1] + p[2] <= byte_len
        /\ ByteSlice(mem, p[1], p[2]) \in Strs \union Runes}

Stops(why) ==
    /\ stop' = why /\ ret' = "undefined"
    /\ UNCHANGED <<mem, byte_len>>

-----------------------------------------------------------------------------

ViewInit == Init /\ from = 0 /\ stop = "no"

\* A call that grows the buffer for its own text: it fails, or goes on to read
\* what is no longer there.
GrowForOwn(n) ==
    /\ Begin(n)
    /\ RestCap < n
    /\ \/ Stops("freed")
       \/ AllocMayFail /\ ret' = "MEM_ALLOC" /\ UNCHANGED <<mem, byte_len, stop>>

\* string_append_str, with room for n more bytes.
AppendOwn(f, n) ==
    /\ RestCap >= n
    /\ AppendStr(ByteSlice(mem, f, n))
    /\ UNCHANGED stop

\* string_prepend_str: the text is moved by n, then the view is copied, whose
\* bytes were f bytes from the start.  memcpy is undefined on two different
\* ranges that overlap.
ReadBack(f, n) == ByteSlice(Moved(mem, n), f, n)

PrependOwn(f, n) ==
    /\ RestCap >= n
    /\ IF /\ byte_len + n <= Len(mem)
          /\ f \in 1..(n - 1) \/ ReadBack(f, n) # ByteSlice(mem, f, n)
       THEN Begin(n) /\ Stops("garbled")
       ELSE PrependStr(ByteSlice(mem, f, n)) /\ UNCHANGED stop

ViewNext ==
    /\ stop = "no"
    /\ \/ Next /\ from' = 0 /\ UNCHANGED stop
       \/ \E p \in Parts :
            /\ from' = p[1]
            /\ \/ GrowForOwn(p[2])
               \/ AppendOwn(p[1], p[2])
               \/ PrependOwn(p[1], p[2])

ViewSpec == ViewInit /\ [][ViewNext]_viewVars

-----------------------------------------------------------------------------

\* A part of its own text can be appended to a String, and a beginning of it
\* put in front, as long as byte_cap has room for it (and after that, once the
\* rest capacity has wrapped).
OwnTextIsAdded ==
    /\ stop = "freed" => byte_len <= byte_cap /\ byte_len + asked > byte_cap
    /\ stop = "garbled" => from > 0
=============================================================================
