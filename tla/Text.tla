-------------------------------- MODULE Text --------------------------------
(***************************************************************************)
(* What a String (string.h) promises: a text that strings and runes are    *)
(* added to at either end.  A call that returns OK has added all that it   *)
(* was asked to add; one that does not return OK adds nothing.             *)
(***************************************************************************)
EXTENDS Integers, Sequences

CONSTANTS Pieces        \* what may be added in one call

VARIABLES
    text,
    asked,              \* how many bytes the last call was to add
    ret                 \* "OK", or why the last call did nothing

Init == text \in Pieces \union {<<>>} /\ asked = 0 /\ ret = "OK"

AppendPiece(s) == text' = text \o s /\ asked' = Len(s) /\ ret' = "OK"
PrependPiece(s) == text' = s \o text /\ asked' = Len(s) /\ ret' = "OK"
Reset == text' = <<>> /\ asked' = 0 /\ ret' = "OK"

\* Room is made for what may be added later.
Reserve == UNCHANGED text /\ asked' = 0 /\ ret' = "OK"

Fail == UNCHANGED text /\ asked' \in Nat /\ ret' # "OK"

Next ==
    \/ \E s \in Pieces : AppendPiece(s) \/ PrependPiece(s)
    \/ Reset
    \/ Reserve
    \/ Fail

Spec == Init /\ [][Next]_<<text, asked, ret>>
=============================================================================
