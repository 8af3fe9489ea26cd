------------------------- MODULE MCOutputFileStream -------------------------
\* Values for the constants of OutputFileStream.
EXTENDS OutputFileStream

CONSTANTS x, y          \* two bytes tell every loss, repeat and swap apart

MCByte == {x, y}
Short == UNION {[1..n -> MCByte] : n \in 0..2}
Long == {<<x, y, x>>, <<x, x, y, y>>, <<x, y, y, x, x, y>>}
MCRequests == Short \union Long
=============================================================================
