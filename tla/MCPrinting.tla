---------------------------- MODULE MCPrinting -----------------------------
\* Values for the constants of Printing.
EXTENDS Printing

CONSTANTS x, y

MCByte == {x, y}
MCRequests == {<<x>>, <<x, y, x>>}

\* Nothing, one piece, and a text with a newline or a value after it.
MCPrints == {<<>>, <<<<y>>>>, <<<<x, y>>, <<y>>>>, <<<<y>>, <<x, x>>, <<y>>>>}
=============================================================================
