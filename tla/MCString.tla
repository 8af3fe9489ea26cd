------------------------------ MODULE MCString ------------------------------
\* Values for the constants of String.
EXTENDS StringViews

CONSTANTS a, b

Letters == {a, b}
ShortAndLong == {<<a>>, <<b, a, b>>}
RunesOfTwoSizes == {<<b>>, <<a, b, b, a>>}
=============================================================================
