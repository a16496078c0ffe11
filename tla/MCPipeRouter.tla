------------------------------- MODULE MCPipeRouter -------------------------------
EXTENDS PipeRouter

\* With Limit = 1 a line of one character is short.  A pipe takes two characters and a child
\* reads two: a line of three or four is written and read in pieces, and a piece may hold
\* the end of one line and the beginning of the next.
SomeLines  == {<<"b">>, <<"b", "e">>, <<"e", "b", "a">>, <<"a", "e", "b", "b">>}
SomeInputs == UNION {[1 .. n -> SomeLines] : n \in 0 .. 3}
===================================================================================
