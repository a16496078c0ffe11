------------------------------ MODULE MCSharedRouter ------------------------------
EXTENDS SharedRouter

\* With Limit = 1 and BufSize = 3 a line of one character is short, one of two or three
\* is long and fits the buffer, one of four is handed over in two pieces.  Of a line of
\* one repeated character every piece looks the same.
Lines1 == {<<"a">>, <<"b">>, <<"b", "a">>, <<"a", "b", "c">>, <<"c", "c", "c", "c">>}
UpTo(n, S) == UNION {[1 .. k -> S] : k \in 0 .. n}

SomeInputs == UpTo(3, Lines1)
OverlongInputs == {<< <<"b", "a", "c", "c">> >>}
===================================================================================
