------------------------------ MODULE MCRelayPipeline -----------------------------
EXTENDS RelayInvariant

\* Lines of one to three characters, the last longer than the pipe with its length and 0;
\* the codes are no lengths of lines.
SomeLines  == {<<7>>, <<7, 8>>, <<8, 9, 7>>}
SomeInputs == UNION {[1 .. n -> SomeLines] : n \in 0 .. 3}
OneLine    == {<< <<7>> >>}
===================================================================================
