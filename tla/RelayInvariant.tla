------------------------------- MODULE RelayInvariant -----------------------------
(***********************************************************************************)
(* Why os_cp keeps its lines and its lengths apart: what is in the four pipes, and *)
(* who holds their ends, at any moment.  IInv is inductive.                        *)
(***********************************************************************************)
EXTENDS RelayPipeline

\* Of the line under way C has taken a beginning, the pipe holds what comes
\* next, and A sends the rest; what is shown has been taken whole.
Got == IF cpc = "str" THEN Len(str) + 1 ELSE IF cpc = "show" THEN Size(next) ELSE 0
UnderWay ==
  /\ Len(shown) \in {next - 1, next}
  /\ \A k \in 1 .. Len(shown) : shown[k] = input[k]
  /\ next > 0 => sent =< Size(next)
  /\ Len(shown) = next => pipe["AC"] = <<>> /\ (next > 0 => sent = Size(next))
  /\ Len(shown) = next - 1 /\ cpc # "gone" =>
       /\ Len(pipe["AC"]) = sent - Got
       /\ \A k \in 1 .. Len(pipe["AC"]) : pipe["AC"][k] = Unit(next, Got + k - 1)
  /\ cpc \in {"str", "show"} =>
       /\ Len(shown) = next - 1 /\ len = Len(input[next])
       /\ \A k \in 1 .. Len(str) : str[k] = Unit(next, k)
       /\ Len(str) =< len + 1 /\ (cpc = "str" <=> Len(str) =< len)
  /\ cpc \in {"len_b", "ack"} =>
       Len(shown) = next /\ next > 0 /\ len = Len(input[next])
\* An acknowledgement is for the line under way, and A waits for it.
Acknowledged ==
  /\ pipe["CA"] # <<>> => /\ Len(pipe["CA"]) = 1 /\ Len(shown) = next /\ next > 0
                         /\ cpc \in {"len", "gone"} /\ apc \in {"len_b", "ack", "killed"}
  /\ apc \in {"fork_b", "fork_c"} => next = 0
  /\ apc \in {"fork_b", "fork_c", "read", "kill_c", "kill_b", "exit"} =>
       Len(shown) = next /\ pipe["CA"] = <<>> /\ cpc \notin {"len_b", "ack"}
  /\ apc \in {"kill_c", "kill_b"} => next = Len(input) \/ MayFail
  /\ apc \in {"send", "len_b", "ack"} => next > 0
  /\ apc = "send" => sent < Size(next)
  /\ apc \in {"len_b", "ack"} => sent = Size(next)
\* Each of B's two pipes holds the lengths of consecutive lines, from the one B reads next to
\* the one sent last.
Printed  == Len(report) + Len(held)
ReadOfA  == Printed + (IF bpc \in {"len_c", "print"} THEN 1 ELSE 0)
ReadOfC  == Printed + (IF bpc = "print" THEN 1 ELSE 0)
SameLine(pair, k) == pair = <<Len(input[k]), Len(input[k])>>
Lengths ==
  /\ \A k \in 1 .. Len(report) : SameLine(report[k], k)
  /\ bpc # "gone" =>
       /\ \A k \in 1 .. Len(held) : SameLine(held[k], Len(report) + k)
       /\ bpc \in {"len_c", "print"} => len_a = Len(input[Printed + 1])
       /\ bpc = "print" => len_c = Len(input[Printed + 1])
       /\ \A k \in 1 .. Len(pipe["AB"]) : pipe["AB"][k] = Len(input[ReadOfA + k])
       /\ \A k \in 1 .. Len(pipe["CB"]) : pipe["CB"][k] = Len(input[ReadOfC + k])
Counts ==
  bpc # "gone" =>
       /\ ReadOfA + Len(pipe["AB"]) \in {next - 1, next}
       /\ apc \in {"send", "len_b"} => ReadOfA + Len(pipe["AB"]) = next - 1
       /\ apc \notin {"send", "len_b", "killed"} => ReadOfA + Len(pipe["AB"]) = next
       /\ ReadOfC + Len(pipe["CB"]) \in {Len(shown) - 1, Len(shown)}
       /\ cpc = "len_b" => ReadOfC + Len(pipe["CB"]) = Len(shown) - 1
       /\ cpc \notin {"len_b", "gone"} => ReadOfC + Len(pipe["CB"]) = Len(shown)
\* Who holds what: B the ends of C's pipes that it does not use, C one of B's.
Keeps(p, pc, forked, running) ==
  fds[p] = IF pc \in {"none", "gone"} THEN {} ELSE IF pc = "forked" THEN forked ELSE running
Descriptors ==
  /\ fds["A"] = IF apc \in {"exit", "killed"} THEN {}
                ELSE IF apc = "fork_b" THEN Ends
                ELSE IF apc = "fork_c" THEN Ends \ {<<"AB", "r">>, <<"CB", "r">>}
                ELSE {<<"AB", "w">>, <<"AC", "w">>, <<"CA", "r">>}
  /\ Keeps("B", bpc, Ends, Ends \ {<<"AB", "w">>, <<"CB", "w">>})
  /\ Keeps("C", cpc, Ends \ {<<"AB", "r">>, <<"CB", "r">>},
                     {<<"AB", "w">>, <<"AC", "r">>, <<"CA", "w">>, <<"CB", "w">>})
  /\ bpc = "none" => /\ apc \in {"fork_b", "exit", "killed"}
                     /\ cpc = "none" /\ "B" \notin doomed
  /\ cpc = "none" => apc \in {"fork_b", "fork_c", "exit", "killed"} /\ "C" \notin doomed
  /\ apc = "fork_b" => bpc = "none"
  /\ apc = "fork_c" => cpc = "none"
  /\ bpc = "gone" => "B" \in doomed \/ MayFail
  /\ apc \in {"kill_b", "exit"} => "C" \in doomed \/ cpc = "none"
  /\ "C" \in doomed => apc \in {"kill_b", "exit", "killed"}
  /\ "B" \in doomed => "C" \in doomed /\ apc = "exit"
IInv == TypeOK /\ UnderWay /\ Acknowledged /\ Lengths /\ Counts /\ Descriptors
===================================================================================
