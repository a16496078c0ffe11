--------------------------------- MODULE LineRelay --------------------------------
(***********************************************************************************)
(* What os_cp promises: every line of the input is shown, whole and in order, and  *)
(* for the lines shown, in order, two equal lengths are printed: as sent and as    *)
(* received.  Nothing is promised about when a length is printed.                  *)
(***********************************************************************************)
EXTENDS Naturals, Sequences

CONSTANT MayFail     \* may the relay end before its input does

VARIABLES input, shown, counted, ended

rvars == <<input, shown, counted, ended>>

RelayInit == shown = <<>> /\ counted = <<>> /\ ended = FALSE

Show == /\ Len(shown) < Len(input)
        /\ shown' = Append(shown, input[Len(shown) + 1])
        /\ UNCHANGED <<input, counted, ended>>

Lengths(from, to) == [k \in 1 .. to - from + 1 |->
  LET n == Len(input[from + k - 1]) IN <<n, n>>]

Count == \E k \in Len(counted) + 1 .. Len(shown) :
           /\ counted' = counted \o Lengths(Len(counted) + 1, k)
           /\ UNCHANGED <<input, shown, ended>>

End == /\ ~ended /\ ended' = TRUE
       /\ Len(shown) = Len(input) \/ MayFail
       /\ UNCHANGED <<input, shown, counted>>

RelaySpec == RelayInit /\ [][Show \/ Count \/ End]_rvars
===================================================================================
