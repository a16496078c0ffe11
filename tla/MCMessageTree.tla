------------------------------ MODULE MCMessageTree -------------------------------
EXTENDS TreeInvariant

Create(i, p) == [op |-> "create", id |-> i, parent |-> p]
Remove(i)    == [op |-> "remove", id |-> i, parent |-> None]
Exec(i)      == [op |-> "exec", id |-> i, parent |-> None]
Ping(i)      == [op |-> "ping", id |-> i, parent |-> None]

\* A chain of three: node 2 is only ever created under node 1, node 3 under node 2.
Chain == {Create(1, Root), Create(2, 1), Create(3, 2)}
Any   == Chain \cup UNION {{Remove(i), Exec(i), Ping(i)} : i \in 1 .. 3}
FreeMenu == [k \in 1 .. 6 |-> Any]

\* The chain is built, then anything may be typed.
Built == <<{Create(1, Root)}, {Create(2, 1)}, {Create(3, 2)}>>
BuiltMenu == Built \o <<Any, Any>>

\* Node 2 moves from the server to node 1, and both are asked for.
MovedMenu == <<{Create(1, Root)}, {Create(2, Root)}, {Remove(2)}, {Create(2, 1)},
               {Ping(2)}, {Ping(1)}>>
\* Node 1 dies and is created again while its child 2 lives on.
AgainMenu == <<{Create(1, Root)}, {Create(2, 1)}, {Create(1, Root)}, {Create(2, 1)}>>
\* Node 1 alone, and an id nobody has.
LateMenu == <<{Create(1, Root)}, {Exec(1)}, {Ping(2)}>>
\* A pair of nodes, and the upper one removed.
PairMenu == <<{Create(1, Root)}, {Create(2, 1)}, {Remove(1)}>>
===================================================================================
