------------------------------ MODULE ComputingNode -------------------------------
(***********************************************************************************)
(* A computing node of os_exercise_06 (src/client.cpp): it reads one message at a  *)
(* time from its parent and its children, handles what is addressed to it and      *)
(* passes on the rest.                                                             *)
(***********************************************************************************)
EXTENDS PubSub

CONSTANT Counts     \* the numbers of occurrences an exec can find

ASSUME ComputingNodeAssumption == Counts \subseteq Nat

\* client_init: bind both PUB sockets, connect to the parent's endpoint.
NodeInit(p) ==
  /\ st[p] = "forked"
  /\ st'   = [st EXCEPT ![p] = "up"]
  /\ subs' = [subs EXCEPT ![p] = {<<id[ppid[p]], "children">>}]
  /\ UNCHANGED <<id, ppid, peer, queue, strays>>

AddressedToAll(p, m) == m.dir = "to_client"      \* a slip: no look at the id
Addressed(p, m) == m.to \in {id[p], Broadcast}

\* client_run's second half: a message that does not name this node goes on.
Onward(q, p, m) == IF m.to = id[p] THEN q ELSE Publish(q, p, SideOf(m), <<m>>)

Answer(q, p, m, a) == Onward(Publish(q, p, "parent", <<a>>), p, m)

HandlePing(p, m, q) ==
  /\ m.type = "ping"
  /\ queue' = Answer(q, p, m, PingAnswer(id[p]))
  /\ UNCHANGED <<st, id, ppid, subs, peer, strays>>

HandleExec(p, m, q) ==
  /\ m.type = "exec"
  /\ \E n \in Counts : queue' = Answer(q, p, m, ExecAnswer(n))
  /\ UNCHANGED <<st, id, ppid, subs, peer, strays>>

HandleCreate(p, m, q) ==
  /\ m.type = "create"
  /\ \/ /\ ~CanFork
        /\ queue' = Answer(q, p, m, CreateAnswer(-1))
        /\ UNCHANGED <<st, id, ppid, subs>>
     \/ /\ Fork(p, m.val)
        /\ queue' = Answer(q, p, m, CreateAnswer(FreshPid))
  /\ UNCHANGED <<peer, strays>>

\* A slip: run stays true.
HandleRemoveAndGoOn(p, m, q) ==
  /\ m.type = "remove"
  /\ LET all == [m EXCEPT !.to = Broadcast]
     IN queue' = Onward(Publish(q, p, "children", <<all>>), p, Emptied(all))
  /\ UNCHANGED <<st, id, ppid, subs, peer, strays>>

\* handle_remove overwrites the header with BROADCAST_ID before it sends the message to
\* the children, so that client_run sends the now empty message_t once more.
HandleRemove(p, m, q) ==
  /\ m.type = "remove"
  /\ LET all == [m EXCEPT !.to = Broadcast]
     IN queue' = Onward(Publish(q, p, "children", <<all>>), p, Emptied(all))
  /\ st' = [st EXCEPT ![p] = "stopping"]
  /\ UNCHANGED <<id, ppid, subs, peer, strays>>

Forward(p, m, q) ==
  /\ ~Addressed(p, m)
  /\ queue' = Onward(q, p, m)
  /\ UNCHANGED <<st, id, ppid, subs, peer, strays>>

\* One iteration of client_run's loop, on a message from endpoint e.
NodeStep(p, e) ==
  /\ st[p] = "up" /\ Ready
  /\ queue[p][e] # <<>>
  /\ LET m == Head(queue[p][e])
         q == Read(p, e)
     IN \/ /\ Addressed(p, m)
           /\ \/ HandlePing(p, m, q)   \/ HandleExec(p, m, q)
              \/ HandleCreate(p, m, q) \/ HandleRemove(p, m, q)
        \/ Forward(p, m, q)

\* The children that are not connected yet when p closes its sockets.
Unheard(p) == {c \in Pids : /\ ppid[c] = p /\ st[c] \in {"forked", "up", "stopping"}
                            /\ peer[c][<<id[p], "children">>] # p}

\* A slip: the children are not told.
DeinitSilently(p) ==
  /\ HangUp(queue, p)
  /\ st' = [st EXCEPT ![p] = "gone"]
  /\ strays' = strays \cup Unheard(p)
  /\ UNCHANGED <<id, ppid>>

\* client_deinit, after the loop: the remove message reaches whoever is connected.
Deinit(p) ==
  /\ HangUp(Publish(queue, p, "children", <<RemoveMsg(Broadcast)>>), p)
  /\ st' = [st EXCEPT ![p] = "gone"]
  /\ strays' = strays \cup Unheard(p)
  /\ UNCHANGED <<id, ppid>>

NodeStop(p) == st[p] = "stopping" /\ Deinit(p)

\* client_term: SIGINT or SIGTERM runs client_deinit wherever the loop is, right after the
\* fork of a child too.
NodeTerm(p) == st[p] = "up" /\ Deinit(p)

NodeNext(p) == NodeInit(p) \/ NodeStop(p) \/ \E e \in Endpoints : NodeStep(p, e)

-----------------------------------------------------------------------------------
\* A node that still reads never finds the emptied message handle_remove makes
\* client_run send, whose header would be bytes nobody wrote: in every queue the remove
\* that ends the loop comes first.
Guarded(s) == \A k \in 1 .. Len(s) : s[k].type = "emptied" =>
                \E j \in 1 .. k - 1 : s[j] = RemoveMsg(Broadcast)
Reading    == {p \in Pids : st[p] \in {"free", "forked", "up"}}
RemoveComesFirst == \A p \in Reading, e \in Endpoints : Guarded(queue[p][e])
EmptiedIsNotRead ==
  \A p \in Pids, e \in Endpoints :
    (st[p] = "up" /\ queue[p][e] # <<>>) => Head(queue[p][e]).type # "emptied"
===================================================================================
