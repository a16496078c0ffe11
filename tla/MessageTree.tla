-------------------------------- MODULE MessageTree -------------------------------
(***********************************************************************************)
(* The user node of os_exercise_06 (src/server.cpp) composed with the computing    *)
(* nodes it starts.  The user types commands; the server answers each after one to *)
(* three exchanges over the tree, reading exactly one message, or waiting out      *)
(* RCVTIMEO, per exchange.                                                         *)
(***********************************************************************************)
EXTENDS ComputingNode

CONSTANTS Menu,     \* the k-th command the user types is a member of Menu[k]
          Slow,     \* may RCVTIMEO expire while an answer is still on its way
          MaxTerms, \* how many computing nodes receive SIGINT or SIGTERM
          MaxKills  \* how many computing nodes are killed with SIGKILL

Command   == [op : {"create"}, id : Ids, parent : Ids \cup {Root}]
             \cup [op : {"remove", "exec", "ping"}, id : Ids, parent : {None}]
NoCommand == [op |-> "ping", id |-> None, parent |-> None]

ASSUME MessageTreeAssumption == /\ Menu \in Seq(SUBSET Command)
                                /\ Slow \in BOOLEAN
                                /\ MaxTerms \in Nat /\ MaxKills \in Nat

VARIABLES
  pc,      \* what the server waits for: "idle" is the next command
  cmd,     \* the command being handled
  out,     \* the answer printed last
  typed,   \* the number of commands typed
  terms, kills

server == <<pc, cmd, out, typed, terms, kills>>
vars   == <<net, server>>

Outs   == {"none", "ok", "not_found", "no_parent", "exists", "error", "undefined"}

TypeOK ==
  /\ NetTypeOK
  /\ pc \in {"idle", "parent", "child", "dest", "create", "exec"}
  /\ cmd \in Command \cup {NoCommand}
  /\ out \in Outs
  /\ typed \in 0 .. Len(Menu) /\ terms \in 0 .. MaxTerms /\ kills \in 0 .. MaxKills

Init ==
  /\ NetInit
  /\ pc = "idle" /\ cmd = NoCommand /\ out = "none"
  /\ typed = 0 /\ terms = 0 /\ kills = 0

-----------------------------------------------------------------------------------
NoMessage == Up("none", None)

\* What receive_msg can return: the first message of some queue, or none after RCVTIMEO.
\* Slips: a timeout shorter than a round trip; no timeout.
ExpiresEarly == \A e \in Endpoints : queue[Server][e] = <<>>
ExpiresNever == FALSE
Expires == /\ \A e \in Endpoints : queue[Server][e] = <<>>
           /\ Slow \/ NodesQuiet
Receipts ==
  {[msg |-> Head(queue[Server][e]), rest |-> Read(Server, e)] :
      e \in {x \in Endpoints : queue[Server][x] # <<>>}}
  \cup (IF Expires THEN {[msg |-> NoMessage, rest |-> queue]} ELSE {})

\* is_exists(i), given what receive_msg returned: the body is compared, not the type.
IsExistsSwapped(r, i) == r.msg # NoMessage /\ r.msg.val # i     \* a slip: == for !=
IsExists(r, i) == r.msg # NoMessage /\ r.msg.val = i

Send(q, m)    == queue' = Publish(q, Server, "children", <<m>>)
AskNext(q, i) == Send(q, PingMsg(i))
Say(o)      == pc' = "idle" /\ out' = o

\* A command is read from stdin and its first message sent.
ReadCommand ==
  /\ st[Server] = "up" /\ pc = "idle" /\ typed < Len(Menu) /\ Unhurried
  /\ typed' = typed + 1
  /\ \E c \in Menu[typed + 1] :
       /\ cmd' = c
       /\ \/ /\ c.op = "create" /\ c.parent # Root
             /\ pc' = "parent" /\ AskNext(queue, c.parent)
          \/ /\ c.op = "create" /\ c.parent = Root
             /\ pc' = "child" /\ AskNext(queue, c.id)
          \/ /\ c.op # "create"
             /\ pc' = "dest" /\ AskNext(queue, c.id)
  /\ UNCHANGED <<st, id, ppid, subs, peer, strays, out, terms, kills>>

\* handle_create after is_exists(parent_id).
CheckParent ==
  /\ st[Server] = "up" /\ pc = "parent"
  /\ \E r \in Receipts :
       \/ /\ IsExists(r, cmd.parent)
          /\ AskNext(r.rest, cmd.id) /\ pc' = "child" /\ UNCHANGED out
       \/ /\ ~IsExists(r, cmd.parent)
          /\ queue' = r.rest /\ Say("no_parent")
  /\ UNCHANGED <<st, id, ppid, subs, peer, strays, cmd, typed, terms, kills>>

\* handle_create after is_exists(child_id).
CheckChild ==
  /\ st[Server] = "up" /\ pc = "child"
  /\ \E r \in Receipts :
       \/ /\ IsExists(r, cmd.id)
          /\ queue' = r.rest /\ Say("exists") /\ UNCHANGED <<st, id, ppid, subs>>
       \/ /\ ~IsExists(r, cmd.id) /\ cmd.parent # Root
          /\ Send(r.rest, CreateMsg(cmd.parent, cmd.id))
          /\ pc' = "create" /\ UNCHANGED <<out, st, id, ppid, subs>>
       \/ /\ ~IsExists(r, cmd.id) /\ cmd.parent = Root /\ ~CanFork
          /\ queue' = r.rest /\ Say("error") /\ UNCHANGED <<st, id, ppid, subs>>
       \/ /\ ~IsExists(r, cmd.id) /\ cmd.parent = Root
          /\ Fork(Server, cmd.id) /\ queue' = r.rest /\ Say("ok")
  /\ UNCHANGED <<peer, strays, cmd, typed, terms, kills>>

\* Decoding a message that is missing or of another type reads bytes nobody wrote:
\* something is printed, or the size found there ends the server by an exception.
DecodeGarbage(q) ==
  \/ Say("undefined") /\ queue' = q /\ UNCHANGED <<st, subs, peer>>
  \/ Say("undefined") /\ st' = [st EXCEPT ![Server] = "crashed"] /\ HangUp(q, Server)

CreateDone ==
  /\ st[Server] = "up" /\ pc = "create"
  /\ \E r \in Receipts :
       \/ /\ r.msg.type = "create_answer"
          /\ Say(IF r.msg.val = -1 THEN "error" ELSE "ok")
          /\ queue' = r.rest /\ UNCHANGED <<st, subs, peer>>
       \/ r.msg.type # "create_answer" /\ DecodeGarbage(r.rest)
  /\ UNCHANGED <<id, ppid, strays, cmd, typed, terms, kills>>

\* handle_remove, handle_exec and handle_ping after is_exists.
CheckDest ==
  /\ st[Server] = "up" /\ pc = "dest"
  /\ \E r \in Receipts :
       \/ ~IsExists(r, cmd.id) /\ queue' = r.rest /\ Say("not_found")
       \/ /\ IsExists(r, cmd.id)
          /\ \/ cmd.op = "ping" /\ queue' = r.rest /\ Say("ok")
             \/ cmd.op = "remove" /\ Send(r.rest, RemoveMsg(cmd.id)) /\ Say("ok")
             \/ /\ cmd.op = "exec" /\ Send(r.rest, ExecMsg(cmd.id))
                /\ pc' = "exec" /\ UNCHANGED out
  /\ UNCHANGED <<st, id, ppid, subs, peer, strays, cmd, typed, terms, kills>>

ExecDone ==
  /\ st[Server] = "up" /\ pc = "exec"
  /\ \E r \in Receipts :
       \/ /\ r.msg.type = "exec_answer" /\ Say("ok")
          /\ queue' = r.rest /\ UNCHANGED <<st, subs, peer>>
       \/ r.msg.type # "exec_answer" /\ DecodeGarbage(r.rest)
  /\ UNCHANGED <<id, ppid, strays, cmd, typed, terms, kills>>

\* server_deinit, at the end of the input or on SIGINT or SIGTERM: nothing is waited for,
\* not even the child of a create that has just been answered.
ServerStop ==
  /\ st[Server] = "up"
  /\ Deinit(Server)
  /\ UNCHANGED server

Receive == CheckParent \/ CheckChild \/ CreateDone \/ CheckDest \/ ExecDone

NodeSignal(p) == /\ terms < MaxTerms /\ NodeTerm(p)
                 /\ terms' = terms + 1 /\ UNCHANGED <<pc, cmd, out, typed, kills>>
NodeKill(p)   == /\ kills < MaxKills /\ Kill(p)
                 /\ kills' = kills + 1 /\ UNCHANGED <<pc, cmd, out, typed, terms>>

\* Nothing is left to run but strays, which wait for ever for a message nobody will send:
\* the only states in which this system may stand still.
AllGone == /\ \A p \in Procs : \/ st[p] \in {"free", "gone", "killed"}
                               \/ p \in strays /\ st[p] = "up"
           /\ UNCHANGED vars

Next ==
  \/ ReadCommand \/ Receive \/ ServerStop
  \/ \E p \in Pids : NodeNext(p) /\ UNCHANGED server
  \/ \E p \in Pids : NodeSignal(p) \/ NodeKill(p)
  \/ \E q \in Procs, e \in Endpoints : Link(q, e) /\ UNCHANGED server
  \/ AllGone

Spec == Init /\ [][Next]_vars

\* Every process that can run is scheduled, the library keeps connecting, and the server
\* is not stuck before RCVTIMEO.  What the user, kill and the signals do is not fair.
Fairness ==
  /\ WF_vars(Receive)
  /\ \A p \in Pids : /\ WF_vars(NodeInit(p) /\ UNCHANGED server)
                     /\ WF_vars(NodeStop(p) /\ UNCHANGED server)
                     /\ \A e \in Endpoints : WF_vars(NodeStep(p, e) /\ UNCHANGED server)
  /\ \A q \in Procs, e \in Endpoints : WF_vars(Link(q, e) /\ UNCHANGED server)

FairSpec == Spec /\ Fairness

-----------------------------------------------------------------------------------
\* The inductive invariant of MessageTreeProofs.  A process that exists has the id it was
\* given and a parent that exists; a command under way was typed.
Lineage == \A p \in Pids : st[p] # "free" =>
  id[p] \in Ids /\ ppid[p] \in Procs /\ id[ppid[p]] \in Ids \cup {Root}
IInv == /\ TypeOK /\ Lineage /\ DirectionsKept /\ RemoveComesFirst
        /\ pc # "idle" => cmd \in Command

\* p and every process between it and the server are up.
Reachable(p) == \E S \in SUBSET Pids :
  p \in S /\ \A r \in S : st[r] = "up" /\ ppid[r] \in S \cup {Server}
Present(i)   == \E p \in Pids : id[p] = i /\ Reachable(p)

\* No two live processes carry the same id, whatever was created and removed before
\* (handle_create's "Already exists").
UniqueIds ==
  \A p, q \in Pids : /\ p # q
                     /\ st[p] \in {"forked", "up"} /\ st[q] \in {"forked", "up"}
                     => id[p] # id[q]

\* The server never denies a node that is connected to it through live nodes: "Parent
\* not found" and "Not found" are printed only for an id no such node carries, and a
\* node is only created for such an id.
NoFalseAbsence ==
  [][/\ pc = "parent" /\ pc' = "idle" => ~Present(cmd.parent)
     /\ pc = "dest" /\ pc' = "idle" /\ out' = "not_found" => ~Present(cmd.id)
     /\ pc = "child" /\ (pc' = "create" \/ (pc' = "idle" /\ out' = "ok")) => ~Present(cmd.id)
    ]_vars

\* What has reached the server is the one answer it waits for: no answer of an earlier
\* exchange is left for a later one (is_exists and receive_msg read a single message
\* and look at no type).
Awaited(m) ==
  \/ pc = "parent" /\ m = PingAnswer(cmd.parent)
  \/ pc \in {"child", "dest"} /\ m = PingAnswer(cmd.id)
  \/ pc = "create" /\ m.type = "create_answer"
  \/ pc = "exec" /\ m.type = "exec_answer"
InStep ==
  LET full == {e \in Endpoints : queue[Server][e] # <<>>}
  IN /\ \A e \in full : Len(queue[Server][e]) = 1 /\ Awaited(Head(queue[Server][e]))
     /\ Cardinality(full) =< 1

\* A computing node whose parent process has come to an orderly end has been told to stop:
\* by a remove, by a parent stopped by a signal or by a server at the end of its input,
\* and also when another node is killed at that moment.  The message is only lost on a
\* node that had not yet connected to its parent when that ended: such a stray runs for
\* ever, since client_deinit waits for no subscriber and client_run has no timeout.
OrphanIsTold ==
  \A p \in Pids \ strays : st[p] = "up" /\ st[ppid[p]] = "gone" =>
    \E e \in Endpoints : \E k \in 1 .. Len(queue[p][e]) : queue[p][e][k] = RemoveMsg(Broadcast)

\* The server outlives its computing nodes.
ServerSurvives == st[Server] # "crashed"

\* A node is found only if a process ever carried its id.
NoPhantom == [][pc = "dest" /\ cmd.op = "ping" /\ pc' = "idle" /\ out' = "ok"
                  => \E p \in Pids : id[p] = cmd.id]_vars

\* Every command is answered, or the server is stopped.
Answered == pc # "idle" ~> (pc = "idle" \/ st[Server] # "up")

\* A process whose parent, a computing node or the server, has come to an orderly end (a
\* remove, a signal, the end of the input) ends too, whatever was killed meanwhile, unless
\* it was not yet connected to that parent when it ended.
SubtreeStops ==
  \A p \in Pids : (st[p] # "free" /\ st[ppid[p]] = "gone" /\ p \notin strays)
                    ~> st[p] \in {"gone", "killed"}
-----------------------------------------------------------------------------------
\* The directory the processes stand for.  A node is in it from its fork until a remove
\* message is on its way to it or to a node above it.
Told(p) == \E q \in Pids, e \in Endpoints : \E k \in 1 .. Len(queue[q][e]) :
  LET m == queue[q][e][k]
  IN m.type = "remove" /\ (m.to = id[p] \/ (q = p /\ m.to = Broadcast))
Stays(p) == \E S \in SUBSET Pids : p \in S /\ \A r \in S :
  st[r] \in {"forked", "up"} /\ ~Told(r) /\ ppid[r] \in S \cup {Server}
Running == st[Server] = "up"
Tree == [i \in Ids |-> IF Running /\ \E p \in Pids : id[p] = i /\ Stays(p)
                      THEN id[ppid[CHOOSE p \in Pids : id[p] = i /\ Stays(p)]] ELSE None]
Stage   == IF ~Running \/ pc = "idle" THEN "idle"
           ELSE IF pc = "create" /\ Tree[cmd.id] # None THEN "grown" ELSE "asked"

Directory == INSTANCE NodeDirectory WITH
  tree <- Tree, stage <- Stage, open <- Running, Absent <- None,
  Commands <- UNION {Menu[k] : k \in DOMAIN Menu}

\* The user cannot tell the tree of processes from a directory kept in one place: every
\* answer is true of the nodes that live, and remove takes the whole subtree.
ImplementsDirectory == Directory!DirSpec
===================================================================================
