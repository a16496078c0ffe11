---------------------------------- MODULE PubSub ----------------------------------
(***********************************************************************************)
(* The processes of os_exercise_06 and the ZeroMQ PUB/SUB sockets between them, as *)
(* src/server.cpp and src/client.cpp use the library:                              *)
(*                                                                                 *)
(*   - a PUB socket is bound to an endpoint named after the id of its process      *)
(*     (zmq_tools.cpp); a SUB socket is connected to endpoints by name, keeps one  *)
(*     FIFO of received messages per endpoint and never forgets an endpoint it was *)
(*     not told to disconnect from;                                                *)
(*   - connecting is asynchronous: connect() returns at once, a background thread  *)
(*     finds the process that is bound to the endpoint, and finds a new one after  *)
(*     the old one is gone (Link);                                                 *)
(*   - what is published while no link is up is lost; what has been published is   *)
(*     still delivered after an orderly close (the socket lingers), and a prefix   *)
(*     of it after a kill -9.                                                      *)
(***********************************************************************************)
EXTENDS Integers, Sequences, FiniteSets

CONSTANTS Ids,     \* the ids the user gives to computing nodes
          Pids,    \* the pids fork() can return: as many processes as the system allows
          Hasty    \* may a process go on before the connections under way are made

\* A pid is told from an id: the user picks small ids.  fork() never returns 0 or 1.
ASSUME PubSubAssumption == /\ Ids \subseteq Nat
                           /\ Pids \subseteq Nat \ {0}
                           /\ Ids \cap Pids = {}
                           /\ Hasty \in BOOLEAN

VARIABLES
  st,      \* the life of each process
  id,      \* the id in the name of a process's endpoints (argv[1] of client)
  ppid,    \* the process that forked it
  subs,    \* the endpoints its SUB socket was told to connect to
  peer,    \* the process at the other end of each of these connections, or None
  queue,   \* what it received from each endpoint and has not read
  strays   \* history: those whose parent closed its sockets before they had connected to it

net == <<st, id, ppid, subs, peer, queue, strays>>

Server    == 0           \* the process of server.cpp
Procs     == {Server} \cup Pids
None      == -3          \* no process, no id
Root      == -1          \* the parent_id that stands for the user node
Broadcast == -2          \* BROADCAST_ID

Sides     == {"children", "parent"}
Endpoints == ({Root} \cup Ids) \X Sides

Tasks   == {"ping", "create", "remove", "exec"}
Answers == {"ping_answer", "create_answer", "exec_answer"}

(***********************************************************************************)
(* A message is its header and the first int of its body: the child id of a        *)
(* create, the pid of a create answer, the source of a ping answer, the number of  *)
(* entries of an exec answer.  Every get_message_* reads that int at the same      *)
(* offset and none looks at the type.                                              *)
(***********************************************************************************)
DownMessage == [dir : {"to_client"}, type : {"create"}, to : Int, val : Ids]
               \cup [dir : {"to_client"}, type : (Tasks \ {"create"}) \cup {"emptied"},
                     to : Int, val : {None}]
UpMessage   == [dir : {"to_server"}, type : Answers, to : {-1}, val : Int]
Message     == DownMessage \cup UpMessage

Down(type, to, val) == [dir |-> "to_client", type |-> type, to |-> to, val |-> val]
Up(type, val)       == [dir |-> "to_server", type |-> type, to |-> -1, val |-> val]

PingMsg(to)          == Down("ping", to, None)
CreateMsg(to, child) == Down("create", to, child)
RemoveMsg(to)        == Down("remove", to, None)
ExecMsg(to)          == Down("exec", to, None)
PingAnswerAsPing(src) == Up("ping", src)      \* a slip: the question's type
PingAnswer(src)      == Up("ping_answer", src)
CreateAnswer(pid)    == Up("create_answer", pid)
ExecAnswer(entries)  == Up("exec_answer", entries)

\* A message_t that was already sent: send() leaves it with size 0 and its header's bytes.
Emptied(m) == [m EXCEPT !.type = "emptied"]

SideSwapped(m) == IF m.dir = "to_server" THEN "children" ELSE "parent"
SideOf(m) == IF m.dir = "to_server" THEN "parent" ELSE "children"

-----------------------------------------------------------------------------------
\* A process whose sockets are open.
Open(p) == st[p] \in {"up", "stopping"}

Bound(e) == {p \in Procs : Open(p) /\ id[p] = e[1]}

\* p sends ms on its PUB socket of the given side, the queues being q.
Publish(q, p, side, ms) ==
  [r \in Procs |-> [e \in Endpoints |->
     IF peer[r][e] = p /\ e[2] = side THEN q[r][e] \o ms ELSE q[r][e]]]

\* p reads the first message from endpoint e.
Read(p, e) == [queue EXCEPT ![p][e] = Tail(@)]

\* p closes its sockets: it drops what it did not read, and its peers lose the link.
Unread(q, p)  == [q EXCEPT ![p] = [e \in Endpoints |-> <<>>]]
Unlinked(p)   == [r \in Procs |-> [e \in Endpoints |->
                    IF r = p \/ peer[r][e] = p THEN None ELSE peer[r][e]]]
HangUp(q, p)  == /\ queue' = Unread(q, p)
                 /\ peer'  = Unlinked(p)
                 /\ subs'  = [subs EXCEPT ![p] = {}]

\* fork() and execl("client", child, name of the parent's endpoint).
CanFork  == \E c \in Pids : st[c] = "free"
FreshPid == CHOOSE c \in Pids : st[c] = "free"
Fork(p, child) ==
  /\ CanFork
  /\ st'   = [st EXCEPT ![FreshPid] = "forked"]
  /\ id'   = [id EXCEPT ![FreshPid] = child]
  /\ ppid' = [ppid EXCEPT ![FreshPid] = p]
  /\ subs' = [subs EXCEPT ![p] = @ \cup {<<child, "parent">>}]

-----------------------------------------------------------------------------------
\* The library connects q to a process bound to e.
Link(q, e) ==
  /\ Open(q) /\ e \in subs[q] /\ peer[q][e] = None
  /\ \E p \in Bound(e) : peer' = [peer EXCEPT ![q][e] = p]
  /\ UNCHANGED <<st, id, ppid, subs, queue, strays>>

\* kill -9: the process is gone, and each peer receives a prefix of what it published.
MaxKept == 3      \* no peer ever has more than three unread messages of one process
Kill(p) ==
  /\ st[p] \in {"forked", "up", "stopping"}
  /\ st' = [st EXCEPT ![p] = "killed"]
  /\ LET heard == {l \in Procs \X Endpoints : peer[l[1]][l[2]] = p}
     IN \E kept \in [heard -> 0 .. MaxKept] :
          LET q == [r \in Procs |-> [e \in Endpoints |->
                IF <<r, e>> \in heard /\ kept[<<r, e>>] < Len(queue[r][e])
                THEN SubSeq(queue[r][e], 1, kept[<<r, e>>]) ELSE queue[r][e]]]
          IN HangUp(q, p)
  /\ UNCHANGED <<id, ppid, strays>>

\* Joined: no process is starting and every connection that can be made is made.
\* Settled: besides, no one is stopping and the computing nodes have read everything.
\* Without Hasty, a node handles a message once all are joined, and the user types the next
\* command once all is settled.  The end of the input and the signals wait for nothing.
Joined ==
  /\ \A p \in Pids : st[p] # "forked"
  /\ \A p \in Procs : Open(p) =>
       \A e \in subs[p] : peer[p][e] = None => Bound(e) = {}
Ready      == Hasty \/ Joined
NodesQuiet == \A p \in Pids : \A e \in Endpoints : queue[p][e] = <<>>
Settled    == Joined /\ NodesQuiet /\ \A p \in Pids : st[p] # "stopping"
Unhurried  == Hasty \/ Settled

NetInit ==
  /\ st    = [p \in Procs |-> IF p = Server THEN "up" ELSE "free"]
  /\ id    = [p \in Procs |-> IF p = Server THEN Root ELSE None]
  /\ ppid  = [p \in Procs |-> None]
  /\ subs  = [p \in Procs |-> {}]
  /\ peer  = [p \in Procs |-> [e \in Endpoints |-> None]]
  /\ queue = [p \in Procs |-> [e \in Endpoints |-> <<>>]]
  /\ strays = {}

NetTypeOK ==
  /\ st    \in [Procs -> {"free", "forked", "up", "stopping", "gone", "killed", "crashed"}]
  /\ id    \in [Procs -> Ids \cup {Root, None}] /\ id[Server] = Root
  /\ ppid  \in [Procs -> Procs \cup {None}]
  /\ subs  \in [Procs -> SUBSET Endpoints]
  /\ peer  \in [Procs -> [Endpoints -> Procs \cup {None}]]
  /\ queue \in [Procs -> [Endpoints -> Seq(Message)]]
  /\ strays \in SUBSET Pids

-----------------------------------------------------------------------------------
\* Tasks only travel down and answers only up, so that no message can circle: what
\* client_run passes on leaves on the socket its header's direction names.
Carried(side) == IF side = "parent" THEN UpMessage ELSE DownMessage
DirectionsKept ==
  \A p \in Procs, e \in Endpoints : queue[p][e] \in Seq(Carried(e[2]))
===================================================================================
