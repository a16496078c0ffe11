------------------------------ MODULE TreeInvariant -------------------------------
(***********************************************************************************)
(* The inductive invariant behind UniqueIds, InStep and NoFalseAbsence of          *)
(* MessageTree: how processes, connections, messages and the server's question     *)
(* hang together as long as nobody is killed with SIGKILL, no node ends before its *)
(* children are connected to it, every id is only ever created in one place and    *)
(* nobody hurries.                                                                 *)
(***********************************************************************************)
EXTENDS MessageTree

\* The nodes under which the menu creates node i, and the one of them that counts.
Homes(i) == {h \in Ids \cup {Root} : \E k \in DOMAIN Menu : \E c \in Menu[k] :
               c.op = "create" /\ c.id = i /\ c.parent = h}
Home     == [i \in Ids |-> IF Homes(i) = {} THEN Root ELSE CHOOSE h \in Homes(i) : TRUE]

\* The node a is t or above it.
ClosedUp(S) == \A i \in S : Home[i] \in Ids => Home[i] \in S
Anc(a, t)   == a \in Ids /\ t \in Ids /\ \A S \in SUBSET Ids : t \in S /\ ClosedUp(S) => a \in S

\* No id is created in two places (what happens then is in tree_moved_node), nor below itself.
OneHome == /\ \A i \in Ids : \A g, h \in Homes(i) : g = h
           /\ \A i \in Ids : ~Anc(i, Home[i])
Orderly == ~Hasty /\ ~Slow /\ OneHome

-----------------------------------------------------------------------------------
\* The processes.  A node hangs where its id belongs, and in the end from the server; no
\* two live ones share an id; what has the id of a node's parent is the parent itself,
\* unless the node is on its way out.
Live(p) == st[p] \in {"forked", "up", "stopping"}
Family == \A p \in Pids :
  /\ st[p] \notin {"killed", "crashed"}
  /\ st[p] = "free" => ppid[p] = None
  /\ st[p] # "free" => /\ id[p] \in Ids /\ ppid[p] \in Procs
                       /\ id[ppid[p]] = Home[id[p]]
                       /\ st[ppid[p]] \notin {"free", "forked"}
Anchored == \A p \in Pids : st[p] # "free" => \A S \in SUBSET Pids :
  p \in S /\ (\A r \in S : ppid[r] \in Pids => ppid[r] \in S) => \E r \in S : ppid[r] = Server
Distinct == \A p, q \in Pids : Live(p) /\ Live(q) /\ id[p] = id[q] => p = q
OwnParent == \A p \in Pids, u \in Procs :
  Live(p) /\ Live(u) /\ id[u] = id[ppid[p]] =>
    u = ppid[p] \/ (st[p] = "stopping" /\ pc \in {"idle", "create"})

\* The connections.  Everybody subscribes to the parent's id and to children's ids only, a
\* parent to all it has; the process at the other end has the name it was looked for by.
Upward(p)   == <<Home[id[p]], "children">>
Downward(p) == <<id[p], "parent">>
Subscribed ==
  /\ \A q \in Procs : \A e \in subs[q] :
       /\ Open(q)
       /\ \/ q # Server /\ e = Upward(q)
          \/ \E c \in Ids : Home[c] = id[q] /\ e = <<c, "parent">>
  /\ \A p \in Pids : Open(p) => Upward(p) \in subs[p]
  /\ \A p \in Pids : st[p] # "free" /\ Open(ppid[p]) => Downward(p) \in subs[ppid[p]]
Linked == \A q \in Procs, e \in Endpoints : peer[q][e] # None =>
  e \in subs[q] /\ peer[q][e] \in Procs /\ Open(peer[q][e]) /\ id[peer[q][e]] = e[1]

\* The messages: whom they wait for, and where a create belongs.
Waiting(q, r, e) == {q[r][e][k] : k \in 1 .. Len(q[r][e])}
Received == \A r \in Procs, e \in Endpoints : queue[r][e] # <<>> => e \in subs[r]
Placed ==
  /\ \A r \in Procs, e \in Endpoints : \A m \in Waiting(queue, r, e) :
       /\ m.type \in {"ping", "exec", "create"} => m.to \in Ids
       /\ m.type = "create" => m.to = Home[m.val]
  /\ pc # "idle" /\ cmd.op = "create" => cmd.parent = Home[cmd.id]
  /\ pc \in {"parent", "child", "create"} => cmd.op = "create"

\* A node whose parent is ending has been told; while a command is under way, only such are.
TellsAll == \A p \in Pids :
  st[p] \in {"forked", "up"} /\ st[ppid[p]] \in {"stopping", "gone"} =>
    \E e \in Endpoints : RemoveMsg(Broadcast) \in Waiting(queue, p, e)
OnlyDoomed == pc # "idle" => \A p \in Pids :
  /\ st[p] = "stopping" => st[ppid[p]] # "up"
  /\ \A e \in Endpoints : \A m \in Waiting(queue, p, e) :
       m.type = "remove" => m.to = Broadcast /\ st[ppid[p]] # "up"

\* The question under way, and the one message that stands for it: on its way down the
\* question in the queue of a node above its destination, on its way up the answer.  All
\* other copies of the question are with nodes from which it can reach nobody.
Target   == IF pc \in {"parent", "create"} THEN cmd.parent ELSE cmd.id
Question == IF pc = "create" THEN CreateMsg(cmd.parent, cmd.id)
            ELSE IF pc = "exec" THEN ExecMsg(cmd.id) ELSE PingMsg(Target)
Charged(i, m) == \/ m.type \in Answers
                 \/ m.type \in {"ping", "exec", "create"} /\ Anc(i, m.to)
Once(i, s) == \A k, l \in 1 .. Len(s) : Charged(i, s[k]) /\ Charged(i, s[l]) => k = l
OneCharge ==
  /\ \A r \in Procs, e \in Endpoints : Once(id[r], queue[r][e])
  /\ \A r, s \in Procs, d, e \in Endpoints :
       \A m \in Waiting(queue, r, d), n \in Waiting(queue, s, e) :
         Charged(id[r], m) /\ Charged(id[s], n) => r = s /\ d = e
Current == \A r \in Procs, e \in Endpoints : \A m \in Waiting(queue, r, e) :
  Charged(id[r], m) => /\ pc # "idle"
                       /\ m = Question \/ Awaited(m)
                       /\ r # Server => Anc(id[r], Target)
Pending  == \E r \in Procs, e \in Endpoints : \E m \in Waiting(queue, r, e) : Charged(id[r], m)
Creating == pc = "create" /\ \E r \in Procs, e \in Endpoints :
  Question \in Waiting(queue, r, e) /\ Charged(id[r], Question)

\* What is still being connected was created by the last command.
AllJoined == ~Joined => pc = "idle" \/ (pc = "create" /\ ~Creating)
\* A node is only created for an id that no live node has, and that no node needs.
NewId == Creating /\ (\E u \in Pids : st[u] = "up" /\ id[u] = cmd.parent) =>
  \A p \in Pids : Live(p) => /\ id[p] # cmd.id
                             /\ id[ppid[p]] = cmd.id => st[p] = "stopping"
\* A question to a node that can be reached is not lost.
Delivered == st[Server] = "up" /\ pc \in {"parent", "child", "dest"} /\ Present(Target) => Pending

Shape    == Family /\ Anchored /\ Distinct /\ Subscribed /\ Linked
Exchange == OneCharge /\ Current /\ Delivered
Calm     == /\ Shape /\ OwnParent /\ Received /\ Placed
            /\ TellsAll /\ OnlyDoomed /\ Exchange /\ AllJoined /\ NewId
TreeInv  == kills = 0 /\ strays = {} => Calm

-----------------------------------------------------------------------------------
\* What the answers say, as long as nobody receives a signal either and the server is up.
Lives(i) == \E p \in Pids : Live(p) /\ id[p] = i

\* While a command is under way nobody ends and nobody is told to.
Standing == \A p \in Pids :
  /\ st[p] # "stopping"
  /\ Live(p) => st[ppid[p]] = "up"
  /\ \A e \in Endpoints : \A m \in Waiting(queue, p, e) : m.type # "remove"
Steady == pc # "idle" => Standing

\* The first question tells the truth, and the second one is always answered.
Known ==
  /\ pc = "parent" => cmd.parent # Root
  /\ pc = "child" => cmd.parent = Root \/ Lives(cmd.parent)
  /\ pc = "create" => Lives(cmd.parent) /\ Pending
  /\ pc = "dest" => cmd.op # "create"
  /\ pc = "exec" => cmd.op = "exec" /\ Lives(cmd.id) /\ Pending
Truthful == \A r \in Procs, e \in Endpoints : \A m \in Waiting(queue, r, e) :
  /\ m.type = "ping_answer" => Lives(m.val)
  /\ m.type = "create_answer" => (m.val = -1 <=> ~Lives(cmd.id))

\* Of a remove to a node that is not cut off, one copy is with a node above it.
Sound(p) == \E S \in SUBSET Pids : p \in S /\ \A r \in S :
  st[r] \in {"forked", "up"} /\ ppid[r] \in S \cup {Server}
Names(m, p) == m.type = "remove" /\ m.to = id[p]
Named(p) == \E q \in Pids, e \in Endpoints : \E m \in Waiting(queue, q, e) : Names(m, p)
Ahead(p) == \E q \in Pids, e \in Endpoints : \E m \in Waiting(queue, q, e) :
              Names(m, p) /\ Anc(id[q], id[p])
RemoveFinds == \A p \in Pids : Sound(p) /\ Named(p) => Ahead(p)

\* A node only stops once everybody is connected, so that it leaves no stray behind.
Paused == (\E p \in Pids : st[p] = "stopping") => Joined

AnswersTrue == terms = 0 /\ kills = 0 =>
  /\ st[Server] \in {"up", "gone"}
  /\ st[Server] = "up" => /\ Steady /\ Known /\ Truthful /\ RemoveFinds
                          /\ strays = {} /\ Paused
===================================================================================
