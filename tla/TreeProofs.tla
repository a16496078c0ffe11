------------------------------- MODULE TreeProofs ---------------------------------
(***********************************************************************************)
(* As long as nobody is killed with SIGKILL, no child is left behind unconnected,  *)
(* no id has two homes and nobody hurries: ids are unique, the server's exchanges  *)
(* never mix and a reachable node is never denied.  As long as nobody receives a   *)
(* signal either, the answers are true, the server outlives every answer, and the  *)
(* tree implements the directory kept in one place.                                *)
(***********************************************************************************)
EXTENDS TreeLemmas, FiniteSetTheorems

\* What the steps below know of the state before.
LEMMA CalmTypes ==
  ASSUME IInv
  PROVE  /\ NetTypeOK /\ Queues(queue) /\ Lineage
         /\ pc \in {"idle", "parent", "child", "dest", "create", "exec"}
         /\ pc # "idle" => cmd \in Command
         /\ Server \in Procs /\ Pids \subseteq Procs
         /\ \A p \in Pids : st[p] # "free" => id[p] \in Ids
  BY NetInvForm, IInvForm, IdFacts DEF ServerTypeOK, Lineage

LEMMA TreeMessages ==
  /\ RemoveMsg(Broadcast) = [dir |-> "to_client", type |-> "remove", to |-> -2, val |-> None]
  /\ RemoveMsg(Broadcast) \in DownMessage
  /\ \A i, m : m.type \in {"remove", "emptied"} => ~Charged(i, m) /\ ~Task(m)
  /\ \A i, m : m.type \in Answers => Charged(i, m) /\ ~Task(m)
  /\ \A i, m : Task(m) => (Charged(i, m) <=> Anc(i, m.to)) /\ m.type \notin Answers
  /\ DownMessage \subseteq Message /\ UpMessage \subseteq Message
  BY MessageTypes DEF RemoveMsg, Down, Broadcast, Charged, Task, Answers, Message

\* A message is read and one is sent on.
LEMMA PassedOn ==
  ASSUME IInv, NEW p \in Procs, NEW e \in Endpoints, queue[p][e] # <<>>,
         NEW side, NEW m \in Message, queue' = Publish(Read(p, e), p, side, <<m>>)
  PROVE  /\ \A r \in Procs, d \in Endpoints : \A x \in Waiting(queue', r, d) :
              x \in Waiting(queue, r, d) \/ (x = m /\ peer[r][d] = p /\ d[2] = side)
         /\ \A r \in Procs, d \in Endpoints : \A x \in Waiting(queue, r, d) :
              x \in Waiting(queue', r, d) \/ (r = p /\ d = e /\ x = Head(queue[p][e]))
         /\ \A r \in Procs, d \in Endpoints :
              peer[r][d] = p /\ d[2] = side => m \in Waiting(queue', r, d)
         /\ Head(queue[p][e]) \in Waiting(queue, p, e)
         /\ Queues(Read(p, e)) /\ Head(queue[p][e]) \in Message
<1>1. Queues(queue)
  BY CalmTypes
<1>2. Queues(Read(p, e)) /\ Head(queue[p][e]) \in Message
  BY <1>1, ReadQueues, CarriedMessage DEF Endpoints
<1>3. \A r \in Procs, d \in Endpoints :
        Waiting(queue', r, d) = Waiting(Read(p, e), r, d)
                                  \cup (IF peer[r][d] = p /\ d[2] = side THEN {m} ELSE {})
  BY <1>2, PublishWaiting
<1>4. \A r \in Procs, d \in Endpoints :
        /\ Waiting(Read(p, e), r, d) \subseteq Waiting(queue, r, d)
        /\ r # p \/ d # e => Waiting(Read(p, e), r, d) = Waiting(queue, r, d)
        /\ Waiting(queue, p, e) = Waiting(Read(p, e), p, e) \cup {Head(queue[p][e])}
  BY <1>1, ReadWaiting
<1> QED  BY <1>2, <1>3, <1>4

-----------------------------------------------------------------------------------
\* The exchange, when a node reads a message and sends one on.
Heard(p, side, r, e) == peer[r][e] = p /\ e[2] = side

\* What it read is not charged, and what it sends charges nobody.
LEMMA ExchangeAside ==
  ASSUME IInv, Calm, NEW p \in Procs, NEW e \in Endpoints, queue[p][e] # <<>>,
         ~Charged(id[p], Head(queue[p][e])),
         NEW side, NEW m \in Message, queue' = Publish(Read(p, e), p, side, <<m>>),
         \A r \in Procs, d \in Endpoints : Heard(p, side, r, d) => ~Charged(id[r], m),
         UNCHANGED <<st, id, ppid, pc, cmd>>
  PROVE  Exchange' /\ (Creating' => Creating) /\ (Pending => Pending')
<1>1. Lone(queue, id) /\ Queues(queue)
  BY CalmTypes, OneChargeLone DEF Calm, Exchange
<1>2. Lone(Read(p, e), id) /\ Queues(Read(p, e))
  BY <1>1, ReadLone, PassedOn
<1>3. Lone(queue', id)
  BY <1>2, PublishIdle DEF Heard
<1>4. OneCharge'
  BY <1>3 DEF OneCharge, Lone
<1>5. \A r \in Procs, d \in Endpoints : \A x : Charged(id[r], x) =>
        (x \in Waiting(queue', r, d) <=> x \in Waiting(queue, r, d))
  BY PassedOn DEF Heard
<1>6. Target' = Target /\ Question' = Question /\ \A x : Awaited(x)' <=> Awaited(x)
  BY DEF Target, Question, Awaited
<1>7. Current'
  BY <1>5, <1>6 DEF Current, Calm, Exchange
<1>8. Pending => Pending'
  BY <1>5 DEF Pending
<1>9. Present(Target)' => Present(Target)
  BY <1>6 DEF Present, Reachable
<1>10. Delivered'
  BY <1>8, <1>9 DEF Delivered, Calm, Exchange
<1>11. Creating' => Creating
  BY <1>5, <1>6 DEF Creating
<1> QED  BY <1>4, <1>7, <1>8, <1>10, <1>11 DEF Exchange

\* What it read is the charge, and what it sends charges whoever is next.
LEMMA ExchangeOnward ==
  ASSUME IInv, Calm, NEW p \in Pids, NEW e \in Endpoints, queue[p][e] # <<>>,
         Charged(id[p], Head(queue[p][e])),
         NEW side, NEW m \in Message, queue' = Publish(Read(p, e), p, side, <<m>>),
         \A r, s \in Procs, d, f \in Endpoints :
           Heard(p, side, r, d) /\ Charged(id[r], m) /\ Heard(p, side, s, f) /\ Charged(id[s], m)
             => r = s /\ d = f,
         \A r \in Procs, d \in Endpoints : Heard(p, side, r, d) /\ Charged(id[r], m) =>
           (m = Question \/ Awaited(m)) /\ (r # Server => Anc(id[r], Target)),
         st[Server] = "up" /\ Present(Target) =>
           \E r \in Procs, d \in Endpoints : Heard(p, side, r, d) /\ Charged(id[r], m),
         \A r \in Procs, d \in Endpoints : queue'[r][d] # <<>> => id'[r] = id[r],
         UNCHANGED <<pc, cmd>>,
         pc \in {"parent", "child", "dest"} => UNCHANGED <<st, id, ppid>>
  PROVE  /\ Exchange' /\ (Creating' => m = Question)
         /\ st[Server] = "up" /\ Present(Target) => Pending'
<1>0. p \in Procs
  BY IdFacts
<1>1. Lone(queue, id) /\ Queues(queue)
  BY CalmTypes, OneChargeLone DEF Calm, Exchange
<1>2. Clear(Read(p, e), id) /\ Queues(Read(p, e))
  BY <1>0, <1>1, ReadLone, PassedOn
<1>3. /\ Lone(queue', id)
      /\ \A r \in Procs, d \in Endpoints : \A x \in Waiting(queue', r, d) :
           Charged(id[r], x) => x = m /\ Heard(p, side, r, d)
  <2>1. \A r, s \in Procs, d, f \in Endpoints :
           /\ peer[r][d] = p /\ d[2] = side /\ Charged(id[r], m)
           /\ peer[s][f] = p /\ f[2] = side /\ Charged(id[s], m)
           => r = s /\ d = f
    BY DEF Heard
  <2> QED  BY <1>2, <2>1, PublishOnce DEF Heard
<1>a. /\ \A r \in Procs, d \in Endpoints : \A x \in Waiting(queue', r, d) : id'[r] = id[r]
      /\ \A r \in Procs, d \in Endpoints : Once(id[r], queue'[r][d]) => Once(id'[r], queue'[r][d])
  <2>1. Len(<<>>) = 0 /\ \A i : Once(i, <<>>)
    BY DEF Once
  <2> QED  BY <2>1 DEF Waiting
<1>4. OneCharge'
  <2>1. \A r \in Procs, d \in Endpoints : Once(id'[r], queue'[r][d])
    BY <1>3, <1>a DEF Lone
  <2>2. \A r, s \in Procs, d, f \in Endpoints :
          \A x \in Waiting(queue', r, d), y \in Waiting(queue', s, f) :
            Charged(id'[r], x) /\ Charged(id'[s], y) => r = s /\ d = f
    BY <1>3, <1>a DEF Lone
  <2> QED  BY <2>1, <2>2 DEF OneCharge
<1>5. Target' = Target /\ Question' = Question /\ \A x : Awaited(x)' <=> Awaited(x)
  BY DEF Target, Question, Awaited
<1>6. pc # "idle" /\ Head(queue[p][e]) \in Waiting(queue, p, e)
  BY <1>0, PassedOn DEF Current, Calm, Exchange
<1>7. Current'
  BY <1>3, <1>5, <1>6, <1>a DEF Current
<1>8. pc \in {"parent", "child", "dest"} /\ Present(Target)' => Present(Target)
  BY <1>5 DEF Present, Reachable
<1>9. ASSUME NEW r \in Procs, NEW d \in Endpoints, Heard(p, side, r, d), Charged(id[r], m)
      PROVE  Pending'
  <2>1. m \in Waiting(queue', r, d)
    BY <1>0, <1>9, PassedOn DEF Heard
  <2> QED  BY <1>9, <1>a, <2>1 DEF Pending
<1>10. Delivered'
  BY <1>8, <1>9 DEF Delivered
<1>11. Creating' => m = Question
  BY <1>3, <1>5, <1>a DEF Creating
<1> QED  BY <1>4, <1>7, <1>9, <1>10, <1>11 DEF Exchange

LEMMA QuestionFacts ==
  ASSUME IInv
  PROVE  /\ \A m : Awaited(m) => m.type \in Answers
         /\ Task(Question) /\ Question.type \notin Answers
         /\ Question.to = Target
         /\ Question.type = "create" <=> pc = "create"
         /\ Question.type = "exec" <=> pc = "exec"
  BY DEF Awaited, PingAnswer, Up, Answers, Question, CreateMsg, ExecMsg, PingMsg, Down, Task, Target

\* A node, once its connections are made, is heard by its parent if that lives.
LEMMA HeardByParent ==
  ASSUME IInv, Calm, Joined, st[Server] = "up", NEW p \in Pids, Reachable(p)
  PROVE  \E r \in Procs, d \in Endpoints : Heard(p, "parent", r, d)
<1>1. st[p] = "up" /\ (ppid[p] = Server \/ (ppid[p] \in Pids /\ Reachable(ppid[p])))
  BY ReachUp
<1>2. Open(p) /\ Open(ppid[p])
  BY <1>1, ReachUp DEF Open
<1>3. ppid[p] \in Procs /\ Downward(p) \in Endpoints /\ peer[ppid[p]][Downward(p)] = p
  BY <1>2, JoinedToParent, CalmTypes DEF Calm
<1> QED  BY <1>3 DEF Heard, Downward

\* Who is charged and addressed answers: the parent is charged instead.
LEMMA ReplyKept ==
  ASSUME IInv, Calm, OneHome, Joined, NEW p \in Pids, st[p] = "up", NEW e \in Endpoints,
         queue[p][e] # <<>>, Task(Head(queue[p][e])), Head(queue[p][e]).to = id[p],
         NEW a \in UpMessage,
         \/ Head(queue[p][e]).type = "ping" /\ a = PingAnswer(id[p])
         \/ Head(queue[p][e]).type = "exec" /\ a.type = "exec_answer"
         \/ Head(queue[p][e]).type = "create" /\ a.type = "create_answer",
         queue' = Publish(Read(p, e), p, "parent", <<a>>),
         \A r \in Procs, d \in Endpoints : queue'[r][d] # <<>> => id'[r] = id[r],
         UNCHANGED <<pc, cmd>>,
         pc \in {"parent", "child", "dest"} => UNCHANGED <<st, id, ppid>>
  PROVE  /\ Exchange' /\ ~Creating'
         /\ Head(queue[p][e]) = Question /\ id[p] = Target /\ pc # "idle"
         /\ st[Server] = "up" /\ Present(Target) => Pending'
<1> DEFINE m == Head(queue[p][e])
<1>0. /\ p \in Procs /\ NetTypeOK /\ Shape /\ id[p] \in Ids /\ a \in Message
      /\ pc \in {"idle", "parent", "child", "dest", "create", "exec"}
  BY CalmTypes, TreeMessages DEF Calm
<1>1. Charged(id[p], m)
  BY <1>0, AncSelf, TreeMessages
<1>2. m \in Waiting(queue, p, e)
  BY <1>0, <1>0, PassedOn
<1>3. pc # "idle" /\ (m = Question \/ Awaited(m)) /\ Anc(id[p], Target)
  BY <1>0, <1>1, <1>2, IdFacts DEF Calm, Exchange, Current
<1>4. m = Question /\ id[p] = Target
  BY <1>3, QuestionFacts, TreeMessages
<1>5. Awaited(a)
  BY <1>0, <1>3, <1>4, QuestionFacts DEF Awaited, Target
<1>6. \A r, s \in Procs, d, f \in Endpoints :
        Heard(p, "parent", r, d) /\ Charged(id[r], a) /\ Heard(p, "parent", s, f) /\ Charged(id[s], a)
          => r = s /\ d = f
  BY <1>0, OneWayUp DEF Heard
<1>7. ASSUME NEW r \in Procs, NEW d \in Endpoints, Heard(p, "parent", r, d), r # Server
      PROVE  Anc(id[r], Target)
  <2>1. Home[id[p]] = id[r] /\ Open(r) /\ r \in Pids
    BY <1>0, <1>7, HeardAbove, IdFacts DEF Heard
  <2>2. id[r] \in Ids
    BY <2>1, CalmTypes DEF Open
  <2> QED  BY <1>3, <2>1, <2>2, AncUp
<1>8. a.type \in Answers
  BY DEF UpMessage
<1>9. ASSUME st[Server] = "up", Present(Target)
      PROVE  \E r \in Procs, d \in Endpoints : Heard(p, "parent", r, d) /\ Charged(id[r], a)
  <2>1. PICK q \in Pids : id[q] = id[p] /\ Reachable(q)
    BY <1>4, <1>9 DEF Present
  <2>2. q = p
    BY <1>0, <2>1, OneLive, ReachUp, CalmTypes DEF Live
  <2> QED  BY <1>8, <1>9, <2>1, <2>2, HeardByParent, TreeMessages
<1> HIDE DEF m
<1>10. /\ Exchange' /\ (Creating' => a = Question)
       /\ st[Server] = "up" /\ Present(Target) => Pending'
  BY <1>0, <1>1, <1>5, <1>6, <1>7, <1>9, ExchangeOnward DEF m
<1> QED  BY <1>3, <1>4, <1>8, <1>10, QuestionFacts DEF m

\* A node passes on a task or an answer that does not name it.
LEMMA PassKept ==
  ASSUME IInv, Calm, OneHome, Joined, NEW p \in Pids, st[p] = "up", NEW e \in Endpoints,
         queue[p][e] # <<>>, Head(queue[p][e]).to # id[p],
         Task(Head(queue[p][e])) \/ Head(queue[p][e]).type \in Answers \cup {"remove"},
         queue' = Publish(Read(p, e), p, SideOf(Head(queue[p][e])), <<Head(queue[p][e])>>),
         UNCHANGED <<st, id, ppid, pc, cmd>>
  PROVE  /\ Exchange' /\ (Creating' => Creating)
         /\ st[Server] = "up" /\ Present(Target) /\ Pending => Pending'
<1> DEFINE m == Head(queue[p][e])
<1>0. /\ p \in Procs /\ NetTypeOK /\ Shape /\ id[p] \in Ids /\ m \in Message
      /\ m \in Waiting(queue, p, e)
  <2>1. Queues(queue)
    BY CalmTypes
  <2>2. m \in Message /\ m \in Waiting(queue, p, e)
    BY <2>1, ReadQueues, CarriedMessage, CalmTypes, ReadWaiting DEF Endpoints
  <2> QED  BY <2>2, CalmTypes DEF Calm
<1>1. Task(m) => SideOf(m) = "children"
  BY <1>0 DEF Message, UpMessage, DownMessage, SideOf, Task, Answers
<1>2. m.type \in Answers => SideOf(m) = "parent"
  BY <1>0 DEF Message, UpMessage, DownMessage, SideOf, Tasks, Answers
<1>3. Charged(id[p], m) =>
        pc # "idle" /\ (m = Question \/ Awaited(m)) /\ Anc(id[p], Target)
  BY <1>0, IdFacts DEF Calm, Exchange, Current
<1> HIDE DEF m
<1>4. CASE ~Charged(id[p], m)
  <2>1. Task(m) \/ m.type = "remove"
    BY <1>4, TreeMessages DEF m
  <2>2. \A r \in Procs, d \in Endpoints : Heard(p, SideOf(m), r, d) => ~Charged(id[r], m)
    BY <1>0, <1>1, <1>4, <2>1, DeadEnd, TreeMessages DEF Heard
  <2> QED  BY <1>0, <1>4, <2>2, ExchangeAside DEF m
<1>5. CASE Charged(id[p], m) /\ Task(m)
  <2>1. m = Question /\ m.to = Target
    BY <1>3, <1>5, QuestionFacts, TreeMessages
  <2>2. \A r, s \in Procs, d, f \in Endpoints :
          Heard(p, "children", r, d) /\ Charged(id[r], m) /\ Heard(p, "children", s, f) /\ Charged(id[s], m)
            => r = s /\ d = f
    BY <1>0, <1>5, OneWayDown DEF Heard
  <2>3. \A r \in Procs : Charged(id[r], m) => Anc(id[r], Target)
    BY <1>5, <2>1, TreeMessages
  <2>4. ASSUME st[Server] = "up", Present(Target)
        PROVE  \E r \in Procs, d \in Endpoints : Heard(p, "children", r, d) /\ Charged(id[r], m)
    <3>1. PICK q \in Pids : id[q] = m.to /\ Reachable(q)
      BY <2>1, <2>4 DEF Present
    <3>2. Live(p) /\ Open(p)
      BY DEF Live, Open
    <3>3. PICK y \in Pids : Reachable(y) /\ ppid[y] = p /\ Anc(id[y], id[q])
      BY <1>0, <1>3, <1>5, <2>1, <2>4, <3>1, <3>2, ReachNext DEF m
    <3>4. Open(y)
      BY <3>3, ReachUp DEF Open
    <3>5. Upward(y) \in Endpoints /\ peer[y][Upward(y)] = p
      BY <1>0, <3>2, <3>3, <3>4, JoinedToParent
    <3>6. Charged(id[y], m)
      BY <1>5, <3>1, <3>3, TreeMessages
    <3> QED  BY <3>5, <3>6, IdFacts DEF Heard, Upward
  <2>5. queue' = Publish(Read(p, e), p, "children", <<m>>)
    BY <1>1, <1>5 DEF m
  <2>6. /\ Exchange' /\ (Creating' => m = Question)
        /\ st[Server] = "up" /\ Present(Target) => Pending'
    BY <1>0, <1>5, <2>1, <2>2, <2>3, <2>4, <2>5, ExchangeOnward DEF m
  <2>7. Creating' => Creating
    <3>1. Creating' => pc = "create"
      BY DEF Creating
    <3> QED  BY <1>0, <1>5, <2>1, <3>1 DEF Creating
  <2> QED  BY <2>6, <2>7
<1>6. CASE m.type \in Answers
  <2>1. m # Question /\ Awaited(m) /\ Charged(id[p], m)
    BY <1>3, <1>6, QuestionFacts, TreeMessages
  <2>2. \A r, s \in Procs, d, f \in Endpoints :
          Heard(p, "parent", r, d) /\ Charged(id[r], m) /\ Heard(p, "parent", s, f) /\ Charged(id[s], m)
            => r = s /\ d = f
    BY <1>0, OneWayUp DEF Heard
  <2>3. ASSUME NEW r \in Procs, NEW d \in Endpoints, Heard(p, "parent", r, d), r # Server
        PROVE  Anc(id[r], Target)
    <3>1. Home[id[p]] = id[r] /\ Open(r) /\ r \in Pids
      BY <1>0, <2>3, HeardAbove, IdFacts DEF Heard
    <3>2. id[r] \in Ids
      BY <3>1, CalmTypes DEF Open
    <3> QED  BY <1>3, <2>1, <3>1, <3>2, AncUp
  <2>4. ASSUME st[Server] = "up", Present(Target)
        PROVE  \E r \in Procs, d \in Endpoints : Heard(p, "parent", r, d) /\ Charged(id[r], m)
    <3>1. PICK q \in Pids : id[q] = Target /\ Reachable(q)
      BY <2>4 DEF Present
    <3>2. PICK x \in Pids : id[x] = id[p] /\ Reachable(x)
      BY <1>0, <1>3, <2>1, <3>1, ReachAnc
    <3>3. x = p
      BY <1>0, <3>2, OneLive, ReachUp, CalmTypes DEF Live
    <3> QED  BY <1>6, <2>4, <3>2, <3>3, HeardByParent, TreeMessages
  <2>5. queue' = Publish(Read(p, e), p, "parent", <<m>>)
    BY <1>2, <1>6 DEF m
  <2>6. /\ Exchange' /\ (Creating' => m = Question)
        /\ st[Server] = "up" /\ Present(Target) => Pending'
    BY <1>0, <2>1, <2>2, <2>3, <2>4, <2>5, ExchangeOnward DEF m
  <2> QED  BY <2>1, <2>6
<1> QED  BY <1>4, <1>5, <1>6, TreeMessages DEF m

-----------------------------------------------------------------------------------
\* Everything else, when a node passes a message on or answers and nothing but queues changes.
LEMMA NextQueues == ASSUME IInv' PROVE Queues(queue')
  BY DEF IInv, TypeOK, NetTypeOK, DirectionsKept, Queues

LEMMA ReceivedForm ==
  ASSUME IInv
  PROVE  Received <=> \A r \in Procs, e \in Endpoints : Waiting(queue, r, e) # {} => e \in subs[r]
  BY CalmTypes, WaitingType DEF Received

LEMMA NextReceived ==
  ASSUME IInv', \A r \in Procs, e \in Endpoints : Waiting(queue', r, e) # {} => e \in subs'[r]
  PROVE  Received'
<1>1. Queues(queue')
  BY NextQueues
<1>2. \A r \in Procs, e \in Endpoints : queue'[r][e] # <<>> => Waiting(queue', r, e) # {}
  BY <1>1, WaitingType
<1> QED  BY <1>2 DEF Received

LEMMA HeardSubscribed ==
  ASSUME IInv, Calm, NEW p \in Procs, NEW side, NEW r \in Procs, NEW e \in Endpoints, Heard(p, side, r, e)
  PROVE  e \in subs[r]
  BY IdFacts DEF Heard, Calm, Shape, Linked

LEMMA RestKept ==
  ASSUME IInv, IInv', Calm, Joined, NEW p \in Pids, NEW e \in Endpoints,
         queue[p][e] # <<>>, Head(queue[p][e]) # RemoveMsg(Broadcast),
         NEW side, NEW m \in Message, queue' = Publish(Read(p, e), p, side, <<m>>),
         Task(m) => m.to \in Ids /\ (m.type = "create" => m.to = Home[m.val]),
         m.type = "remove" => pc = "idle",
         UNCHANGED <<st, id, ppid, subs, peer, pc, cmd>>,
         Exchange', Creating' => Creating
  PROVE  Calm'
<1>0. p \in Procs
  BY IdFacts
<1>1. /\ \A r \in Procs, d \in Endpoints : \A x \in Waiting(queue', r, d) :
           x \in Waiting(queue, r, d) \/ (x = m /\ Heard(p, side, r, d))
      /\ \A r \in Procs, d \in Endpoints :
           RemoveMsg(Broadcast) \in Waiting(queue, r, d) => RemoveMsg(Broadcast) \in Waiting(queue', r, d)
  BY <1>0, PassedOn DEF Heard
<1>2. Shape' /\ OwnParent'
  BY ShapeSame DEF Calm, OwnParent, Live
<1>3. Received'
  <2>1. \A r \in Procs, d \in Endpoints : Waiting(queue', r, d) # {} => d \in subs[r]
    BY <1>0, <1>1, ReceivedForm, HeardSubscribed DEF Calm
  <2> QED  BY <2>1, NextReceived
<1>4. Placed'
  BY <1>1 DEF Calm, Placed, Task
<1>5. TellsAll'
  BY <1>1, IdFacts DEF Calm, TellsAll
<1>6. OnlyDoomed'
  BY <1>1, IdFacts DEF Calm, OnlyDoomed
<1>7. Joined'
  BY DEF Joined, Open, Bound
<1>8. AllJoined'
  BY <1>7 DEF AllJoined
<1>9. NewId'
  BY DEF Calm, NewId, Live
<1> QED  BY <1>2, <1>3, <1>4, <1>5, <1>6, <1>8, <1>9 DEF Calm

\* A node that handles ping, exec or a create for which fork() fails sends an answer, and
\* otherwise it passes on what is not for it.
Replies(p, m, a) == /\ Task(m) /\ m.to = id[p] /\ a \in UpMessage
                    /\ \/ m.type = "ping" /\ a = PingAnswer(id[p])
                       \/ m.type = "exec" /\ a.type = "exec_answer"
                       \/ m.type = "create" /\ a = CreateAnswer(-1)
Handles(p, m, q) ==
  \/ /\ Addressed(p, m)
     /\ \/ HandlePing(p, m, q) \/ HandleExec(p, m, q)
        \/ m.type = "create" /\ queue' = Answer(q, p, m, CreateAnswer(-1))
           /\ UNCHANGED <<st, id, ppid, subs, peer>>
  \/ Forward(p, m, q)

LEMMA MessageSent ==
  ASSUME IInv, Calm, NEW p \in Pids, st[p] = "up", NEW e \in Endpoints, queue[p][e] # <<>>,
         Handles(p, Head(queue[p][e]), Read(p, e))
  PROVE  LET m == Head(queue[p][e])
             q == Read(p, e)
         IN /\ UNCHANGED <<st, id, ppid, subs, peer>>
            /\ m \in Message /\ m \in Waiting(queue, p, e)
            /\ Task(m) => m.to \in Ids /\ (m.type = "create" => m.to = Home[m.val])
            /\ Task(m) \/ m.type \in Answers \cup {"remove"}
            /\ \/ m.to \notin {id[p], Broadcast} /\ queue' = Publish(q, p, SideOf(m), <<m>>)
               \/ \E a \in UpMessage : Replies(p, m, a) /\ queue' = Publish(q, p, "parent", <<a>>)
<1> DEFINE m == Head(queue[p][e])
           q == Read(p, e)
<1>0. /\ p \in Procs /\ NetTypeOK /\ Shape /\ id[p] \in Ids /\ m \in Message
      /\ m \in Waiting(queue, p, e) /\ Queues(queue) /\ id[p] # Broadcast
  <2>1. Queues(queue)
    BY CalmTypes
  <2>2. m \in Message /\ m \in Waiting(queue, p, e)
    BY <2>1, ReadQueues, CarriedMessage, CalmTypes, ReadWaiting DEF Endpoints
  <2> QED  BY <2>1, <2>2, CalmTypes, IdFacts DEF Calm
<1>1. Task(m) => m.to \in Ids /\ (m.type = "create" => m.to = Home[m.val])
  BY <1>0 DEF Calm, Placed, Task
<1>2. UNCHANGED <<st, id, ppid, subs, peer>>
  BY DEF Handles, HandlePing, HandleExec, Forward
<1>3. m.type # "emptied"
  <2>1. EmptiedIsNotRead
    <3> SUFFICES ASSUME NEW x \in Pids, NEW d \in Endpoints, st[x] = "up", queue[x][d] # <<>>,
                        Head(queue[x][d]).type = "emptied"
                 PROVE  FALSE
      BY DEF EmptiedIsNotRead
    <3>1. queue[x][d] \in Seq(Message)
      BY <1>0, IdFacts DEF Queues
    <3>2. Guarded(queue[x][d])
      BY DEF IInv, RemoveComesFirst, Reading
    <3>3. 1 \in 1 .. Len(queue[x][d]) /\ queue[x][d][1] = Head(queue[x][d])
      BY <3>1
    <3>4. ~\E j \in 1 .. 1 - 1 : queue[x][d][j] = RemoveMsg(Broadcast)
      OBVIOUS
    <3> QED  BY <3>2, <3>3, <3>4 DEF Guarded
  <2> QED  BY <2>1 DEF EmptiedIsNotRead
<1>4. Task(m) \/ m.type \in Answers \cup {"remove"}
  BY <1>0, <1>3 DEF Message, DownMessage, UpMessage, Task, Tasks
<1> HIDE DEF m, q
<1>5. ASSUME Addressed(p, m), NEW a \in UpMessage, queue' = Answer(q, p, m, a),
             \/ m.type = "ping" /\ a = PingAnswer(id[p])
             \/ m.type = "exec" /\ a.type = "exec_answer"
             \/ m.type = "create" /\ a = CreateAnswer(-1)
      PROVE  Replies(p, m, a) /\ queue' = Publish(q, p, "parent", <<a>>)
  <2>1. Task(m) /\ m.to = id[p]
    BY <1>1, <1>5, IdFacts DEF Addressed, Task
  <2> QED  BY <1>5, <2>1 DEF Answer, Onward, Replies
<1>6. CASE Forward(p, m, q)
  BY <1>0, <1>1, <1>2, <1>4, <1>6 DEF Forward, Addressed, Onward, m, q
<1>7. CASE Addressed(p, m) /\ HandlePing(p, m, q)
  <2>1. PingAnswer(id[p]) \in UpMessage /\ m.type = "ping" /\ queue' = Answer(q, p, m, PingAnswer(id[p]))
    BY <1>0, <1>7, AnswerTypes, Numbers DEF HandlePing
  <2> QED  BY <1>0, <1>1, <1>2, <1>4, <1>5, <1>7, <2>1 DEF m, q
<1>8. CASE Addressed(p, m) /\ HandleExec(p, m, q)
  <2>1. PICK n \in Counts : queue' = Answer(q, p, m, ExecAnswer(n))
    BY <1>8 DEF HandleExec
  <2>0. n \in Int
    BY Numbers
  <2>2. ExecAnswer(n) \in UpMessage /\ ExecAnswer(n).type = "exec_answer" /\ m.type = "exec"
    BY <1>8, <2>0, AnswerTypes DEF HandleExec, ExecAnswer, Up
  <2> QED  BY <1>0, <1>1, <1>2, <1>4, <1>5, <1>8, <2>1, <2>2 DEF m, q
<1>9. CASE Addressed(p, m) /\ m.type = "create" /\ queue' = Answer(q, p, m, CreateAnswer(-1))
  <2>0. -1 \in Int
    OBVIOUS
  <2>1. CreateAnswer(-1) \in UpMessage
    BY <2>0, AnswerTypes
  <2> QED  BY <1>0, <1>1, <1>2, <1>4, <1>5, <1>9, <2>1 DEF m, q
<1> QED  BY <1>6, <1>7, <1>8, <1>9 DEF Handles, m, q

LEMMA MessageStep ==
  ASSUME IInv, IInv', Calm, OneHome, Joined, NEW p \in Pids, st[p] = "up", NEW e \in Endpoints,
         queue[p][e] # <<>>, Handles(p, Head(queue[p][e]), Read(p, e)), UNCHANGED server
  PROVE  Calm' /\ (st[Server] = "up" /\ Present(Target) /\ Pending => Pending')
<1> DEFINE m == Head(queue[p][e])
           q == Read(p, e)
<1> HIDE DEF m, q
<1>1. /\ UNCHANGED <<st, id, ppid, subs, peer, pc, cmd>>
      /\ m \in Message /\ m \in Waiting(queue, p, e)
      /\ Task(m) => m.to \in Ids /\ (m.type = "create" => m.to = Home[m.val])
      /\ Task(m) \/ m.type \in Answers \cup {"remove"}
      /\ \/ m.to \notin {id[p], Broadcast} /\ queue' = Publish(q, p, SideOf(m), <<m>>)
         \/ \E a \in UpMessage : Replies(p, m, a) /\ queue' = Publish(q, p, "parent", <<a>>)
  BY MessageSent DEF server, m, q
<1>2. ASSUME NEW a \in UpMessage, Replies(p, m, a), queue' = Publish(q, p, "parent", <<a>>)
      PROVE  Calm' /\ (st[Server] = "up" /\ Present(Target) /\ Pending => Pending')
  <2>1. CreateAnswer(-1).type = "create_answer"
    BY DEF CreateAnswer, Up
  <2>2. Exchange' /\ ~Creating' /\ (st[Server] = "up" /\ Present(Target) => Pending')
    BY <1>1, <1>2, <2>1, ReplyKept DEF Replies, m, q
  <2>3. m # RemoveMsg(Broadcast) /\ a \in Message /\ ~Task(a) /\ a.type # "remove"
    BY <1>2, TreeMessages DEF UpMessage, Answers, Replies
  <2> QED  BY <1>1, <1>2, <2>2, <2>3, RestKept DEF m, q
<1>3. CASE m.to \notin {id[p], Broadcast} /\ queue' = Publish(q, p, SideOf(m), <<m>>)
  <2>1. /\ Exchange' /\ (Creating' => Creating)
        /\ st[Server] = "up" /\ Present(Target) /\ Pending => Pending'
    BY <1>1, <1>3, PassKept DEF m, q
  <2>2. m # RemoveMsg(Broadcast)
    BY <1>3, TreeMessages DEF Broadcast
  <2>3. m.type = "remove" => pc = "idle"
    BY <1>1, <1>3 DEF Calm, OnlyDoomed
  <2> QED  BY <1>1, <1>3, <2>1, <2>2, <2>3, RestKept DEF m, q
<1> QED  BY <1>1, <1>2, <1>3

-----------------------------------------------------------------------------------
\* The exchange, when nothing is added to what is charged.
LEMMA ExchangeKept ==
  ASSUME Calm, Lone(queue', id),
         \A r \in Procs, d \in Endpoints : \A x \in Waiting(queue', r, d) :
           Charged(id[r], x) => x \in Waiting(queue, r, d),
         st'[Server] = "up" /\ pc \in {"parent", "child", "dest"} =>
           /\ \A r \in Procs : st'[r] = "up" => st[r] = "up"
           /\ Present(Target)' /\ Pending => Pending',
         UNCHANGED <<id, ppid, pc, cmd>>
  PROVE  Exchange' /\ (Creating' => Creating)
<1>1. OneCharge'
  BY DEF OneCharge, Lone
<1>2. Target' = Target /\ Question' = Question /\ \A x : Awaited(x)' <=> Awaited(x)
  BY DEF Target, Question, Awaited
<1>3. Current'
  BY <1>2 DEF Current, Calm, Exchange
<1>4. Creating' => Creating
  BY <1>2 DEF Creating
<1>5. Delivered'
  <2> SUFFICES ASSUME st'[Server] = "up", pc \in {"parent", "child", "dest"}, Present(Target)'
               PROVE  Pending'
    BY DEF Delivered
  <2>1. Server \in Procs /\ Pids \subseteq Procs
    BY IdFacts
  <2>2. Present(Target)
    BY <1>2, <2>1 DEF Present, Reachable
  <2> QED  BY <2>1, <2>2 DEF Calm, Exchange, Delivered
<1> QED  BY <1>1, <1>3, <1>4, <1>5 DEF Exchange

\* A process that ends, or is about to, tells its children to end, and takes nothing from anybody.
Leaves(p) ==
  /\ UNCHANGED <<id, ppid>> /\ st'[p] \in {"stopping", "gone"}
  /\ \A r \in Procs : r # p => st'[r] = st[r]
  /\ \A r \in Procs, d \in Endpoints : \A x \in Waiting(queue', r, d) :
       x \in Waiting(queue, r, d) \/ (x.to = Broadcast /\ Heard(p, "children", r, d))
  /\ \A r \in Procs, d \in Endpoints : r # p => Waiting(queue, r, d) \subseteq Waiting(queue', r, d)

\* A node that handles a remove: it tells its children, twice, and leaves the loop.
LEMMA RemoveStep ==
  ASSUME IInv, IInv', Calm, Joined, NEW p \in Pids, st[p] = "up", NEW e \in Endpoints,
         queue[p][e] # <<>>, HandleRemove(p, Head(queue[p][e]), Read(p, e)), UNCHANGED server
  PROVE  Calm' /\ Leaves(p) /\ Joined'
<1> DEFINE m == Head(queue[p][e])
           q == Read(p, e)
           all == [m EXCEPT !.to = Broadcast]
           RM == RemoveMsg(Broadcast)
           EM == Down("emptied", Broadcast, None)
           Q == Publish(q, p, "children", <<RM>>)
<1>0. /\ p \in Procs /\ NetTypeOK /\ Shape /\ id[p] \in Ids /\ Queues(queue) /\ id[p] # Broadcast
  BY CalmTypes, IdFacts DEF Calm
<1>1. m \in Message /\ m \in Waiting(queue, p, e) /\ Queues(q) /\ m.type = "remove"
  BY <1>0, ReadQueues, CarriedMessage, ReadWaiting DEF Endpoints, HandleRemove
<1>2. all = RM /\ Emptied(all) = EM
  <2>1. m \in [dir : {"to_client"}, type : (Tasks \ {"create"}) \cup {"emptied"},
               to : Int, val : {None}]
    BY <1>1 DEF Message, DownMessage, UpMessage, Answers
  <2>2. all = RM
    BY <1>1, <2>1 DEF RemoveMsg, Down
  <2> HIDE DEF all
  <2> QED  BY <2>2 DEF Emptied, RemoveMsg, Down
<1>3. RM \in Message /\ EM \in Message /\ EM.type = "emptied" /\ RM.type = "remove" /\ EM.to = Broadcast
      /\ SideOf(EM) = "children" /\ RM.to = Broadcast
  BY MessageTypes DEF Message, DownMessage, RemoveMsg, Down, SideOf
<1> HIDE DEF m, q, RM, EM, all
<1>4. queue' = Publish(Q, p, "children", <<EM>>)
  BY <1>0, <1>2, <1>3 DEF HandleRemove, Onward, m, q, all
<1>5. st' = [st EXCEPT ![p] = "stopping"] /\ UNCHANGED <<id, ppid, subs, peer, pc, cmd>>
  BY DEF HandleRemove, server
<1>6. Queues(Q)
  <2>1. "children" \in Sides /\ RM \in Carried("children")
    BY MessageTypes DEF Sides, Carried, RM
  <2> QED  BY <1>0, <1>1, <2>1, PublishQueues
<1>7. \A r \in Procs, d \in Endpoints :
        /\ Waiting(Q, r, d) = Waiting(q, r, d) \cup (IF peer[r][d] = p /\ d[2] = "children" THEN {RM} ELSE {})
        /\ Waiting(queue', r, d) = Waiting(Q, r, d) \cup (IF peer[r][d] = p /\ d[2] = "children" THEN {EM} ELSE {})
  <2>1. \A r \in Procs, d \in Endpoints :
          Waiting(Q, r, d) = Waiting(q, r, d) \cup (IF peer[r][d] = p /\ d[2] = "children" THEN {RM} ELSE {})
    BY <1>1, <1>3, PublishWaiting
  <2> HIDE DEF Q
  <2>2. \A r \in Procs, d \in Endpoints :
          Waiting(Publish(Q, p, "children", <<EM>>), r, d) =
            Waiting(Q, r, d) \cup (IF peer[r][d] = p /\ d[2] = "children" THEN {EM} ELSE {})
    BY <1>3, <1>6, PublishWaiting
  <2> QED  BY <1>4, <2>1, <2>2
<1>8. \A r \in Procs, d \in Endpoints :
        /\ Waiting(q, r, d) \subseteq Waiting(queue, r, d)
        /\ r # p \/ d # e => Waiting(q, r, d) = Waiting(queue, r, d)
        /\ Waiting(queue, p, e) = Waiting(q, p, e) \cup {m}
  BY <1>0, ReadWaiting DEF q, m
<1>9. /\ \A r \in Procs, d \in Endpoints : \A x \in Waiting(queue', r, d) :
           x \in Waiting(queue, r, d) \/ (x \in {RM, EM} /\ Heard(p, "children", r, d))
      /\ \A r \in Procs, d \in Endpoints : r # p => Waiting(queue, r, d) \subseteq Waiting(queue', r, d)
      /\ \A r \in Procs, d \in Endpoints : Heard(p, "children", r, d) => RM \in Waiting(queue', r, d)
      /\ \A r \in Procs, d \in Endpoints : \A x \in Waiting(queue, r, d) : x = m \/ x \in Waiting(queue', r, d)
  BY <1>7, <1>8 DEF Heard
<1>10. Shape' /\ Joined'
  BY <1>0, <1>5, ShapeStopping
<1>11. /\ st'[p] = "stopping" /\ \A r \in Procs : r # p => st'[r] = st[r]
       /\ \A r \in Procs : (Live(r)' <=> Live(r)) /\ (st'[r] = "up" => st[r] = "up")
       /\ \A r \in Procs : st[r] = "stopping" => st'[r] = "stopping"
  BY <1>0, <1>5 DEF Live, NetTypeOK
<1>12. \A r \in Pids : st[r] # "free" => r \in Procs /\ ppid[r] \in Procs
  BY <1>0, IdFacts DEF Shape, Family
<1>13. \A i : ~Charged(i, m) /\ ~Charged(i, RM) /\ ~Charged(i, EM)
  BY <1>1, <1>3, TreeMessages
<1>14. Lone(queue', id)
  <2>1. Lone(q, id)
    BY <1>0, ReadLone, OneChargeLone DEF q, Calm, Exchange
  <2>2. Lone(Q, id)
    BY <1>1, <1>3, <1>13, <2>1, PublishIdle
  <2> QED  BY <1>3, <1>4, <1>6, <1>13, <2>2, PublishIdle
<1>15. Exchange' /\ (Creating' => Creating)
  <2>1. Pending => Pending'
    BY <1>5, <1>9, <1>13 DEF Pending
  <2> QED  BY <1>5, <1>9, <1>11, <1>13, <1>14, <2>1, ExchangeKept
<1>16. OwnParent'
  BY <1>5, <1>11, IdFacts DEF Calm, OwnParent
<1>17. Received'
  <2>1. \A r \in Procs, d \in Endpoints : Waiting(queue', r, d) # {} => d \in subs[r]
    BY <1>0, <1>9, ReceivedForm, HeardSubscribed DEF Calm
  <2> QED  BY <1>5, <2>1, NextReceived
<1>18. Placed'
  BY <1>3, <1>5, <1>9 DEF Calm, Placed
<1>19. TellsAll'
  <2> SUFFICES ASSUME NEW r \in Pids, st'[r] \in {"forked", "up"}, st'[ppid[r]] \in {"stopping", "gone"}
               PROVE  \E d \in Endpoints : RM \in Waiting(queue', r, d)
    BY <1>5 DEF TellsAll, RM
  <2>1. r # p /\ st[r] = st'[r] /\ r \in Procs /\ ppid[r] \in Procs
    BY <1>11, <1>12, IdFacts
  <2>2. CASE ppid[r] = p
    <3>1. Open(r) /\ Open(p)
      BY <2>1 DEF Open, Joined
    <3>2. Upward(r) \in Endpoints /\ peer[r][Upward(r)] = p
      BY <1>0, <2>2, <3>1, JoinedToParent
    <3> QED  BY <1>9, <2>1, <3>2 DEF Heard, Upward
  <2>3. CASE ppid[r] # p
    BY <1>9, <1>11, <2>1, <2>3 DEF Calm, TellsAll, RM
  <2> QED  BY <2>2, <2>3
<1>20. OnlyDoomed'
  <2> SUFFICES ASSUME pc # "idle", NEW r \in Pids
               PROVE  /\ st'[r] = "stopping" => st'[ppid[r]] # "up"
                      /\ \A d \in Endpoints : \A x \in Waiting(queue', r, d) :
                           x.type = "remove" => x.to = Broadcast /\ st'[ppid[r]] # "up"
    BY <1>5 DEF OnlyDoomed
  <2>0. \A s \in Pids :
          /\ st[s] = "stopping" => st[ppid[s]] # "up"
          /\ \A d \in Endpoints : \A x \in Waiting(queue, s, d) :
               x.type = "remove" => x.to = Broadcast /\ st[ppid[s]] # "up"
    BY DEF Calm, OnlyDoomed
  <2>1. st[p] # "free" /\ st[ppid[p]] # "up"
    BY <1>1, <2>0 DEF m
  <2>2. r \in Procs
    BY IdFacts
  <2>3. st[ppid[r]] # "up" => st'[ppid[r]] # "up"
    BY <1>5, <1>0 DEF NetTypeOK
  <2>4. st'[r] = "stopping" => st[ppid[r]] # "up"
    BY <1>11, <2>0, <2>1, <2>2
  <2>5. ASSUME NEW d \in Endpoints, NEW x \in Waiting(queue', r, d), x.type = "remove"
        PROVE  x.to = Broadcast /\ st'[ppid[r]] # "up"
    <3>1. CASE x \in Waiting(queue, r, d)
      BY <2>0, <2>3, <2>5, <3>1
    <3>2. CASE x \in {RM, EM} /\ Heard(p, "children", r, d)
      <4>1. Open(r) /\ Open(p) /\ id[ppid[r]] = id[p]
        BY <1>0, <2>2, <3>2, HeardBelow DEF Heard
      <4>2. p = ppid[r] \/ st[r] = "stopping"
        BY <1>0, <4>1, OpenLive DEF Calm, OwnParent
      <4>3. st'[ppid[r]] # "up"
        BY <1>11, <2>0, <2>3, <4>2
      <4> QED  BY <1>3, <3>2, <4>3
    <3> QED  BY <1>9, <2>2, <2>5, <3>1, <3>2
  <2> QED  BY <2>3, <2>4, <2>5
<1>21. AllJoined'
  BY <1>10 DEF AllJoined
<1>22. NewId'
  BY <1>5, <1>11, <1>15, IdFacts DEF Calm, NewId
<1>23. Leaves(p)
  BY <1>3, <1>5, <1>9, <1>11 DEF Leaves
<1> QED  BY <1>10, <1>15, <1>16, <1>17, <1>18, <1>19, <1>20, <1>21, <1>22, <1>23 DEF Calm

\* The way from a node up to the server passes every id above it.
LEMMA OnTheWayUp ==
  ASSUME NetTypeOK, Shape, NEW S \in SUBSET Pids, NEW q \in S,
         \A r \in S : st[r] = "up" /\ ppid[r] \in S \cup {Server},
         NEW a, Anc(a, id[q])
  PROVE  \E r \in S : id[r] = a
<1> DEFINE T == {i \in Ids : \E r \in S : id[r] = i}
<1>1. T \in SUBSET Ids /\ id[q] \in T
  BY AncIds
<1>2. ClosedUp(T)
  <2> SUFFICES ASSUME NEW i \in T, Home[i] \in Ids PROVE Home[i] \in T
    BY DEF ClosedUp
  <2>1. PICK r \in S : id[r] = i
    OBVIOUS
  <2>2. id[ppid[r]] = Home[i] /\ ppid[r] \in S \cup {Server}
    BY <2>1 DEF Shape, Family
  <2>3. ppid[r] # Server
    BY <2>2, IdFacts DEF NetTypeOK
  <2> QED  BY <2>2, <2>3
<1>3. a \in T
  BY <1>1, <1>2 DEF Anc
<1> QED  BY <1>3

\* A process that ends loses what it did not read: nothing on its way to a node that can
\* still be reached.
LEMMA NothingLost ==
  ASSUME IInv, Calm, NEW p \in Pids, Live(p), st'[p] = "gone", UNCHANGED <<id, ppid>>,
         \A r \in Procs : st'[r] = "up" => st[r] = "up",
         Present(Target)', UNCHANGED <<pc, cmd>>,
         NEW d \in Endpoints, NEW x \in Waiting(queue, p, d), Charged(id[p], x)
  PROVE  FALSE
<1>1. Target' = Target
  BY DEF Target
<1>2. PICK q \in Pids : id[q] = Target /\ Reachable(q)'
  BY <1>1 DEF Present
<1>3. PICK S \in SUBSET Pids : q \in S /\ \A r \in S : st'[r] = "up" /\ ppid[r] \in S \cup {Server}
  BY <1>2 DEF Reachable
<1>4. NetTypeOK /\ Shape /\ p \in Procs /\ p # Server
  BY CalmTypes, IdFacts DEF Calm
<1>5. \A r \in S : st[r] = "up" /\ r \in Procs /\ r # p
  BY <1>3, IdFacts
<1>6. Anc(id[p], id[q])
  BY <1>2, <1>4 DEF Calm, Exchange, Current
<1>7. PICK r \in S : id[r] = id[p]
  BY <1>3, <1>4, <1>5, <1>6, OnTheWayUp
<1> QED  BY <1>4, <1>5, <1>7, OneLive DEF Live

\* client_deinit and server_deinit.
LEMMA DeinitStep ==
  ASSUME IInv, IInv', Calm, NEW p \in Procs, st[p] \in {"up", "stopping"},
         Deinit(p), Unheard(p) = {}, UNCHANGED <<pc, cmd>>
  PROVE  Calm' /\ Leaves(p) /\ (Joined => Joined')
<1> DEFINE RM == RemoveMsg(Broadcast)
           Q == Publish(queue, p, "children", <<RM>>)
<1>0. NetTypeOK /\ Shape /\ Queues(queue)
  BY CalmTypes DEF Calm
<1>1. RM \in Message /\ RM.type = "remove" /\ RM.to = Broadcast
  BY MessageTypes DEF Message, RemoveMsg, Down
<1> HIDE DEF RM
<1>2. HangUp(Q, p) /\ st' = [st EXCEPT ![p] = "gone"] /\ UNCHANGED <<id, ppid>>
  BY DEF Deinit, RM
<1>3. Queues(Q)
  <2>1. "children" \in Sides /\ RM \in Carried("children")
    BY MessageTypes DEF Sides, Carried, RM
  <2> QED  BY <1>0, <2>1, PublishQueues
<1>4. \A r \in Procs, d \in Endpoints :
        Waiting(Q, r, d) = Waiting(queue, r, d) \cup (IF peer[r][d] = p /\ d[2] = "children" THEN {RM} ELSE {})
  BY <1>0, <1>1, PublishWaiting
<1>a. Lone(Q, id)
  <2>1. Lone(queue, id)
    BY OneChargeLone DEF Calm, Exchange
  <2> QED  BY <1>0, <1>1, <2>1, PublishIdle, TreeMessages
<1> HIDE DEF Q
<1>5. \A r \in Procs, d \in Endpoints : Waiting(queue', r, d) = IF r = p THEN {} ELSE Waiting(Q, r, d)
  BY <1>2, <1>3, HangUpWaiting
<1>6. /\ \A r \in Procs, d \in Endpoints : \A x \in Waiting(queue', r, d) :
           r # p /\ (x \in Waiting(queue, r, d) \/ (x = RM /\ Heard(p, "children", r, d)))
      /\ \A r \in Procs, d \in Endpoints : r # p => Waiting(queue, r, d) \subseteq Waiting(queue', r, d)
      /\ \A r \in Procs, d \in Endpoints : r # p /\ Heard(p, "children", r, d) => RM \in Waiting(queue', r, d)
  BY <1>4, <1>5 DEF Heard
<1>7. Shape' /\ (Joined => Joined')
  BY <1>0, <1>2, ShapeHangUp DEF Ends
<1>8. /\ st'[p] = "gone" /\ \A r \in Procs : r # p => st'[r] = st[r]
      /\ \A r \in Procs : (Live(r)' => Live(r) /\ r # p) /\ (st'[r] = "up" => st[r] = "up")
  BY <1>0, <1>2 DEF Live, NetTypeOK
<1>9. \A r \in Pids : r \in Procs /\ (st[r] # "free" => ppid[r] \in Procs)
  BY <1>0, IdFacts DEF Shape, Family
<1>10. Exchange' /\ (Creating' => Creating)
  <2>1. Lone(queue', id)
    BY <1>2, <1>3, <1>a, HangUpLone
  <2>2. ASSUME st'[Server] = "up", pc \in {"parent", "child", "dest"}, Present(Target)', Pending
        PROVE  Pending'
    <3>1. PICK r \in Procs, d \in Endpoints : \E x \in Waiting(queue, r, d) : Charged(id[r], x)
      BY <2>2 DEF Pending
    <3>2. PICK x \in Waiting(queue, r, d) : Charged(id[r], x)
      BY <3>1
    <3>3. CASE r = p
      <4>1. p \in Pids /\ Live(p)
        BY <1>8, <2>2, IdFacts DEF Live
      <4> QED  BY <1>2, <1>8, <2>2, <3>2, <3>3, <4>1, NothingLost
    <3>4. CASE r # p
      BY <1>2, <1>6, <3>2, <3>4 DEF Pending
    <3> QED  BY <3>3, <3>4
  <2>3. \A r \in Procs, d \in Endpoints : \A x \in Waiting(queue', r, d) :
          Charged(id[r], x) => x \in Waiting(queue, r, d)
    BY <1>1, <1>6, TreeMessages
  <2> QED  BY <1>2, <1>8, <2>1, <2>2, <2>3, ExchangeKept
<1>11. OwnParent'
  BY <1>2, <1>8, <1>9 DEF Calm, OwnParent
<1>12. Received'
  <2>1. \A r \in Procs : r # p => subs'[r] = subs[r]
    BY <1>0, <1>2 DEF HangUp, NetTypeOK
  <2>2. \A r \in Procs, d \in Endpoints : Waiting(queue', r, d) # {} => d \in subs'[r]
    BY <1>6, <2>1, ReceivedForm, HeardSubscribed DEF Calm
  <2> QED  BY <2>2, NextReceived
<1>13. Placed'
  BY <1>1, <1>6 DEF Calm, Placed
<1>14. TellsAll'
  <2> SUFFICES ASSUME NEW r \in Pids, st'[r] \in {"forked", "up"}, st'[ppid[r]] \in {"stopping", "gone"}
               PROVE  \E d \in Endpoints : RM \in Waiting(queue', r, d)
    BY <1>2 DEF TellsAll, RM
  <2>1. r # p /\ st[r] = st'[r] /\ r \in Procs /\ ppid[r] \in Procs
    BY <1>8, <1>9, IdFacts
  <2>2. CASE ppid[r] = p
    <3>1. peer[r][<<id[p], "children">>] = p
      BY <2>1, <2>2 DEF Unheard
    <3>2. <<id[p], "children">> \in Endpoints
      BY <1>0, <2>1, <2>2, IdFacts DEF NetTypeOK, Shape, Family, Endpoints, Sides
    <3> QED  BY <1>6, <2>1, <3>1, <3>2 DEF Heard
  <2>3. CASE ppid[r] # p
    BY <1>6, <1>8, <2>1, <2>3 DEF Calm, TellsAll, RM
  <2> QED  BY <2>2, <2>3
<1>15. OnlyDoomed'
  <2> SUFFICES ASSUME pc # "idle", NEW r \in Pids
               PROVE  /\ st'[r] = "stopping" => st'[ppid[r]] # "up"
                      /\ \A d \in Endpoints : \A x \in Waiting(queue', r, d) :
                           x.type = "remove" => x.to = Broadcast /\ st'[ppid[r]] # "up"
    BY <1>2 DEF OnlyDoomed
  <2>0. \A s \in Pids :
          /\ st[s] = "stopping" => st[ppid[s]] # "up"
          /\ \A d \in Endpoints : \A x \in Waiting(queue, s, d) :
               x.type = "remove" => x.to = Broadcast /\ st[ppid[s]] # "up"
    BY DEF Calm, OnlyDoomed
  <2>3. st[ppid[r]] # "up" => st'[ppid[r]] # "up"
    BY <1>2, <1>0 DEF NetTypeOK
  <2>4. st'[r] = "stopping" => st[ppid[r]] # "up"
    BY <1>8, <1>9, <2>0
  <2>5. ASSUME NEW d \in Endpoints, NEW x \in Waiting(queue', r, d), x.type = "remove"
        PROVE  x.to = Broadcast /\ st'[ppid[r]] # "up"
    <3>1. CASE x \in Waiting(queue, r, d)
      BY <2>0, <2>3, <2>5, <3>1
    <3>2. CASE x = RM /\ Heard(p, "children", r, d)
      <4>1. Open(r) /\ Open(p) /\ id[ppid[r]] = id[p]
        BY <1>0, <1>9, <3>2, HeardBelow DEF Heard
      <4>2. p = ppid[r] \/ st[r] = "stopping"
        BY <1>0, <4>1, OpenLive DEF Calm, OwnParent
      <4>3. st'[ppid[r]] # "up"
        BY <1>8, <2>0, <2>3, <4>2
      <4> QED  BY <1>1, <3>2, <4>3
    <3> QED  BY <1>6, <1>9, <2>5, <3>1, <3>2
  <2> QED  BY <2>3, <2>4, <2>5
<1>16. AllJoined'
  BY <1>7, <1>10 DEF Calm, AllJoined
<1>17. NewId'
  <2>1. \A r \in Pids : /\ Live(r)' => Live(r)
                        /\ st'[r] = "up" => st[r] = "up"
                        /\ Live(r)' /\ st[r] = "stopping" => st'[r] = "stopping"
    BY <1>8, <1>9
  <2> QED  BY <1>2, <1>10, <2>1 DEF Calm, NewId
<1>18. Leaves(p)
  BY <1>1, <1>2, <1>6, <1>8 DEF Leaves
<1> QED  BY <1>7, <1>10, <1>11, <1>12, <1>13, <1>14, <1>15, <1>16, <1>17, <1>18 DEF Calm

\* client_init.
LEMMA InitStep ==
  ASSUME IInv, IInv', Calm, NEW p \in Pids, NodeInit(p), UNCHANGED server
  PROVE  Calm'
<1>0. NetTypeOK /\ Shape /\ Queues(queue) /\ p \in Procs /\ p # Server
  BY CalmTypes, IdFacts DEF Calm
<1>1. /\ st[p] = "forked" /\ UNCHANGED <<id, ppid, peer, queue, pc, cmd>>
      /\ \A r \in Procs : st'[r] = IF r = p THEN "up" ELSE st[r]
      /\ \A r \in Procs : r # p => subs'[r] = subs[r]
  BY <1>0 DEF NodeInit, server, NetTypeOK
<1>2. Shape'
  BY <1>0, ShapeInit
<1>3. pc = "idle" \/ (pc = "create" /\ ~Creating)
  BY <1>1 DEF Calm, AllJoined, Joined
<1>4. \A d \in Endpoints : Waiting(queue, p, d) = {}
  <2>1. subs[p] = {}
    BY <1>0, <1>1 DEF Shape, Subscribed, Open
  <2> QED  BY <1>0, <2>1, ReceivedForm DEF Calm
<1>5. \A r \in Pids : st[r] # "free" => ppid[r] # p /\ ppid[r] \in Procs /\ st'[ppid[r]] = st[ppid[r]]
  BY <1>0, <1>1 DEF Shape, Family
<1>6. \A r \in Pids : st[r] = "free" => \A d \in Endpoints : Waiting(queue, r, d) = {}
  <2>1. \A r \in Pids : st[r] = "free" => r \in Procs /\ subs[r] = {}
    BY <1>0, IdFacts DEF Shape, Subscribed, Open
  <2> QED  BY <2>1, ReceivedForm DEF Calm
<1>7. Exchange' /\ (Creating' => Creating)
  <2>1. Lone(queue', id)
    BY <1>1, OneChargeLone DEF Calm, Exchange
  <2> QED  BY <1>1, <1>3, <2>1, ExchangeKept
<1>8. OwnParent'
  <2>1. \A r \in Procs : (Live(r)' <=> Live(r)) /\ (st[r] = "stopping" => st'[r] = "stopping")
    BY <1>1 DEF Live
  <2> QED  BY <1>1, <2>1, IdFacts DEF Calm, OwnParent
<1>9. Received'
  <2>1. \A r \in Procs, d \in Endpoints : Waiting(queue', r, d) # {} => d \in subs'[r]
    BY <1>1, <1>4, ReceivedForm DEF Calm
  <2> QED  BY <2>1, NextReceived
<1>10. Placed'
  BY <1>1 DEF Calm, Placed
<1>11. TellsAll'
  <2> SUFFICES ASSUME NEW r \in Pids, st'[r] \in {"forked", "up"}, st'[ppid[r]] \in {"stopping", "gone"}
               PROVE  \E d \in Endpoints : RemoveMsg(Broadcast) \in Waiting(queue, r, d)
    BY <1>1 DEF TellsAll
  <2>1. st[r] \in {"forked", "up"}
    BY <1>1, IdFacts
  <2> QED  BY <1>5, <2>1 DEF Calm, TellsAll
<1>12. OnlyDoomed'
  <2> SUFFICES ASSUME pc # "idle", NEW r \in Pids
               PROVE  /\ st'[r] = "stopping" => st'[ppid[r]] # "up"
                      /\ \A d \in Endpoints : \A x \in Waiting(queue, r, d) :
                           x.type = "remove" => x.to = Broadcast /\ st'[ppid[r]] # "up"
    BY <1>1 DEF OnlyDoomed
  <2>1. CASE st[r] = "free"
    BY <1>1, <1>6, <2>1, IdFacts
  <2>2. CASE st[r] # "free"
    <3>1. st'[r] = "stopping" => st[r] = "stopping"
      BY <1>1, IdFacts
    <3> QED  BY <1>5, <2>2, <3>1 DEF Calm, OnlyDoomed
  <2> QED  BY <2>1, <2>2
<1>13. AllJoined'
  BY <1>1, <1>3, <1>7 DEF AllJoined
<1>14. NewId'
  <2>1. ~Creating'
    BY <1>3, <1>7 DEF Creating
  <2> QED  BY <2>1 DEF NewId
<1> QED  BY <1>2, <1>7, <1>8, <1>9, <1>10, <1>11, <1>12, <1>13, <1>14 DEF Calm

\* The library makes a connection.
LEMMA LinkStep ==
  ASSUME IInv, IInv', Calm, NEW q \in Procs, NEW e \in Endpoints, Link(q, e), UNCHANGED server
  PROVE  Calm'
<1>1. UNCHANGED <<st, id, ppid, subs, queue, pc, cmd>>
  BY DEF Link, server
<1>2. Shape' /\ ~Joined
  <2>1. ~Joined
    BY DEF Joined, Link
  <2> QED  BY <2>1, CalmTypes, ShapeLink DEF Calm
<1>3. Exchange' /\ (Creating' => Creating)
  <2>1. Lone(queue', id)
    BY <1>1, OneChargeLone DEF Calm, Exchange
  <2>2. Pending => Pending'
    BY <1>1 DEF Pending
  <2> QED  BY <1>1, <2>1, <2>2, ExchangeKept
<1>4. OwnParent' /\ Received' /\ Placed'
  BY <1>1 DEF Calm, OwnParent, Received, Placed, Live
<1>5. TellsAll' /\ OnlyDoomed'
  BY <1>1 DEF Calm, TellsAll, OnlyDoomed
<1>6. AllJoined' /\ NewId'
  BY <1>1, <1>2, <1>3 DEF Calm, AllJoined, NewId, Live
<1> QED  BY <1>2, <1>3, <1>4, <1>5, <1>6 DEF Calm

-----------------------------------------------------------------------------------
\* Everything but the exchange, when a process forks for an id that nobody has or needs.
Vacant(c) == \A p \in Pids : Live(p) => /\ id[p] # c
                                        /\ id[ppid[p]] = c => st[p] = "stopping"

\* A process that is not there yet has received nothing.
LEMMA FreeHasNothing ==
  ASSUME IInv, Calm, NEW f \in Pids, st[f] = "free"
  PROVE  \A d \in Endpoints : Waiting(queue, f, d) = {} /\ d \notin subs[f]
<1>1. f \in Procs
  BY IdFacts
<1>2. subs[f] = {}
  BY <1>1 DEF Calm, Shape, Subscribed, Open
<1> QED  BY <1>1, <1>2, ReceivedForm DEF Calm

LEMMA ForkStep ==
  ASSUME IInv, IInv', Calm, OneHome, NEW p \in Procs, st[p] = "up", NEW c \in Ids, Home[c] = id[p],
         Vacant(c), Fork(p, c), UNCHANGED <<peer, cmd>>,
         pc # "idle", pc' = pc \/ pc' = "idle", pc' \in {"idle", "create"}, NEW a \in Message, a.type \in Answers,
         \A r \in Procs, d \in Endpoints : \A x \in Waiting(queue', r, d) :
           x \in Waiting(queue, r, d) \/ (x = a /\ Heard(p, "parent", r, d)),
         \A r \in Pids, d \in Endpoints :
           RemoveMsg(Broadcast) \in Waiting(queue, r, d) => RemoveMsg(Broadcast) \in Waiting(queue', r, d),
         Exchange', ~Creating'
  PROVE  Calm'
<1> DEFINE f == FreshPid
<1>0. NetTypeOK /\ Shape
  BY CalmTypes DEF Calm
<1>1. f \in Pids /\ st[f] = "free" /\ f # Server /\ f # p /\ f \in Procs
  BY FreshPidIsFree, IdFacts DEF Fork
<1>2. /\ st'[f] = "forked" /\ id'[f] = c /\ ppid'[f] = p
      /\ \A q \in Procs : q # f => st'[q] = st[q] /\ id'[q] = id[q] /\ ppid'[q] = ppid[q]
      /\ \A q \in Procs : subs[q] \subseteq subs'[q]
  BY <1>0, <1>1 DEF Fork, NetTypeOK
<1>3. \A q \in Pids : Live(q) => id[q] # c
  BY DEF Vacant
<1>4. Shape'
  BY <1>0, <1>3, ShapeFork
<1> HIDE DEF f
<1>5. \A r \in Pids : r \in Procs /\ (st[r] # "free" => r # f /\ ppid[r] \in Procs /\ ppid[r] # f)
  BY <1>0, <1>1, IdFacts DEF Shape, Family
<1>6. \A d \in Endpoints : Waiting(queue', f, d) = {}
  <2>1. \A d \in Endpoints : Waiting(queue, f, d) = {} /\ d \notin subs[f]
    BY <1>1, FreeHasNothing
  <2>2. \A d \in Endpoints : ~Heard(p, "parent", f, d)
    BY <1>1, <2>1, HeardSubscribed
  <2> QED  BY <1>1, <2>1, <2>2
<1>7. a # RemoveMsg(Broadcast) /\ a.type \notin {"ping", "exec", "create", "remove"}
  BY TreeMessages DEF Answers
<1>8. OwnParent'
  <2> SUFFICES ASSUME NEW r \in Pids, NEW u \in Procs, Live(r)', Live(u)', id'[u] = id'[ppid'[r]]
               PROVE  u = ppid'[r] \/ (st'[r] = "stopping" /\ pc' \in {"idle", "create"})
    BY DEF OwnParent
  <2>1. CASE r = f
    <3>1. id'[u] = id[p]
      BY <1>1, <1>2, <2>1
    <3>2. u # f
      <4>1. Home[c] # c
        BY AncSelf, IdFacts DEF OneHome
      <4> QED  BY <1>2, <3>1, <4>1
    <3>3. Live(u) /\ id[u] = id[p] /\ Live(p)
      BY <1>2, <3>1, <3>2 DEF Live
    <3> QED  BY <1>0, <1>2, <2>1, <3>3, OneLive
  <2>2. CASE r # f
    <3>1. st'[r] = st[r] /\ ppid'[r] = ppid[r] /\ Live(r)
      BY <1>2, <1>5, <2>2 DEF Live
    <3>2. id'[ppid[r]] = id[ppid[r]]
      BY <1>2, <1>5, <3>1 DEF Live
    <3>3. CASE u = f
      BY <1>2, <3>1, <3>2, <3>3 DEF Vacant
    <3>4. CASE u # f
      BY <1>2, <3>1, <3>2, <3>4 DEF Calm, OwnParent, Live
    <3> QED  BY <3>3, <3>4
  <2> QED  BY <2>1, <2>2
<1>9. Received'
  <2>1. \A r \in Procs, d \in Endpoints : Waiting(queue', r, d) # {} => d \in subs'[r]
    BY <1>2, ReceivedForm, HeardSubscribed DEF Calm
  <2> QED  BY <2>1, NextReceived
<1>10. Placed'
  BY <1>7 DEF Calm, Placed
<1>11. TellsAll'
  <2> SUFFICES ASSUME NEW r \in Pids, st'[r] \in {"forked", "up"}, st'[ppid'[r]] \in {"stopping", "gone"}
               PROVE  \E d \in Endpoints : RemoveMsg(Broadcast) \in Waiting(queue', r, d)
    BY DEF TellsAll
  <2>1. r # f
    BY <1>1, <1>2
  <2>2. st[r] = st'[r] /\ ppid'[r] = ppid[r] /\ st'[ppid[r]] = st[ppid[r]]
    BY <1>2, <1>5, <2>1
  <2>3. \E d \in Endpoints : RemoveMsg(Broadcast) \in Waiting(queue, r, d)
    BY <2>2 DEF Calm, TellsAll
  <2> QED  BY <2>3
<1>12. OnlyDoomed'
  <2> SUFFICES ASSUME NEW r \in Pids
               PROVE  /\ st'[r] = "stopping" => st'[ppid'[r]] # "up"
                      /\ \A d \in Endpoints : \A x \in Waiting(queue', r, d) :
                           x.type = "remove" => x.to = Broadcast /\ st'[ppid'[r]] # "up"
    BY DEF OnlyDoomed
  <2>1. CASE r = f
    BY <1>2, <1>6, <2>1
  <2>2. CASE r # f /\ st[r] # "free"
    <3>1. st[r] = st'[r] /\ ppid'[r] = ppid[r] /\ st'[ppid[r]] = st[ppid[r]]
      BY <1>2, <1>5, <2>2
    <3> QED  BY <1>5, <1>7, <3>1 DEF Calm, OnlyDoomed
  <2>3. CASE r # f /\ st[r] = "free"
    <3>1. st'[r] = "free"
      BY <1>2, <1>5, <2>3
    <3>2. \A d \in Endpoints : Waiting(queue, r, d) = {} /\ d \notin subs[r]
      BY <2>3, FreeHasNothing
    <3>3. \A d \in Endpoints : Waiting(queue', r, d) = {}
      BY <1>5, <3>2, HeardSubscribed
    <3> QED  BY <3>1, <3>3
  <2> QED  BY <2>1, <2>2, <2>3
<1>13. AllJoined' /\ NewId'
  BY DEF AllJoined, NewId
<1> QED  BY <1>4, <1>8, <1>9, <1>10, <1>11, <1>12, <1>13 DEF Calm

\* handle_create of a node, when fork() succeeds.
LEMMA CreateStep ==
  ASSUME IInv, IInv', Calm, OneHome, Joined, NEW p \in Pids, st[p] = "up", NEW e \in Endpoints,
         queue[p][e] # <<>>, Head(queue[p][e]).type = "create", Addressed(p, Head(queue[p][e])),
         Fork(p, Head(queue[p][e]).val),
         queue' = Answer(Read(p, e), p, Head(queue[p][e]), CreateAnswer(FreshPid)),
         UNCHANGED <<peer, pc, cmd>>
  PROVE  Calm' /\ (st[Server] = "up" /\ Present(Target) => Pending')
<1> DEFINE m == Head(queue[p][e])
           a == CreateAnswer(FreshPid)
<1>0. /\ p \in Procs /\ NetTypeOK /\ Shape /\ id[p] \in Ids /\ m \in Waiting(queue, p, e)
      /\ id[p] # Broadcast /\ Queues(queue)
  <2>1. Queues(queue)
    BY CalmTypes
  <2>2. m \in Waiting(queue, p, e)
    BY <2>1, ReadWaiting, CalmTypes
  <2> QED  BY <2>1, <2>2, CalmTypes, IdFacts DEF Calm
<1>1. m.to \in Ids /\ m.to = Home[m.val]
  BY <1>0 DEF Calm, Placed
<1>2. m.to = id[p]
  BY <1>1, IdFacts DEF Addressed
<1>3. a \in UpMessage /\ a.type = "create_answer" /\ a \in Message
  <2>1. FreshPid \in Int
    BY FreshPidIsFree, Numbers DEF Fork
  <2>2. a \in UpMessage
    BY <2>1, AnswerTypes
  <2> QED  BY <2>2, TreeMessages DEF CreateAnswer, Up
<1> HIDE DEF a
<1>4. queue' = Publish(Read(p, e), p, "parent", <<a>>)
  BY <1>2 DEF Answer, Onward, a
<1>5. /\ \A r \in Procs, d \in Endpoints : \A x \in Waiting(queue', r, d) :
           x \in Waiting(queue, r, d) \/ (x = a /\ Heard(p, "parent", r, d))
      /\ \A r \in Procs, d \in Endpoints : \A x \in Waiting(queue, r, d) :
           x \in Waiting(queue', r, d) \/ x = m
  BY <1>0, <1>3, <1>4, PassedOn DEF Heard
<1>6. \A r \in Procs, d \in Endpoints : queue'[r][d] # <<>> => id'[r] = id[r]
  <2> DEFINE f == FreshPid
  <2>1. f \in Pids /\ st[f] = "free" /\ f \in Procs
    BY FreshPidIsFree, IdFacts DEF Fork
  <2>2. \A q \in Procs : q # f => id'[q] = id[q]
    BY <1>0 DEF Fork, NetTypeOK
  <2>3. \A d \in Endpoints : Waiting(queue, f, d) = {} /\ d \notin subs[f]
    BY <2>1, FreeHasNothing
  <2>4. \A d \in Endpoints : Waiting(queue', f, d) = {}
    BY <1>0, <1>5, <2>1, <2>3, HeardSubscribed
  <2>5. \A d \in Endpoints : queue'[f][d] = <<>>
    BY <2>1, <2>4, NextQueues, WaitingType
  <2> QED  BY <2>2, <2>5
<1>7. Task(m)
  BY DEF Task
<1>8. pc # "idle"
  <2>1. Charged(id[p], m)
    BY <1>0, <1>2, <1>7, AncSelf, TreeMessages
  <2> QED  BY <1>0, <2>1 DEF Calm, Exchange, Current
<1>9. pc = "create"
  <2>1. Charged(id[p], m) /\ p # Server
    BY <1>0, <1>2, <1>7, AncSelf, TreeMessages, IdFacts
  <2>2. m = Question \/ Awaited(m)
    BY <1>0, <2>1 DEF Calm, Exchange, Current
  <2> QED  BY <1>7, <2>2, QuestionFacts, TreeMessages
<1>10. /\ Exchange' /\ ~Creating' /\ m = Question /\ id[p] = Target
       /\ st[Server] = "up" /\ Present(Target) => Pending'
  BY <1>2, <1>3, <1>4, <1>6, <1>7, <1>9, ReplyKept
<1>11. m.val = cmd.id /\ id[p] = cmd.parent /\ m.val \in Ids
  <2>1. m = CreateMsg(cmd.parent, cmd.id)
    BY <1>9, <1>10 DEF Question
  <2>2. cmd.id \in Ids
    BY <1>8, CalmTypes, CommandType
  <2> QED  BY <1>9, <1>10, <2>1, <2>2 DEF CreateMsg, Down, Target
<1>12. Vacant(cmd.id)
  <2>1. Creating
    BY <1>0, <1>2, <1>7, <1>9, <1>10, AncSelf, TreeMessages DEF Creating
  <2> QED  BY <1>11, <2>1 DEF Calm, NewId, Vacant
<1>13. m # RemoveMsg(Broadcast) /\ a.type \in Answers
  BY <1>3, <1>7, TreeMessages DEF Answers
<1>14. Fork(p, cmd.id) /\ Home[cmd.id] = id[p] /\ cmd.id \in Ids
  BY <1>1, <1>2, <1>11
<1>15. \A r \in Pids, d \in Endpoints :
         RemoveMsg(Broadcast) \in Waiting(queue, r, d) => RemoveMsg(Broadcast) \in Waiting(queue', r, d)
  BY <1>5, <1>13, IdFacts
<1>16. Calm'
  BY <1>0, <1>3, <1>5, <1>9, <1>10, <1>12, <1>13, <1>14, <1>15, ForkStep
<1> QED  BY <1>10, <1>16

\* The steps of a computing node, without hurry.
LEMMA NodeSteps ==
  ASSUME IInv, IInv', Calm, Orderly, strays' = {}, NEW p \in Pids, NodeNext(p),
         UNCHANGED server
  PROVE  Calm'
<1>1. (Ready => Joined) /\ OneHome /\ UNCHANGED <<pc, cmd>> /\ p \in Procs
  BY IdFacts DEF Ready, Orderly, server
<1>2. CASE NodeInit(p)
  BY <1>2, InitStep
<1>3. CASE NodeStop(p)
  <2>1. Unheard(p) = {}
    BY <1>3 DEF NodeStop, Deinit
  <2> QED  BY <1>1, <1>3, <2>1, DeinitStep DEF NodeStop
<1>4. ASSUME NEW e \in Endpoints, NodeStep(p, e) PROVE Calm'
  <2> DEFINE m == Head(queue[p][e])
             q == Read(p, e)
  <2>1. st[p] = "up" /\ Joined /\ queue[p][e] # <<>>
    BY <1>1, <1>4 DEF NodeStep
  <2> HIDE DEF m, q
  <2>2. \/ Addressed(p, m) /\ (HandlePing(p, m, q) \/ HandleExec(p, m, q)
                               \/ HandleCreate(p, m, q) \/ HandleRemove(p, m, q))
        \/ Forward(p, m, q)
    BY <1>4 DEF NodeStep, m, q
  <2>3. CASE Addressed(p, m) /\ HandleRemove(p, m, q)
    BY <2>1, <2>3, RemoveStep DEF m, q
  <2>4. CASE Addressed(p, m) /\ m.type = "create" /\ Fork(p, m.val) /\ UNCHANGED peer
             /\ queue' = Answer(q, p, m, CreateAnswer(FreshPid))
    BY <1>1, <2>1, <2>4, CreateStep DEF m, q
  <2>5. CASE Handles(p, m, q)
    BY <1>1, <2>1, <2>5, MessageStep DEF m, q
  <2>6. HandleCreate(p, m, q) =>
          \/ m.type = "create" /\ queue' = Answer(q, p, m, CreateAnswer(-1))
             /\ UNCHANGED <<st, id, ppid, subs, peer>>
          \/ m.type = "create" /\ Fork(p, m.val) /\ UNCHANGED peer
             /\ queue' = Answer(q, p, m, CreateAnswer(FreshPid))
    BY DEF HandleCreate
  <2> QED  BY <2>2, <2>3, <2>4, <2>5, <2>6 DEF Handles
<1> QED  BY <1>2, <1>3, <1>4 DEF NodeNext

-----------------------------------------------------------------------------------
\* What the server receives: the answer it waits for, and then nothing is under way any
\* more; or nothing, and then nothing is under way at all.
Empty(q) == \A r \in Procs, e \in Endpoints : Waiting(q, r, e) = {}

LEMMA ReceiptFacts ==
  ASSUME IInv, Calm, ~Slow, pc # "idle", NEW r \in Receipts
  PROVE  /\ Queues(r.rest) /\ Clear(r.rest, id)
         /\ \A x \in Procs, d \in Endpoints :
              /\ Waiting(r.rest, x, d) \subseteq Waiting(queue, x, d)
              /\ x # Server => Waiting(r.rest, x, d) = Waiting(queue, x, d)
         /\ \/ Awaited(r.msg) /\ \E d \in Endpoints : r.msg \in Waiting(queue, Server, d)
            \/ r.msg = NoMessage /\ r.rest = queue /\ Empty(queue)
<1>1. NetTypeOK /\ Shape /\ Queues(queue) /\ Server \in Procs /\ Server \notin Pids
  BY CalmTypes, IdFacts DEF Calm
<1>2. ASSUME NEW e \in Endpoints, queue[Server][e] # <<>>,
             r = [msg |-> Head(queue[Server][e]), rest |-> Read(Server, e)]
      PROVE  /\ Queues(r.rest) /\ Clear(r.rest, id) /\ Awaited(r.msg)
             /\ \E d \in Endpoints : r.msg \in Waiting(queue, Server, d)
             /\ \A x \in Procs, d \in Endpoints :
                  /\ Waiting(r.rest, x, d) \subseteq Waiting(queue, x, d)
                  /\ x # Server => Waiting(r.rest, x, d) = Waiting(queue, x, d)
  <2> DEFINE m == Head(queue[Server][e])
  <2>1. e \in subs[Server]
    BY <1>1, <1>2 DEF Calm, Received
  <2>2. e[2] = "parent"
    BY <1>1, <2>1 DEF Shape, Subscribed
  <2>3. Queues(Read(Server, e)) /\ m \in UpMessage
    BY <1>1, <1>2, <2>2, ReadQueues DEF Carried
  <2>4. m.type \in Answers /\ m \in Waiting(queue, Server, e)
    BY <1>1, <1>2, <2>3, ReadWaiting DEF UpMessage
  <2> HIDE DEF m
  <2>5. Awaited(m)
    BY <1>1, <2>4, TreeMessages, QuestionFacts DEF Calm, Exchange, Current
  <2>6. Clear(Read(Server, e), id)
    BY <1>1, <1>2, <2>4, ReadLone, OneChargeLone, TreeMessages DEF Calm, Exchange, m
  <2> QED  BY <1>1, <1>2, <2>3, <2>4, <2>5, <2>6, ReadWaiting DEF m
<1>3. ASSUME Expires, r = [msg |-> NoMessage, rest |-> queue]
      PROVE  r.msg = NoMessage /\ r.rest = queue /\ Empty(queue) /\ Clear(r.rest, id)
  <2>1. \A x \in Procs, d \in Endpoints : queue[x][d] = <<>>
    BY <1>1, <1>3, IdFacts DEF Expires, NodesQuiet
  <2>2. Empty(queue)
    BY <1>1, <2>1, WaitingType DEF Empty
  <2> QED  BY <1>3, <2>2 DEF Empty, Clear
<1>4. \/ \E e \in Endpoints : queue[Server][e] # <<>>
             /\ r = [msg |-> Head(queue[Server][e]), rest |-> Read(Server, e)]
      \/ Expires /\ r = [msg |-> NoMessage, rest |-> queue]
  BY DEF Receipts
<1> QED  BY <1>1, <1>2, <1>3, <1>4

\* The exchange after the server has asked a question, ...
LEMMA Asked ==
  ASSUME IInv, IInv', Calm, OneHome, NEW q, Queues(q), Clear(q, id), NEW n \in Message, Task(n),
         queue' = Publish(q, Server, "children", <<n>>), n = Question', pc' # "idle",
         pc' \in {"parent", "child", "dest"} => Joined,
         UNCHANGED <<st, id, ppid, subs, peer>>
  PROVE  Exchange' /\ (Joined /\ st[Server] = "up" /\ Present(Target)' => Pending')
<1>0. /\ NetTypeOK /\ Shape /\ Queues(queue) /\ Server \in Procs /\ Server \notin Pids
      /\ \A r \in Pids : r \in Procs
  BY CalmTypes, IdFacts DEF Calm
<1>1. \A r, s \in Procs, d, e \in Endpoints :
        /\ peer[r][d] = Server /\ d[2] = "children" /\ Charged(id[r], n)
        /\ peer[s][e] = Server /\ e[2] = "children" /\ Charged(id[s], n)
        => r = s /\ d = e
  BY <1>0, OneWayDown
<1>2. /\ Lone(queue', id)
      /\ \A r \in Procs, e \in Endpoints : \A x \in Waiting(queue', r, e) :
           Charged(id[r], x) => x = n /\ peer[r][e] = Server /\ e[2] = "children"
  BY <1>1, PublishOnce
<1>3. n.to = Target'
  BY DEF Question, Target, CreateMsg, ExecMsg, PingMsg, Down
<1>4. OneCharge'
  BY <1>2 DEF OneCharge, Lone
<1>5. Current'
  BY <1>2, <1>3, TreeMessages DEF Current
<1>6. ASSUME Joined, Present(Target)', st[Server] = "up" PROVE Pending'
  <2>1. PICK z \in Pids : id[z] = n.to /\ Reachable(z)
    BY <1>3, <1>6 DEF Present, Reachable
  <2>2. PICK y \in Pids : Reachable(y) /\ ppid[y] = Server /\ Anc(id[y], id[z])
    BY <1>0, <2>1, ReachTop
  <2>3. Open(y) /\ Open(ppid[y])
    BY <1>6, <2>2, ReachUp DEF Open
  <2>4. Upward(y) \in Endpoints /\ peer[y][Upward(y)] = Server
    BY <1>0, <1>6, <2>2, <2>3, JoinedToParent
  <2>5. n \in Waiting(queue', y, Upward(y))
    BY <1>0, <2>4, PublishWaiting DEF Upward
  <2>6. Charged(id[y], n)
    BY <2>1, <2>2, TreeMessages
  <2> QED  BY <1>0, <2>4, <2>5, <2>6 DEF Pending
<1>7. Delivered'
  BY <1>6 DEF Delivered
<1> QED  BY <1>4, <1>5, <1>6, <1>7 DEF Exchange

\* ... and once it is done.
LEMMA Hushed ==
  ASSUME Clear(queue', id'), pc' = "idle" PROVE Exchange' /\ ~Creating' /\ NewId' /\ AllJoined'
<1>1. OneCharge' /\ Current'
  BY DEF Clear, OneCharge, Once, Current, Waiting
<1> QED  BY <1>1 DEF Exchange, Delivered, Creating, NewId, AllJoined

\* Everything else, when the server reads a message and sends one.
LEMMA ServerKept ==
  ASSUME IInv, IInv', Calm, UNCHANGED <<st, id, ppid, subs, peer>>,
         NEW n \in Message,
         \A r \in Procs, d \in Endpoints : \A x \in Waiting(queue', r, d) :
           x \in Waiting(queue, r, d) \/ (x = n /\ Heard(Server, "children", r, d)),
         \A r \in Procs, d \in Endpoints :
           r # Server => Waiting(queue, r, d) \subseteq Waiting(queue', r, d),
         Task(n) => n.to \in Ids /\ (n.type = "create" => n.to = Home[n.val]),
         pc' # "idle" => n.type # "remove",
         pc' # "idle" /\ cmd'.op = "create" => cmd'.parent = Home[cmd'.id],
         pc' \in {"parent", "child", "create"} => cmd'.op = "create",
         pc = "idle" => Settled, pc = "create" => pc' = "idle",
         Exchange', NewId'
  PROVE  Calm'
<1>0. Server \in Procs /\ Server \notin Pids /\ \A r \in Pids : r \in Procs
  BY IdFacts
<1>1. Shape'
  BY ShapeSame DEF Calm
<1>2. pc = "idle" => /\ \A r \in Pids : st[r] # "stopping"
                     /\ \A r \in Pids, d \in Endpoints : Waiting(queue, r, d) = {}
  <2>1. NodesQuiet => \A r \in Pids, d \in Endpoints : Waiting(queue, r, d) = {}
    BY <1>0, CalmTypes, WaitingType DEF NodesQuiet
  <2> QED  BY <2>1 DEF Settled
<1>3. pc' \in {"idle", "parent", "child", "dest", "create", "exec"}
  BY DEF IInv, TypeOK
<1>4. OwnParent'
  BY <1>2, <1>3 DEF Calm, OwnParent, Live
<1>5. Received'
  <2>1. \A r \in Procs, d \in Endpoints : Waiting(queue', r, d) # {} => d \in subs'[r]
    BY <1>0, ReceivedForm, HeardSubscribed DEF Calm
  <2> QED  BY <2>1, NextReceived
<1>6. Placed'
  BY DEF Calm, Placed, Task
<1>7. TellsAll'
  BY <1>0 DEF Calm, TellsAll
<1>8. OnlyDoomed'
  <2> SUFFICES ASSUME pc' # "idle", NEW r \in Pids
               PROVE  /\ st[r] = "stopping" => st[ppid[r]] # "up"
                      /\ \A d \in Endpoints : \A x \in Waiting(queue', r, d) :
                           x.type = "remove" => x.to = Broadcast /\ st[ppid[r]] # "up"
    BY DEF OnlyDoomed
  <2>1. \A d \in Endpoints : \A x \in Waiting(queue', r, d) :
          x.type = "remove" => x \in Waiting(queue, r, d)
    BY <1>0
  <2>2. CASE pc = "idle"
    BY <1>2, <2>1, <2>2
  <2>3. CASE pc # "idle"
    BY <2>1, <2>3 DEF Calm, OnlyDoomed
  <2> QED  BY <2>2, <2>3
<1>9. AllJoined'
  <2>1. Joined => Joined'
    BY DEF Joined, Open, Bound
  <2> QED  BY <2>1 DEF Calm, AllJoined, Settled
<1> QED  BY <1>1, <1>4, <1>5, <1>6, <1>7, <1>8, <1>9 DEF Calm

\* The server reads and asks, or reads and says: in both cases as ServerKept wants it.
LEMMA AskStep ==
  ASSUME IInv, IInv', Calm, Orderly, NEW q, Queues(q), Clear(q, id),
         \A x \in Procs, d \in Endpoints :
           /\ Waiting(q, x, d) \subseteq Waiting(queue, x, d)
           /\ x # Server => Waiting(q, x, d) = Waiting(queue, x, d),
         NEW n \in Message, Task(n), Send(q, n), n = Question', pc' # "idle",
         pc' \in {"parent", "child", "dest"} => Joined,
         UNCHANGED <<st, id, ppid, subs, peer>>,
         n.to \in Ids /\ (n.type = "create" => n.to = Home[n.val]),
         cmd'.op = "create" => cmd'.parent = Home[cmd'.id],
         pc' \in {"parent", "child", "create"} => cmd'.op = "create",
         pc = "idle" => Settled, pc # "create", pc' = "create" => NewId'
  PROVE  Calm' /\ (Joined /\ st[Server] = "up" /\ Present(Target)' => Pending')
<1>1. queue' = Publish(q, Server, "children", <<n>>)
  BY DEF Send
<1>2. Exchange' /\ (Joined /\ st[Server] = "up" /\ Present(Target)' => Pending')
  BY <1>1, Asked DEF Orderly
<1>3. \A x \in Procs, d \in Endpoints :
        Waiting(queue', x, d) = Waiting(q, x, d) \cup
          (IF peer[x][d] = Server /\ d[2] = "children" THEN {n} ELSE {})
  BY <1>1, PublishWaiting
<1>4. NewId'
  BY DEF NewId, Creating
<1>5. /\ \A r \in Procs, d \in Endpoints : \A x \in Waiting(queue', r, d) :
           x \in Waiting(queue, r, d) \/ (x = n /\ Heard(Server, "children", r, d))
      /\ \A r \in Procs, d \in Endpoints :
           r # Server => Waiting(queue, r, d) \subseteq Waiting(queue', r, d)
  BY <1>3 DEF Heard
<1>6. n.type # "remove"
  BY DEF Task
<1>7. Calm'
  BY <1>2, <1>4, <1>5, <1>6, ServerKept
<1> QED  BY <1>2, <1>7

LEMMA SayStep ==
  ASSUME IInv, IInv', Calm, NEW q, Queues(q), Clear(q, id),
         \A x \in Procs, d \in Endpoints :
           /\ Waiting(q, x, d) \subseteq Waiting(queue, x, d)
           /\ x # Server => Waiting(q, x, d) = Waiting(queue, x, d),
         queue' = q \/ \E i : Send(q, RemoveMsg(i)) /\ i \in Int,
         pc # "idle", pc' = "idle",
         UNCHANGED <<st, id, ppid, subs, peer, cmd>>
  PROVE  Calm'
<1>1. PICK n \in Message :
        /\ n.type = "remove"
        /\ \A x \in Procs, d \in Endpoints : \A y \in Waiting(queue', x, d) :
             y \in Waiting(q, x, d) \/ (y = n /\ Heard(Server, "children", x, d))
        /\ \A x \in Procs, d \in Endpoints : Waiting(q, x, d) \subseteq Waiting(queue', x, d)
  <2>1. CASE queue' = q
    <3>1. RemoveMsg(Broadcast) \in Message /\ RemoveMsg(Broadcast).type = "remove"
      BY TreeMessages DEF RemoveMsg, Down
    <3> QED  BY <2>1, <3>1
  <2>2. ASSUME NEW i \in Int, Send(q, RemoveMsg(i))
        PROVE  \E n \in Message :
                 /\ n.type = "remove"
                 /\ \A x \in Procs, d \in Endpoints : \A y \in Waiting(queue', x, d) :
                      y \in Waiting(q, x, d) \/ (y = n /\ Heard(Server, "children", x, d))
                 /\ \A x \in Procs, d \in Endpoints : Waiting(q, x, d) \subseteq Waiting(queue', x, d)
    <3> DEFINE n == RemoveMsg(i)
    <3>1. n \in Message /\ n.type = "remove"
      BY MessageTypes, TreeMessages DEF RemoveMsg, Down
    <3> HIDE DEF n
    <3>2. queue' = Publish(q, Server, "children", <<n>>)
      BY <2>2 DEF Send, n
    <3>3. \A x \in Procs, d \in Endpoints :
            Waiting(queue', x, d) = Waiting(q, x, d) \cup
              (IF peer[x][d] = Server /\ d[2] = "children" THEN {n} ELSE {})
      BY <3>1, <3>2, PublishWaiting
    <3> QED  BY <3>1, <3>3 DEF Heard
  <2> QED  BY <2>1, <2>2
<1>2. Clear(queue', id')
  BY <1>1, TreeMessages DEF Clear
<1>3. Exchange' /\ NewId'
  BY <1>2, Hushed
<1>4. ~Task(n)
  BY <1>1, TreeMessages
<1> QED  BY <1>1, <1>3, <1>4, ServerKept

LEMMA ReadCommandStep ==
  ASSUME IInv, IInv', Calm, Orderly, ReadCommand
  PROVE  Calm'
<1>1. Settled /\ pc = "idle" /\ UNCHANGED <<st, id, ppid, subs, peer>> /\ Joined
  BY DEF ReadCommand, Unhurried, Settled, Orderly
<1>2. typed + 1 \in DOMAIN Menu
  <2>1. typed \in Nat /\ typed < Len(Menu)
    BY DEF ReadCommand, IInv, TypeOK
  <2> QED  BY <2>1, MessageTreeAssumption
<1>3. PICK c \in Menu[typed + 1] :
        /\ cmd' = c
        /\ \/ /\ c.op = "create" /\ c.parent # Root
              /\ pc' = "parent" /\ AskNext(queue, c.parent)
           \/ /\ c.op = "create" /\ c.parent = Root
              /\ pc' = "child" /\ AskNext(queue, c.id)
           \/ /\ c.op # "create"
              /\ pc' = "dest" /\ AskNext(queue, c.id)
  BY DEF ReadCommand
<1>4. c \in Command /\ c.id \in Ids /\ (c.op = "create" => c.parent \in Ids \cup {Root})
  BY <1>2, MessageTreeAssumption DEF Command
<1>5. c.op = "create" => c.parent = Home[c.id]
  BY <1>2, <1>4, CreateHome DEF Orderly
<1>6. Queues(queue) /\ Clear(queue, id)
  BY <1>1, CalmTypes DEF Clear, Calm, Exchange, Current
<1>7. PICK i \in Ids : AskNext(queue, i) /\ pc' \in {"parent", "child", "dest"} /\ i = Target'
  BY <1>3, <1>4 DEF Target
<1> DEFINE n == PingMsg(i)
<1>8. n \in Message /\ Task(n) /\ n.to = i /\ n.type = "ping" /\ Send(queue, n)
  BY <1>7, MessageTypes, TreeMessages, Numbers DEF PingMsg, Down, Task, AskNext
<1>9. n = Question'
  BY <1>7 DEF Question
<1>a. pc' \in {"parent", "child", "create"} => cmd'.op = "create"
  BY <1>3
<1> HIDE DEF n
<1> QED  BY <1>1, <1>3, <1>5, <1>6, <1>7, <1>8, <1>9, <1>a, AskStep

\* What the server knows of the command under way.
LEMMA CommandFacts ==
  ASSUME IInv, Calm, pc # "idle"
  PROVE  /\ cmd.id \in Ids /\ cmd.id \in Int
         /\ pc \in {"parent", "child", "create"} =>
              /\ cmd.op = "create" /\ cmd.parent = Home[cmd.id] /\ cmd.parent \in Ids \cup {Root}
<1>1. cmd \in Command
  BY CalmTypes
<1> QED  BY <1>1, CommandType, HomeType DEF Calm, Placed

LEMMA CheckParentStep ==
  ASSUME IInv, IInv', Calm, Orderly, CheckParent
  PROVE  Calm'
<1>1. pc = "parent" /\ UNCHANGED <<st, id, ppid, subs, peer, cmd>> /\ Joined
  BY DEF CheckParent, Calm, AllJoined
<1>2. PICK r \in Receipts :
        \/ AskNext(r.rest, cmd.id) /\ pc' = "child"
        \/ queue' = r.rest /\ pc' = "idle"
  BY DEF CheckParent, Say
<1>3. /\ Queues(r.rest) /\ Clear(r.rest, id)
      /\ \A x \in Procs, d \in Endpoints :
           /\ Waiting(r.rest, x, d) \subseteq Waiting(queue, x, d)
           /\ x # Server => Waiting(r.rest, x, d) = Waiting(queue, x, d)
  BY <1>1, ReceiptFacts DEF Orderly
<1>4. CASE queue' = r.rest /\ pc' = "idle"
  BY <1>1, <1>3, <1>4, SayStep
<1>5. CASE AskNext(r.rest, cmd.id) /\ pc' = "child"
  <2> DEFINE n == PingMsg(cmd.id)
  <2>1. /\ cmd.id \in Ids /\ cmd.op = "create" /\ cmd.parent = Home[cmd.id] /\ cmd.id \in Int
    BY <1>1, CommandFacts
  <2>2. n \in Message /\ Task(n) /\ n.to = cmd.id /\ n.type = "ping" /\ Send(r.rest, n)
    BY <1>5, <2>1, MessageTypes, TreeMessages DEF PingMsg, Down, Task, AskNext
  <2>3. n = Question'
    BY <1>1, <1>5 DEF Question, Target
  <2> HIDE DEF n
  <2> QED  BY <1>1, <1>3, <1>5, <2>1, <2>2, <2>3, AskStep
<1> QED  BY <1>2, <1>4, <1>5

LEMMA CheckDestStep ==
  ASSUME IInv, IInv', Calm, Orderly, CheckDest
  PROVE  Calm' /\ (pc' = "exec" /\ st[Server] = "up" /\ Present(cmd.id)' => Pending')
<1>1. pc = "dest" /\ UNCHANGED <<st, id, ppid, subs, peer, cmd>> /\ Joined
  BY DEF CheckDest, Calm, AllJoined
<1>2. PICK r \in Receipts :
        \/ queue' = r.rest /\ pc' = "idle"
        \/ Send(r.rest, RemoveMsg(cmd.id)) /\ pc' = "idle"
        \/ cmd.op = "exec" /\ Send(r.rest, ExecMsg(cmd.id)) /\ pc' = "exec"
  BY DEF CheckDest, Say
<1>3. /\ Queues(r.rest) /\ Clear(r.rest, id)
      /\ \A x \in Procs, d \in Endpoints :
           /\ Waiting(r.rest, x, d) \subseteq Waiting(queue, x, d)
           /\ x # Server => Waiting(r.rest, x, d) = Waiting(queue, x, d)
  BY <1>1, ReceiptFacts DEF Orderly
<1>0. cmd.id \in Ids /\ cmd.id \in Int
  BY <1>1, CommandFacts
<1>4. CASE (queue' = r.rest \/ Send(r.rest, RemoveMsg(cmd.id))) /\ pc' = "idle"
  BY <1>0, <1>1, <1>3, <1>4, SayStep
<1>5. CASE cmd.op = "exec" /\ Send(r.rest, ExecMsg(cmd.id)) /\ pc' = "exec"
  <2> DEFINE n == ExecMsg(cmd.id)
  <2>2. n \in Message /\ Task(n) /\ n.to = cmd.id /\ n.type = "exec" /\ Send(r.rest, n)
    BY <1>0, <1>5, MessageTypes, TreeMessages DEF ExecMsg, Down, Task
  <2>3. n = Question'
    BY <1>1, <1>5 DEF Question
  <2>4. cmd.op # "create"
    BY <1>5
  <2>5. Target' = cmd.id
    BY <1>1, <1>5 DEF Target
  <2> HIDE DEF n
  <2> QED  BY <1>0, <1>1, <1>3, <1>5, <2>2, <2>3, <2>4, <2>5, AskStep
<1> QED  BY <1>2, <1>4, <1>5

\* When nothing is on its way, every node that is up can be reached; so when the question
\* about the child is not answered, its id is free and no node needs it.
LEMMA QuietReach ==
  ASSUME IInv, Calm, Empty(queue), NEW p \in Pids, st[p] = "up"
  PROVE  Reachable(p)
<1> DEFINE S == {r \in Pids : st[r] = "up"}
<1>1. ASSUME NEW r \in S PROVE ppid[r] \in S \cup {Server}
  <2>1. /\ r \in Procs /\ ppid[r] \in Procs /\ st[ppid[r]] \notin {"free", "forked"}
        /\ st \in [Procs -> {"free", "forked", "up", "stopping", "gone", "killed", "crashed"}]
    BY CalmTypes, IdFacts DEF Calm, Shape, Family, NetTypeOK
  <2>2. st[ppid[r]] \notin {"stopping", "gone"}
    BY <2>1 DEF Calm, TellsAll, Empty
  <2>3. ppid[r] \in Pids => st[ppid[r]] \notin {"killed", "crashed"}
    BY DEF Calm, Shape, Family
  <2> QED  BY <2>1, <2>2, <2>3, IdFacts
<1>2. S \in SUBSET Pids /\ p \in S
  OBVIOUS
<1> QED  BY <1>1, <1>2 DEF Reachable

LEMMA QuietAbsent ==
  ASSUME IInv, Calm, Empty(queue), st[Server] = "up", pc \in {"parent", "child", "dest"}
  PROVE  ~Present(Target)
<1>1. ~Pending
  BY DEF Pending, Empty
<1> QED  BY <1>1 DEF Calm, Exchange, Delivered

LEMMA QuietVacant ==
  ASSUME IInv, Calm, Empty(queue), st[Server] = "up", pc = "child",
         NEW u \in Procs, st[u] = "up", id[u] = cmd.parent
  PROVE  Vacant(cmd.id)
<1>1. NetTypeOK /\ Shape /\ Joined
  BY CalmTypes DEF Calm, AllJoined
<1>2. cmd.id \in Ids /\ cmd.parent = Home[cmd.id]
  BY CommandFacts
<1>3. ~Present(cmd.id)
  BY QuietAbsent DEF Target
<1>4. ASSUME NEW p \in Pids, Live(p) PROVE id[p] # cmd.id
  <2> SUFFICES ASSUME id[p] = cmd.id PROVE FALSE
    OBVIOUS
  <2>1. st[p] # "up"
    BY <1>3, QuietReach DEF Present
  <2>2. st[p] = "stopping"
    BY <1>1, <1>4, <2>1 DEF Live, Joined
  <2>3. id[ppid[p]] = id[u] /\ st[ppid[p]] # "up"
    BY <1>1, <1>2, <2>2 DEF Shape, Family, Calm, OnlyDoomed
  <2>4. u = ppid[p]
    BY <1>4, <2>3 DEF Calm, OwnParent, Live
  <2> QED  BY <2>3, <2>4
<1>5. ASSUME NEW p \in Pids, Live(p), id[ppid[p]] = cmd.id PROVE st[p] = "stopping"
  <2> SUFFICES ASSUME st[p] = "up" PROVE FALSE
    BY <1>1, <1>5 DEF Live, Joined
  <2>1. ppid[p] = Server \/ (ppid[p] \in Pids /\ Reachable(ppid[p]))
    BY QuietReach, ReachUp
  <2>2. ppid[p] # Server
    BY <1>1, <1>2, <1>5, IdFacts DEF NetTypeOK
  <2> QED  BY <1>3, <1>5, <2>1, <2>2 DEF Present
<1> QED  BY <1>4, <1>5 DEF Vacant

\* What is_exists says of a message: true of the answer waited for, false of none.
LEMMA IsExistsFacts ==
  ASSUME IInv, Calm, pc \in {"parent", "child", "dest"}, NEW r \in Receipts,
         Awaited(r.msg) \/ r.msg = NoMessage
  PROVE  IsExists(r, Target) <=> Awaited(r.msg)
<1>1. Awaited(r.msg) => r.msg = PingAnswer(Target)
  BY DEF Awaited, Target
<1>2. \A i : PingAnswer(i) # NoMessage /\ PingAnswer(i).val = i
  <2>1. \A i : PingAnswer(i).type = "ping_answer" /\ PingAnswer(i).val = i /\ NoMessage.type = "none"
    BY DEF PingAnswer, NoMessage, Up
  <2> QED  BY <2>1
<1>3. ~Awaited(NoMessage)
  BY <1>2 DEF Awaited
<1> QED  BY <1>1, <1>2, <1>3 DEF IsExists

LEMMA CheckChildStep ==
  ASSUME IInv, IInv', Calm, Orderly, CheckChild
  PROVE  Calm' /\ (pc' = "create" /\ Present(cmd.parent)' => Pending')
<1>1. pc = "child" /\ st[Server] = "up" /\ UNCHANGED <<peer, cmd>> /\ Target = cmd.id
      /\ cmd.id \in Ids /\ cmd.op = "create" /\ cmd.parent = Home[cmd.id]
      /\ cmd.parent \in Ids \cup {Root} /\ NetTypeOK /\ Server \in Procs /\ id[Server] = Root
  BY CommandFacts, CalmTypes DEF CheckChild, Target, NetTypeOK
<1>2. PICK r \in Receipts :
        \/ queue' = r.rest /\ pc' = "idle" /\ UNCHANGED <<st, id, ppid, subs>>
        \/ /\ ~IsExists(r, cmd.id) /\ cmd.parent # Root
           /\ Send(r.rest, CreateMsg(cmd.parent, cmd.id))
           /\ pc' = "create" /\ UNCHANGED <<st, id, ppid, subs>>
        \/ /\ ~IsExists(r, cmd.id) /\ cmd.parent = Root
           /\ Fork(Server, cmd.id) /\ queue' = r.rest /\ pc' = "idle"
  BY DEF CheckChild, Say
<1>3. /\ Queues(r.rest) /\ Clear(r.rest, id)
      /\ \A x \in Procs, d \in Endpoints :
           /\ Waiting(r.rest, x, d) \subseteq Waiting(queue, x, d)
           /\ x # Server => Waiting(r.rest, x, d) = Waiting(queue, x, d)
      /\ \/ Awaited(r.msg)
         \/ r.msg = NoMessage /\ r.rest = queue /\ Empty(queue)
  BY <1>1, ReceiptFacts DEF Orderly
<1>4. CASE queue' = r.rest /\ pc' = "idle" /\ UNCHANGED <<st, id, ppid, subs>>
  BY <1>1, <1>3, <1>4, SayStep
<1>5. ~IsExists(r, cmd.id) => r.rest = queue /\ Empty(queue)
  BY <1>1, <1>3, IsExistsFacts
<1>6. CASE /\ ~IsExists(r, cmd.id) /\ cmd.parent # Root
           /\ Send(r.rest, CreateMsg(cmd.parent, cmd.id))
           /\ pc' = "create" /\ UNCHANGED <<st, id, ppid, subs>>
  <2> DEFINE n == CreateMsg(cmd.parent, cmd.id)
  <2>1. cmd.parent \in Ids /\ cmd.parent \in Int
    BY <1>1, <1>6, Numbers
  <2>2. n \in Message /\ Task(n) /\ n.to = cmd.parent /\ n.type = "create" /\ n.val = cmd.id
        /\ Send(r.rest, n)
    BY <1>1, <1>6, <2>1, MessageTypes, TreeMessages DEF CreateMsg, Down, Task
  <2>3. n = Question'
    BY <1>1, <1>6 DEF Question
  <2>4. NewId'
    <3>1. \A u \in Pids : st[u] = "up" /\ id[u] = cmd.parent => Vacant(cmd.id)
      BY <1>1, <1>5, <1>6, QuietVacant, IdFacts
    <3> QED  BY <1>1, <1>6, <3>1 DEF NewId, Vacant, Live
  <2>5. Target' = cmd.parent /\ Joined
    BY <1>1, <1>6 DEF Target, Calm, AllJoined
  <2> HIDE DEF n
  <2> QED  BY <1>1, <1>3, <1>6, <2>1, <2>2, <2>3, <2>4, <2>5, AskStep
<1>7. CASE /\ ~IsExists(r, cmd.id) /\ cmd.parent = Root
           /\ Fork(Server, cmd.id) /\ queue' = r.rest /\ pc' = "idle"
  <2>1. Vacant(cmd.id) /\ queue' = queue
    BY <1>1, <1>5, <1>7, QuietVacant
  <2>2. PICK a \in Message : a.type \in Answers
    <3>1. PingAnswer(-1) \in UpMessage
      BY AnswerTypes, Numbers
    <3> QED  BY <3>1, TreeMessages DEF UpMessage
  <2>3. Clear(queue', id')
    BY <1>5, <1>7, <2>1 DEF Empty, Clear
  <2>4. Exchange' /\ ~Creating'
    BY <1>7, <2>3, Hushed
  <2>5. Home[cmd.id] = id[Server]
    BY <1>1, <1>7
  <2> QED  BY <1>1, <1>7, <2>1, <2>2, <2>4, <2>5, ForkStep DEF Orderly
<1> QED  BY <1>2, <1>4, <1>6, <1>7

\* The server, finding no answer, may end by an exception.
LEMMA CrashStep ==
  ASSUME IInv, IInv', Calm, Empty(queue), st[Server] = "up",
         st' = [st EXCEPT ![Server] = "crashed"], HangUp(queue, Server),
         UNCHANGED <<id, ppid, cmd>>, pc \in {"create", "exec"}, pc' = "idle"
  PROVE  Calm'
<1>0. NetTypeOK /\ Shape /\ Queues(queue) /\ Server \in Procs /\ Server \notin Pids
  BY CalmTypes, IdFacts DEF Calm
<1>1. Shape'
  BY <1>0, ShapeHangUp DEF Ends
<1>2. \A r \in Procs, d \in Endpoints : Waiting(queue', r, d) = {}
  BY <1>0, HangUpWaiting DEF Empty
<1>3. \A r \in Procs : r # Server => st'[r] = st[r]
  BY <1>0 DEF NetTypeOK
<1>4. st'[Server] = "crashed"
  BY <1>0 DEF NetTypeOK
<1>5. Exchange' /\ NewId' /\ AllJoined'
  <2>1. Clear(queue', id')
    BY <1>2 DEF Clear
  <2> QED  BY <2>1, Hushed
<1>6. OwnParent'
  <2>1. \A r \in Pids : r \in Procs /\ st'[r] = st[r]
    BY <1>0, <1>3, IdFacts
  <2>2. \A r \in Procs : Live(r)' => Live(r)
    BY <1>3, <1>4 DEF Live
  <2>3. OwnParent
    BY DEF Calm
  <2> QED  BY <2>1, <2>2, <2>3 DEF OwnParent
<1>7. Received'
  BY <1>2, NextReceived
<1>8. Placed'
  BY <1>2 DEF Placed
<1>9. TellsAll'
  <2> SUFFICES ASSUME NEW r \in Pids, st'[r] \in {"forked", "up"}, st'[ppid[r]] \in {"stopping", "gone"}
               PROVE  FALSE
    BY DEF TellsAll
  <2>1. r \in Procs /\ st[r] \in {"forked", "up"}
    BY <1>0, <1>3, IdFacts
  <2>2. ppid[r] \in Procs
    BY <2>1 DEF Calm, Shape, Family
  <2>3. st[ppid[r]] \in {"stopping", "gone"}
    BY <1>3, <1>4, <2>2
  <2> QED  BY <2>1, <2>3 DEF Calm, TellsAll, Empty
<1>10. OnlyDoomed'
  BY DEF OnlyDoomed
<1> QED  BY <1>1, <1>5, <1>6, <1>7, <1>8, <1>9, <1>10 DEF Calm

LEMMA DoneStep ==
  ASSUME IInv, IInv', Calm, Orderly, CreateDone \/ ExecDone
  PROVE  Calm'
<1>1. pc \in {"create", "exec"} /\ st[Server] = "up" /\ UNCHANGED <<id, ppid, cmd>>
  BY DEF CreateDone, ExecDone
<1>2. PICK r \in Receipts :
        \/ queue' = r.rest /\ pc' = "idle" /\ UNCHANGED <<st, subs, peer>>
        \/ /\ r.msg.type # (IF pc = "create" THEN "create_answer" ELSE "exec_answer")
           /\ pc' = "idle" /\ st' = [st EXCEPT ![Server] = "crashed"] /\ HangUp(r.rest, Server)
  <2>1. CASE CreateDone
    BY <2>1 DEF CreateDone, DecodeGarbage, Say
  <2>2. CASE ExecDone
    BY <2>2 DEF ExecDone, DecodeGarbage, Say
  <2> QED  BY <2>1, <2>2
<1>3. /\ Queues(r.rest) /\ Clear(r.rest, id)
      /\ \A x \in Procs, d \in Endpoints :
           /\ Waiting(r.rest, x, d) \subseteq Waiting(queue, x, d)
           /\ x # Server => Waiting(r.rest, x, d) = Waiting(queue, x, d)
      /\ \/ Awaited(r.msg)
         \/ r.msg = NoMessage /\ r.rest = queue /\ Empty(queue)
  BY <1>1, ReceiptFacts DEF Orderly
<1>4. CASE queue' = r.rest /\ pc' = "idle" /\ UNCHANGED <<st, subs, peer>>
  BY <1>1, <1>3, <1>4, SayStep
<1>5. CASE /\ r.msg.type # (IF pc = "create" THEN "create_answer" ELSE "exec_answer")
           /\ pc' = "idle" /\ st' = [st EXCEPT ![Server] = "crashed"] /\ HangUp(r.rest, Server)
  <2>1. ~Awaited(r.msg)
    BY <1>1, <1>5 DEF Awaited
  <2> QED  BY <1>1, <1>3, <1>5, <2>1, CrashStep
<1> QED  BY <1>2, <1>4, <1>5

-----------------------------------------------------------------------------------
\* The invariant.
LEMMA InitCalm ==
  ASSUME Init PROVE Calm
<1> USE DEF Init, NetInit
<1>1. /\ \A p \in Pids : st[p] = "free" /\ ppid[p] = None
      /\ \A p \in Procs : subs[p] = {}
      /\ \A p \in Procs, e \in Endpoints : peer[p][e] = None /\ queue[p][e] = <<>>
      /\ st[Server] = "up"
  BY IdFacts
<1>2. \A p \in Procs, e \in Endpoints : Waiting(queue, p, e) = {} /\ Len(queue[p][e]) = 0
  BY <1>1 DEF Waiting
<1>3. Shape
  BY <1>1, IdFacts DEF Shape, Family, Anchored, Distinct, Subscribed, Linked, Live, Open
<1>4. OneCharge /\ Current
  BY <1>2 DEF OneCharge, Once, Current
<1>5. OwnParent /\ Received /\ Placed /\ TellsAll
  BY <1>1, <1>2, IdFacts DEF OwnParent, Received, Placed, TellsAll, Live
<1> QED  BY <1>3, <1>4, <1>5 DEF Calm, OnlyDoomed, Exchange, Delivered, AllJoined, NewId, Creating

LEMMA StutterStep ==
  ASSUME Calm, UNCHANGED vars PROVE Calm'
<1>1. UNCHANGED <<st, id, ppid, subs, peer, queue, pc, cmd>>
  BY DEF vars, net, server
<1>2. Shape'
  BY <1>1, ShapeSame DEF Calm
<1>3. OwnParent' /\ Received' /\ Placed' /\ TellsAll' /\ OnlyDoomed'
  BY <1>1 DEF Calm, OwnParent, Received, Placed, TellsAll, OnlyDoomed, Live
<1>4. Target' = Target /\ Question' = Question /\ (Joined' <=> Joined) /\ \A x : Awaited(x)' <=> Awaited(x)
  BY <1>1 DEF Target, Question, Joined, Bound, Open, Awaited
<1>5. (Pending' <=> Pending) /\ (Creating' <=> Creating) /\ (Present(Target)' <=> Present(Target))
  BY <1>1, <1>4 DEF Pending, Creating, Present, Reachable
<1>6. OneCharge' /\ Current'
  BY <1>1, <1>4 DEF Calm, Exchange, OneCharge, Current
<1>7. Delivered' /\ AllJoined' /\ NewId'
  BY <1>1, <1>4, <1>5 DEF Calm, Exchange, Delivered, AllJoined, NewId, Live
<1> QED  BY <1>2, <1>3, <1>6, <1>7 DEF Calm, Exchange

\* A stray is never forgotten.
LEMMA StraysKept ==
  ASSUME [Next]_vars PROVE strays \subseteq strays'
<1>1. CASE ReadCommand \/ Receive \/ AllGone \/ UNCHANGED vars
  BY <1>1 DEF ReadCommand, Receive, CheckParent, CheckChild, CreateDone, CheckDest, ExecDone,
              AllGone, vars, net
<1>2. ASSUME NEW p, Deinit(p) PROVE strays \subseteq strays'
  BY <1>2 DEF Deinit
<1>3. ASSUME NEW p, NEW e, NodeStep(p, e) PROVE strays' = strays
  <2> DEFINE m == Head(queue[p][e])
             q == Read(p, e)
  <2> HIDE DEF m, q
  <2>1. HandlePing(p, m, q) \/ HandleExec(p, m, q) \/ HandleCreate(p, m, q)
        \/ HandleRemove(p, m, q) \/ Forward(p, m, q)
    BY <1>3 DEF NodeStep, m, q
  <2> QED  BY <2>1 DEF HandlePing, HandleExec, HandleCreate, HandleRemove, Forward
<1> QED  BY <1>1, <1>2, <1>3 DEF Next, ServerStop, NodeNext, NodeInit, NodeStop, NodeSignal, NodeTerm,
                                 NodeKill, Kill, Link

LEMMA CalmStep ==
  ASSUME Orderly, IInv, IInv', TreeInv, [Next]_vars
  PROVE  TreeInv'
<1> SUFFICES ASSUME kills' = 0, strays' = {} PROVE Calm'
  BY DEF TreeInv
<1>0. kills \in Nat /\ typed \in Nat
  BY DEF IInv, TypeOK
<1>a. strays = {}
  BY StraysKept
<1>1. CASE \E p \in Pids : NodeKill(p)
  BY <1>0, <1>1 DEF NodeKill
<1>2. CASE ~\E p \in Pids : NodeKill(p)
  <2>1. kills' = kills
    BY <1>2 DEF Next, vars, server, ReadCommand, Receive, CheckParent, CheckChild, CreateDone,
                CheckDest, ExecDone, ServerStop, NodeSignal, AllGone
  <2>2. Calm
    BY <1>a, <2>1 DEF TreeInv
  <2>3. Server \in Procs /\ \A p \in Pids : p \in Procs
    BY IdFacts
  <2>a. ASSUME NEW p, Deinit(p) PROVE Unheard(p) = {}
    BY <2>a DEF Deinit
  <2>4. CASE ReadCommand
    BY <2>2, <2>4, ReadCommandStep
  <2>5. CASE Receive
    BY <2>2, <2>5, CheckParentStep, CheckChildStep, CheckDestStep, DoneStep DEF Receive
  <2>6. CASE ServerStop
    BY <2>2, <2>3, <2>6, <2>a, DeinitStep DEF ServerStop, server
  <2>7. ASSUME NEW p \in Pids, NodeNext(p) /\ UNCHANGED server PROVE Calm'
    BY <2>2, <2>7, NodeSteps
  <2>8. ASSUME NEW p \in Pids, NodeSignal(p) PROVE Calm'
    BY <2>2, <2>3, <2>8, <2>a, DeinitStep DEF NodeSignal, NodeTerm
  <2>9. ASSUME NEW q \in Procs, NEW e \in Endpoints, Link(q, e) /\ UNCHANGED server PROVE Calm'
    BY <2>2, <2>9, LinkStep
  <2>10. CASE UNCHANGED vars
    BY <2>2, <2>10, StutterStep
  <2> QED  BY <1>2, <2>4, <2>5, <2>6, <2>7, <2>8, <2>9, <2>10 DEF Next, AllGone
<1> QED  BY <1>1, <1>2

\* As long as nobody is killed with SIGKILL and nobody is left behind unconnected, processes,
\* connections and messages hang together as TreeInvariant says: one question under way, on its
\* way along the one path, and no node out of touch with its parent that has not been told to go.
THEOREM TreeInvariance ==
  ASSUME Orderly PROVE Spec => []TreeInv
<1>1. Init => TreeInv
  BY InitCalm DEF TreeInv
<1>2. IInv /\ IInv' /\ TreeInv /\ [Next]_vars => TreeInv'
  BY CalmStep
<1> QED  BY <1>1, <1>2, Invariance, PTL DEF Spec

\* handle_create's "Already exists": however creates, removes and signals follow each other,
\* no id is given to a second live process.
THEOREM NodesUnique ==
  ASSUME Orderly PROVE Spec => [](kills = 0 /\ strays = {} => UniqueIds)
<1>1. TreeInv /\ kills = 0 /\ strays = {} => UniqueIds
  BY DEF TreeInv, Calm, Shape, Distinct, UniqueIds, Live
<1> QED  BY <1>1, TreeInvariance, PTL

\* Although is_exists and receive_msg look at no type and read one message only, what waits
\* for the server is never anything but the one answer to the question it asked last.
THEOREM ExchangesInStep ==
  ASSUME Orderly PROVE Spec => [](kills = 0 /\ strays = {} => InStep)
<1>1. ASSUME IInv, Calm PROVE InStep
  <2> DEFINE full == {e \in Endpoints : queue[Server][e] # <<>>}
  <2>1. Queues(queue) /\ Server \in Procs /\ Server \notin Pids
    BY <1>1, CalmTypes, IdFacts
  <2>2. ASSUME NEW e \in full
        PROVE  /\ e \in Endpoints /\ queue[Server][e] \in Seq(UpMessage) /\ queue[Server][e] # <<>>
               /\ \A m \in Waiting(queue, Server, e) : Charged(id[Server], m) /\ Awaited(m)
    <3>1. e \in subs[Server]
      BY <1>1, <2>1 DEF Calm, Received
    <3>2. e[2] = "parent"
      BY <1>1, <2>1, <3>1 DEF Calm, Shape, Subscribed
    <3>3. queue[Server][e] \in Seq(UpMessage) /\ Waiting(queue, Server, e) \subseteq UpMessage
      <4>1. Carried(e[2]) = UpMessage
        BY <3>2 DEF Carried
      <4>2. queue[Server][e] \in Seq(Carried(e[2])) /\ Waiting(queue, Server, e) \subseteq Carried(e[2])
        BY <2>1, WaitingType DEF Queues
      <4> QED  BY <4>1, <4>2
    <3>4. \A m \in Waiting(queue, Server, e) : m.type \in Answers /\ Charged(id[Server], m)
      BY <3>3, TreeMessages DEF UpMessage
    <3>5. \A m \in Waiting(queue, Server, e) : Awaited(m)
      BY <1>1, <2>1, <3>4, QuestionFacts DEF Calm, Exchange, Current
    <3> QED  BY <3>3, <3>4, <3>5
  <2>3. ASSUME NEW e \in full
        PROVE  /\ Len(queue[Server][e]) = 1 /\ Awaited(Head(queue[Server][e]))
               /\ Head(queue[Server][e]) \in Waiting(queue, Server, e)
    <3> DEFINE s == queue[Server][e]
    <3>1. s \in Seq(UpMessage) /\ s # <<>>
      BY <2>2
    <3>2. Once(id[Server], s)
      BY <1>1, <2>1 DEF Calm, Exchange, OneCharge
    <3> HIDE DEF s
    <3>3. Len(s) \in Nat /\ Len(s) > 0 /\ Head(s) = s[1]
      BY <3>1
    <3>4. 1 \in 1 .. Len(s) /\ Len(s) \in 1 .. Len(s)
      BY <3>3
    <3>5. s[1] \in Waiting(queue, Server, e) /\ s[Len(s)] \in Waiting(queue, Server, e)
      BY <3>4 DEF Waiting, s
    <3>6. Len(s) = 1
      BY <2>2, <3>2, <3>4, <3>5 DEF Once
    <3> QED  BY <2>2, <3>3, <3>5, <3>6 DEF s
  <2>4. \A d, e \in full : d = e
    BY <1>1, <2>1, <2>2, <2>3 DEF Calm, Exchange, OneCharge
  <2>5. Cardinality(full) =< 1
    <3>1. CASE full = {}
      BY <3>1, FS_EmptySet
    <3>2. CASE full # {}
      <4>1. PICK e \in full : TRUE
        BY <3>2
      <4>2. full = {e}
        BY <2>4, <4>1
      <4>3. Cardinality({e}) = 1
        BY FS_Singleton
      <4> HIDE DEF full
      <4> QED  BY <4>2, <4>3
    <3> QED  BY <3>1, <3>2
  <2> QED  BY <2>3, <2>5 DEF InStep
<1>2. IInv /\ TreeInv => (kills = 0 /\ strays = {} => InStep)
  BY <1>1 DEF TreeInv
<1> QED  BY <1>2, TreeInvariance, Invariance, PTL

\* "Parent not found", "Not found" and a create are only ever answers to an id that no
\* process connected to the server through live ones carries.
THEOREM NeverDenied ==
  ASSUME Orderly PROVE Spec /\ [](kills = 0 /\ strays = {}) => NoFalseAbsence
<1> DEFINE A == /\ pc = "parent" /\ pc' = "idle" => ~Present(cmd.parent)
                /\ pc = "dest" /\ pc' = "idle" /\ out' = "not_found" => ~Present(cmd.id)
                /\ pc = "child" /\ (pc' = "create" \/ (pc' = "idle" /\ out' = "ok")) => ~Present(cmd.id)
<1>1. ASSUME IInv, Calm, [Next]_vars PROVE A
  <2>1. \/ pc' = pc
        \/ CheckParent \/ CheckChild \/ CheckDest
        \/ pc \notin {"parent", "dest", "child"}
    BY <1>1 DEF Next, vars, server, ReadCommand, Receive, CreateDone, ExecDone, ServerStop,
                NodeSignal, NodeKill, AllGone
  <2>2. ASSUME NEW r \in Receipts, ~IsExists(r, Target), st[Server] = "up",
               pc \in {"parent", "child", "dest"}
        PROVE  ~Present(Target)
    <3>1. \/ Awaited(r.msg)
          \/ r.msg = NoMessage /\ r.rest = queue /\ Empty(queue)
      BY <1>1, <2>2, ReceiptFacts DEF Orderly
    <3> QED  BY <1>1, <2>2, <3>1, IsExistsFacts, QuietAbsent
  <2>3. CASE CheckParent
    <3>1. pc = "parent" /\ st[Server] = "up" /\ Target = cmd.parent
      BY <2>3 DEF CheckParent, Target
    <3>2. pc' = "idle" => \E r \in Receipts : ~IsExists(r, Target)
      BY <2>3, <3>1 DEF CheckParent
    <3> QED  BY <2>2, <3>1, <3>2
  <2>4. CASE CheckChild
    <3>1. pc = "child" /\ st[Server] = "up" /\ Target = cmd.id
      BY <2>4 DEF CheckChild, Target
    <3>2. pc' = "create" \/ (pc' = "idle" /\ out' = "ok") => \E r \in Receipts : ~IsExists(r, Target)
      BY <2>4, <3>1 DEF CheckChild, Say
    <3> QED  BY <2>2, <3>1, <3>2
  <2>5. CASE CheckDest
    <3>1. pc = "dest" /\ st[Server] = "up" /\ Target = cmd.id
      BY <2>5 DEF CheckDest, Target
    <3>2. pc' = "idle" /\ out' = "not_found" => \E r \in Receipts : ~IsExists(r, Target)
      BY <2>5, <3>1 DEF CheckDest, Say
    <3> QED  BY <2>2, <3>1, <3>2
  <2> QED  BY <2>1, <2>3, <2>4, <2>5
<1>2. IInv /\ TreeInv /\ kills = 0 /\ strays = {} /\ [Next]_vars => [A]_vars
  BY <1>1 DEF TreeInv
<1> QED  BY <1>2, TreeInvariance, Invariance, PTL DEF Spec, NoFalseAbsence

-----------------------------------------------------------------------------------
(* What the answers say.  From here on nobody receives a signal, and until it ends  *)
(* the server can tell from an answer, and from the lack of one, what nodes live.   *)

\* While a command is under way every node that lives can be reached.
LEMMA StandingSound ==
  ASSUME IInv, Calm, Standing, st[Server] = "up", NEW p \in Pids, Live(p)
  PROVE  Sound(p) /\ (Joined => Reachable(p))
<1> DEFINE S == {r \in Pids : Live(r)}
<1>1. ASSUME NEW r \in S
      PROVE  st[r] \in {"forked", "up"} /\ ppid[r] \in S \cup {Server}
  <2>1. st[r] \in {"forked", "up"} /\ st[ppid[r]] = "up" /\ ppid[r] \in Procs
    BY DEF Standing, Live, Calm, Shape, Family
  <2> QED  BY <2>1, IdFacts DEF Live
<1>2. S \in SUBSET Pids /\ p \in S
  OBVIOUS
<1> HIDE DEF S
<1>3. Sound(p)
  BY <1>1, <1>2 DEF Sound
<1>4. Joined => Reachable(p)
  BY <1>1, <1>2 DEF Reachable, Joined
<1> QED  BY <1>3, <1>4

LEMMA LivesPresent ==
  ASSUME IInv, Calm, Standing, st[Server] = "up", Joined, NEW i, Lives(i)
  PROVE  Present(i)
BY StandingSound DEF Lives, Present

LEMMA SoundReach ==
  ASSUME NEW p \in Pids, Sound(p)
  PROVE  Live(p) /\ (Joined => Reachable(p))
<1>1. PICK S \in SUBSET Pids : p \in S /\ \A r \in S :
        st[r] \in {"forked", "up"} /\ ppid[r] \in S \cup {Server}
  BY DEF Sound
<1>2. Joined => \A r \in S : st[r] = "up"
  BY <1>1 DEF Joined
<1>3. Joined => Reachable(p)
  BY <1>1, <1>2 DEF Reachable
<1> QED  BY <1>1, <1>3 DEF Live

\* There is one charge: two messages that count are the same.
LEMMA LoneMessage ==
  ASSUME IInv, Calm, NEW r \in Procs, NEW s \in Procs, NEW d \in Endpoints, NEW e \in Endpoints,
         NEW x \in Waiting(queue, r, d), NEW y \in Waiting(queue, s, e),
         Charged(id[r], x), Charged(id[s], y)
  PROVE  x = y
<1>1. r = s /\ d = e /\ Once(id[r], queue[r][d])
  BY DEF Calm, Exchange, OneCharge
<1>2. PICK k \in 1 .. Len(queue[r][d]) : x = queue[r][d][k]
  BY DEF Waiting
<1>3. PICK l \in 1 .. Len(queue[r][d]) : y = queue[r][d][l]
  BY <1>1 DEF Waiting
<1> QED  BY <1>1, <1>2, <1>3 DEF Once

\* Where the directory has a node: it stays, and all above it.
LEMMA ToldForm ==
  ASSUME NEW p \in Pids
  PROVE  Told(p) <=> \/ Named(p)
                     \/ \E e \in Endpoints : \E m \in Waiting(queue, p, e) :
                          m.type = "remove" /\ m.to = Broadcast
BY DEF Told, Named, Names, Waiting

LEMMA StaysUp ==
  ASSUME NEW p \in Pids, Stays(p)
  PROVE  /\ st[p] \in {"forked", "up"} /\ ~Told(p) /\ Sound(p)
         /\ ppid[p] = Server \/ (ppid[p] \in Pids /\ Stays(ppid[p]))
<1>1. PICK S \in SUBSET Pids : p \in S /\ \A r \in S :
        st[r] \in {"forked", "up"} /\ ~Told(r) /\ ppid[r] \in S \cup {Server}
  BY DEF Stays
<1>2. \A r \in S : Stays(r)
  BY <1>1 DEF Stays
<1>3. Sound(p)
  BY <1>1 DEF Sound
<1> QED  BY <1>1, <1>2, <1>3

LEMMA StaysSame ==
  ASSUME UNCHANGED <<id, ppid>>,
         \A r \in Pids : st'[r] \in {"forked", "up"} => st[r] \in {"forked", "up"},
         \A r \in Pids : Stays(r) => st'[r] \in {"forked", "up"} /\ ~Told(r)',
         \A r \in Pids : Sound(r)' /\ Told(r) => Told(r)'
  PROVE  \A r \in Pids : Stays(r)' <=> Stays(r)
<1> TAKE p \in Pids
<1>1. ASSUME Stays(p) PROVE Stays(p)'
  <2>1. PICK S \in SUBSET Pids : p \in S /\ \A r \in S :
          st[r] \in {"forked", "up"} /\ ~Told(r) /\ ppid[r] \in S \cup {Server}
    BY <1>1 DEF Stays
  <2>2. \A r \in S : Stays(r)
    BY <2>1 DEF Stays
  <2> QED  BY <2>1, <2>2 DEF Stays
<1>2. ASSUME Stays(p)' PROVE Stays(p)
  <2>1. PICK S \in SUBSET Pids : p \in S /\ \A r \in S :
          st'[r] \in {"forked", "up"} /\ ~Told(r)' /\ ppid'[r] \in S \cup {Server}
    BY <1>2 DEF Stays
  <2>2. \A r \in S : Sound(r)'
    BY <2>1 DEF Sound
  <2> QED  BY <2>1, <2>2 DEF Stays
<1> QED  BY <1>1, <1>2

-----------------------------------------------------------------------------------
\* A node passes on a remove that is not for it, and otherwise removes stay where they are.
Relays(p) ==
  /\ UNCHANGED <<st, id, ppid>>
  /\ \A r \in Procs, d \in Endpoints : \A x \in Waiting(queue', r, d) : x.type = "remove" =>
       x \in Waiting(queue, r, d)
       \/ (x.to # Broadcast /\ \E e \in Endpoints : x \in Waiting(queue, p, e))
  /\ \A r \in Procs, d \in Endpoints : \A x \in Waiting(queue, r, d) : x.type = "remove" =>
       x \in Waiting(queue', r, d)
       \/ (r = p /\ x.to \notin {id[p], Broadcast}
             /\ \A s \in Procs, f \in Endpoints : Heard(p, "children", s, f) => x \in Waiting(queue', s, f))

\* Whether a node passes a remove on or leaves: a remove on its way to a node that is not
\* cut off gets on, and the nodes that stay are the same.
LEMMA RemoveGetsOn ==
  ASSUME IInv, Calm, RemoveFinds, Joined, st[Server] = "up", NEW p \in Pids, Live(p),
         Leaves(p) \/ Relays(p),
         NEW r \in Pids, Sound(r)', Named(r)
  PROVE  Ahead(r)'
<1>0. NetTypeOK /\ Shape /\ p \in Procs /\ \A q \in Pids : q \in Procs
  BY CalmTypes, IdFacts DEF Calm
<1>1. UNCHANGED <<id, ppid>> /\ \A q \in Pids : q # p => st'[q] = st[q]
  BY <1>0 DEF Leaves, Relays
<1>2. PICK S \in SUBSET Pids : r \in S /\ \A q \in S :
        st'[q] \in {"forked", "up"} /\ ppid'[q] \in S \cup {Server}
  BY DEF Sound
<1>3. \A q \in S : st[q] = "up" /\ ppid[q] \in S \cup {Server} /\ (q = p => ~Leaves(p))
  <2> TAKE q \in S
  <2>1. st'[q] = st[q] /\ (q = p => ~Leaves(p))
    BY <1>1, <1>2 DEF Leaves, Relays
  <2> QED  BY <1>1, <1>2, <2>1 DEF Joined
<1>4. Sound(r) /\ Reachable(r)
  BY <1>2, <1>3 DEF Sound, Reachable
<1>a. PICK q \in Pids, e \in Endpoints : \E m \in Waiting(queue, q, e) : Names(m, r) /\ Anc(id[q], id[r])
  BY <1>4 DEF RemoveFinds, Ahead
<1>5. PICK m \in Waiting(queue, q, e) : Names(m, r) /\ Anc(id[q], id[r])
  BY <1>a
<1>6. m.type = "remove" /\ m.to = id[r] /\ m.to = id'[r] /\ id'[q] = id[q] /\ id'[r] = id[r]
  BY <1>1, <1>5 DEF Names
<1>7. CASE m \in Waiting(queue', q, e)
  BY <1>1, <1>5, <1>6, <1>7 DEF Ahead, Names
<1>8. CASE m \notin Waiting(queue', q, e)
  <2>1. q = p
    BY <1>0, <1>6, <1>8 DEF Leaves, Relays
  <2>2. PICK s \in S : id[s] = id[p]
    BY <1>0, <1>2, <1>3, <1>5, <2>1, OnTheWayUp
  <2>3. s = p
    BY <1>0, <1>3, <2>2, OneLive DEF Live
  <2>4. /\ m.to # id[p]
        /\ \A u \in Procs, f \in Endpoints : Heard(p, "children", u, f) => m \in Waiting(queue', u, f)
    BY <1>0, <1>3, <1>6, <1>8, <2>1, <2>3 DEF Relays
  <2>5. PICK y \in Pids : Reachable(y) /\ ppid[y] = p /\ Anc(id[y], id[r])
    BY <1>0, <1>4, <1>5, <1>6, <2>1, <2>4, ReachNext
  <2>6. Open(y) /\ Open(p)
    BY <1>3, <2>3, <2>5, ReachUp DEF Open
  <2>7. Upward(y) \in Endpoints /\ peer[y][Upward(y)] = p
    BY <1>0, <2>5, <2>6, JoinedToParent
  <2>8. m \in Waiting(queue', y, Upward(y))
    BY <1>0, <2>4, <2>7 DEF Heard, Upward
  <2> QED  BY <1>1, <1>6, <2>5, <2>7, <2>8 DEF Ahead, Names
<1> QED  BY <1>7, <1>8

LEMMA SameStay ==
  ASSUME IInv, Calm, RemoveFinds, Joined, st[Server] = "up", NEW p \in Pids, Live(p),
         (Leaves(p) /\ ~Stays(p)) \/ Relays(p)
  PROVE  (\A r \in Pids : Stays(r)' <=> Stays(r)) /\ RemoveFinds'
<1>0. /\ NetTypeOK /\ Shape /\ p \in Procs /\ \A q \in Pids : q \in Procs
      /\ \A q \in Pids : st[q] # "free" => id[q] \in Ids /\ id[q] # Broadcast
  BY CalmTypes, IdFacts DEF Calm
<1>1. UNCHANGED <<id, ppid>> /\ \A q \in Pids : q # p => st'[q] = st[q]
  BY <1>0 DEF Leaves, Relays
<1>a. \A q \in Pids : st'[q] \in {"forked", "up"} => st[q] = st'[q] /\ (q = p => Relays(p))
  BY <1>1 DEF Leaves, Relays
<1>2. ASSUME NEW r \in Pids, st[r] # "free", Named(r)' PROVE Named(r)
  <2>0. PICK q \in Pids, e \in Endpoints : \E m \in Waiting(queue', q, e) : m.type = "remove" /\ m.to = id[r]
    BY <1>1, <1>2 DEF Named, Names
  <2>1. PICK m \in Waiting(queue', q, e) : m.type = "remove" /\ m.to = id[r]
    BY <2>0
  <2>2. m.to # Broadcast
    BY <1>0, <1>2, <2>1
  <2>3. \E u \in Pids, f \in Endpoints : m \in Waiting(queue, u, f)
    BY <1>0, <2>1, <2>2 DEF Leaves, Relays
  <2> QED  BY <2>1, <2>3 DEF Named, Names
<1>3. RemoveFinds'
  <2> SUFFICES ASSUME NEW r \in Pids, Sound(r)', Named(r)' PROVE Ahead(r)'
    BY DEF RemoveFinds
  <2>1. st'[r] \in {"forked", "up"}
    BY DEF Sound
  <2>2. Named(r)
    BY <1>2, <1>a, <2>1
  <2> QED  BY <2>2, RemoveGetsOn
<1>4. \A r \in Pids : st'[r] \in {"forked", "up"} => st[r] \in {"forked", "up"}
  BY <1>a
<1>5. ASSUME NEW r \in Pids, Stays(r) PROVE st'[r] \in {"forked", "up"} /\ ~Told(r)'
  <2>1. /\ st[r] \in {"forked", "up"} /\ ~Told(r) /\ st'[r] = st[r]
        /\ ppid[r] = Server \/ (ppid[r] \in Pids /\ Stays(ppid[r]))
    BY <1>1, <1>5, StaysUp DEF Relays
  <2>2. ~Named(r)'
    BY <1>2, <2>1, ToldForm
  <2>3. ASSUME NEW e \in Endpoints, NEW m \in Waiting(queue', r, e), m.type = "remove", m.to = Broadcast
        PROVE  FALSE
    <3>1. m \notin Waiting(queue, r, e)
      BY <2>1, <2>3, ToldForm
    <3>2. Leaves(p) /\ ~Stays(p) /\ Heard(p, "children", r, e)
      BY <1>0, <2>3, <3>1 DEF Leaves, Relays
    <3>3. id[ppid[r]] = id[p]
      BY <1>0, <3>2, HeardBelow DEF Heard
    <3>4. p = ppid[r]
      BY <1>0, <2>1, <3>3 DEF Calm, OwnParent, Live
    <3> QED  BY <2>1, <3>2, <3>4, IdFacts
  <2>4. Told(r)' <=> \/ Named(r)'
                     \/ \E e \in Endpoints : \E m \in Waiting(queue', r, e) :
                          m.type = "remove" /\ m.to = Broadcast
    BY DEF Told, Named, Names, Waiting
  <2> QED  BY <2>1, <2>2, <2>3, <2>4
<1>6. ASSUME NEW r \in Pids, Sound(r)', Told(r) PROVE Told(r)'
  <2>0. st'[r] \in {"forked", "up"}
    BY <1>6 DEF Sound
  <2>1. CASE Named(r)
    <3>1. Ahead(r)'
      BY <1>6, <2>1, RemoveGetsOn
    <3>2. Named(r)'
      BY <3>1 DEF Ahead, Named
    <3> QED  BY <3>2 DEF Told, Named, Names, Waiting
  <2>2. ASSUME NEW e \in Endpoints, NEW m \in Waiting(queue, r, e), m.type = "remove", m.to = Broadcast
        PROVE  Told(r)'
    <3>1. m \in Waiting(queue', r, e)
      BY <1>0, <1>a, <2>0, <2>2 DEF Leaves, Relays
    <3> QED  BY <2>2, <3>1 DEF Told, Waiting
  <2> QED  BY <1>6, <2>1, <2>2, ToldForm
<1> QED  BY <1>1, <1>3, <1>4, <1>5, <1>6, StaysSame

-----------------------------------------------------------------------------------
\* What is known of the answers, in one word, and the nodes of the directory.
Truths  == Steady /\ Known /\ Truthful /\ RemoveFinds
Kept(i) == \E p \in Pids : id[p] = i /\ Stays(p)

LEMMA IdleTruths ==
  ASSUME IInv, Calm, pc = "idle", RemoveFinds
  PROVE  Truths
<1>1. \A r \in Procs, e \in Endpoints : \A m \in Waiting(queue, r, e) : m.type \notin Answers
  BY TreeMessages DEF Calm, Exchange, Current
<1>2. Truthful
  BY <1>1 DEF Truthful, Answers
<1> QED  BY <1>2 DEF Truths, Steady, Known

LEMMA BusyTruths ==
  ASSUME Standing, Known, Truthful
  PROVE  Truths
<1>1. RemoveFinds
  BY DEF RemoveFinds, Named, Names, Standing
<1> QED  BY <1>1 DEF Truths, Steady

\* Where nobody ends, the directory has the nodes that live.
LEMMA StandingKept ==
  ASSUME IInv, Calm, Standing, st[Server] = "up"
  PROVE  \A i : Kept(i) <=> Lives(i)
<1>1. \A r \in Pids : ~Told(r)
  BY ToldForm DEF Named, Names, Standing
<1>2. ASSUME NEW p \in Pids, Live(p) PROVE Stays(p)
  BY <1>1, <1>2, StandingSound DEF Sound, Stays
<1>3. ASSUME NEW p \in Pids, Stays(p) PROVE Live(p)
  BY <1>3, StaysUp DEF Live
<1> QED  BY <1>2, <1>3 DEF Kept, Lives

\* The directory is what the homes of the nodes that stay make it.
LEMMA TreeForm ==
  ASSUME IInv, Calm, Running
  PROVE  Tree = [i \in Ids |-> IF Kept(i) THEN Home[i] ELSE None]
<1> SUFFICES ASSUME NEW i \in Ids, Kept(i)
             PROVE  id[ppid[CHOOSE p \in Pids : id[p] = i /\ Stays(p)]] = Home[i]
  BY DEF Tree, Kept
<1>1. PICK p \in Pids : id[p] = i /\ Stays(p) /\ p = CHOOSE x \in Pids : id[x] = i /\ Stays(x)
  BY DEF Kept
<1>2. st[p] # "free"
  BY <1>1, StaysUp
<1> QED  BY <1>1, <1>2 DEF Calm, Shape, Family

-----------------------------------------------------------------------------------
\* A create that waits with the parent it names stands alone, and its child does not live.
LEMMA CreateCharge ==
  ASSUME IInv, Calm, NEW p \in Pids, st[p] = "up", NEW e \in Endpoints,
         NEW m \in Waiting(queue, p, e), m.type = "create", m.to = id[p]
  PROVE  /\ pc = "create" /\ m.val = cmd.id /\ id[p] = cmd.parent /\ ~Lives(cmd.id)
         /\ \A r \in Procs, d \in Endpoints : \A x \in Waiting(queue, r, d) : x.type \notin Answers
<1>0. p \in Procs /\ id[p] \in Ids /\ p # Server
  BY CalmTypes, IdFacts
<1>1. Charged(id[p], m) /\ Task(m)
  BY <1>0, AncSelf, TreeMessages DEF Task
<1>2. pc # "idle" /\ m = Question
  BY <1>0, <1>1, QuestionFacts, TreeMessages DEF Calm, Exchange, Current
<1>3. pc = "create" /\ m = CreateMsg(cmd.parent, cmd.id)
  BY <1>2, QuestionFacts DEF Question
<1>4. Creating /\ m.val = cmd.id /\ m.to = cmd.parent
  BY <1>0, <1>1, <1>2, <1>3 DEF Creating, CreateMsg, Down
<1>5. ~Lives(cmd.id)
  BY <1>4 DEF Calm, NewId, Lives
<1>6. \A r \in Procs, d \in Endpoints : \A x \in Waiting(queue, r, d) : x.type \notin Answers
  BY <1>0, <1>1, LoneMessage, TreeMessages
<1> QED  BY <1>3, <1>4, <1>5, <1>6

\* A step that leaves messages, ids and the server alone, and nobody less alive.
LEMMA QuietTruths ==
  ASSUME IInv, Truths, UNCHANGED <<id, ppid, queue, pc, cmd>>,
         \A r \in Procs : (Live(r)' <=> Live(r)) /\ (st[r] = "up" => st'[r] = "up")
                          /\ (st'[r] = "stopping" <=> st[r] = "stopping"),
         \A r \in Pids : st[r] # "free" => ppid[r] \in Procs
  PROVE  Truths' /\ \A i : Kept(i)' <=> Kept(i)
<1>0. Pids \subseteq Procs
  BY IdFacts
<1>1. \A r \in Pids : st'[r] \in {"forked", "up"} <=> st[r] \in {"forked", "up"}
  BY <1>0 DEF Live
<1>2. \A r \in Pids : (Told(r)' <=> Told(r)) /\ (Sound(r)' <=> Sound(r)) /\ (Stays(r)' <=> Stays(r))
  BY <1>1 DEF Told, Sound, Stays
<1>3. \A i : (Kept(i)' <=> Kept(i)) /\ (Lives(i)' <=> Lives(i))
  BY <1>0, <1>2 DEF Kept, Lives
<1>4. Steady'
  BY <1>0 DEF Truths, Steady, Standing, Live
<1>5. Known' /\ Truthful'
  BY <1>3 DEF Truths, Known, Truthful, Pending
<1>6. RemoveFinds'
  BY <1>2 DEF Truths, RemoveFinds, Named, Ahead, Names
<1> QED  BY <1>3, <1>4, <1>5, <1>6 DEF Truths

LEMMA InitTruths ==
  ASSUME IInv, Calm, Truths, NEW p \in Pids, NodeInit(p), UNCHANGED server
  PROVE  Truths' /\ \A i : Kept(i)' <=> Kept(i)
<1>0. NetTypeOK /\ p \in Procs
  BY CalmTypes, IdFacts
<1>1. /\ st[p] = "forked" /\ UNCHANGED <<id, ppid, queue, pc, cmd>>
      /\ \A r \in Procs : st'[r] = IF r = p THEN "up" ELSE st[r]
  BY <1>0 DEF NodeInit, server, NetTypeOK
<1>2. \A r \in Procs : (Live(r)' <=> Live(r)) /\ (st[r] = "up" => st'[r] = "up")
                       /\ (st'[r] = "stopping" <=> st[r] = "stopping")
  BY <1>1 DEF Live
<1>3. \A r \in Pids : st[r] # "free" => ppid[r] \in Procs
  BY DEF Calm, Shape, Family
<1> QED  BY <1>1, <1>2, <1>3, QuietTruths

LEMMA SameTruths ==
  ASSUME IInv, Calm, Truths, UNCHANGED <<st, id, ppid, queue, pc, cmd>>
  PROVE  Truths' /\ \A i : Kept(i)' <=> Kept(i)
<1>1. \A r \in Procs : (Live(r)' <=> Live(r)) /\ (st[r] = "up" => st'[r] = "up")
                       /\ (st'[r] = "stopping" <=> st[r] = "stopping")
  BY DEF Live
<1>2. \A r \in Pids : st[r] # "free" => ppid[r] \in Procs
  BY DEF Calm, Shape, Family
<1> QED  BY <1>1, <1>2, QuietTruths

\* A node that leaves was told to, between two commands.
LEMMA LeaveTruths ==
  ASSUME IInv, IInv', Calm, Calm', Truths, Joined, st[Server] = "up", UNCHANGED pc,
         NEW p \in Pids, Live(p), Leaves(p), Told(p) \/ st[p] = "stopping"
  PROVE  Truths' /\ \A i : Kept(i)' <=> Kept(i)
<1>1. ~Stays(p)
  BY StaysUp
<1>2. RemoveFinds' /\ \A r \in Pids : Stays(r)' <=> Stays(r)
  BY <1>1, SameStay DEF Truths
<1>3. ~Standing
  BY ToldForm DEF Standing, Named, Names
<1>4. pc' = "idle"
  BY <1>3 DEF Truths, Steady
<1>a. (pc = "idle")'
  BY <1>4
<1>5. Truths'
  BY <1>2, <1>a, IdleTruths, PTL
<1>6. UNCHANGED id
  BY DEF Leaves
<1> QED  BY <1>2, <1>5, <1>6 DEF Kept

\* A node that answers or passes something on: what it answers is true.
LEMMA HandleTruths ==
  ASSUME IInv, IInv', Calm, OneHome, Joined, Truths, st[Server] = "up",
         NEW p \in Pids, st[p] = "up", NEW e \in Endpoints, queue[p][e] # <<>>,
         Handles(p, Head(queue[p][e]), Read(p, e)), UNCHANGED server
  PROVE  Truths' /\ \A i : Kept(i)' <=> Kept(i)
<1> DEFINE m == Head(queue[p][e])
           q == Read(p, e)
<1> HIDE DEF m, q
<1>0. p \in Procs /\ id[p] \in Ids /\ UNCHANGED <<pc, cmd>> /\ -1 \notin Ids
  BY CalmTypes, IdFacts DEF server, Root
<1>1. /\ UNCHANGED <<st, id, ppid, subs, peer>>
      /\ m \in Message /\ m \in Waiting(queue, p, e)
      /\ Task(m) \/ m.type \in Answers \cup {"remove"}
      /\ \/ m.to \notin {id[p], Broadcast} /\ queue' = Publish(q, p, SideOf(m), <<m>>)
         \/ \E a \in UpMessage : Replies(p, m, a) /\ queue' = Publish(q, p, "parent", <<a>>)
  BY MessageSent DEF m, q
<1>2. PICK n \in Message, side \in Sides :
        /\ queue' = Publish(q, p, side, <<n>>)
        /\ \/ n = m /\ m.to \notin {id[p], Broadcast} /\ (m.type = "remove" => side = "children")
           \/ n.type # "remove" /\ Replies(p, m, n)
  <2>1. m.type = "remove" => SideOf(m) = "children"
    BY <1>1 DEF Message, UpMessage, DownMessage, Answers, SideOf
  <2>2. SideOf(m) \in Sides /\ "parent" \in Sides
    BY DEF SideOf, Sides
  <2>3. \A a \in UpMessage : a \in Message /\ a.type # "remove"
    BY TreeMessages DEF UpMessage, Answers
  <2> QED  BY <1>1, <2>1, <2>2, <2>3
<1>3. /\ \A r \in Procs, d \in Endpoints : \A x \in Waiting(queue', r, d) :
           x \in Waiting(queue, r, d) \/ (x = n /\ peer[r][d] = p /\ d[2] = side)
      /\ \A r \in Procs, d \in Endpoints : \A x \in Waiting(queue, r, d) :
           x \in Waiting(queue', r, d) \/ (r = p /\ d = e /\ x = m)
      /\ \A r \in Procs, d \in Endpoints :
           peer[r][d] = p /\ d[2] = side => n \in Waiting(queue', r, d)
  BY <1>0, <1>2, PassedOn DEF m, q
<1>4. Relays(p)
  <2>1. Replies(p, m, n) => m.type # "remove"
    BY TreeMessages DEF Replies
  <2> QED  BY <1>1, <1>2, <1>3, <2>1 DEF Relays, Heard
<1>5. (\A r \in Pids : Stays(r)' <=> Stays(r)) /\ RemoveFinds'
  BY <1>4, SameStay DEF Truths, Live
<1>6. \A i : (Kept(i)' <=> Kept(i)) /\ (Lives(i)' <=> Lives(i))
  BY <1>1, <1>5 DEF Kept, Lives, Live
<1>7. Steady'
  BY <1>0, <1>1, <1>4, IdFacts DEF Truths, Steady, Standing, Relays, Live
<1>8. Known'
  <2>1. pc \in {"create", "exec"} => Lives(Target) /\ Pending /\ Standing
    BY DEF Truths, Known, Steady, Target
  <2>2. pc \in {"create", "exec"} => Pending'
    BY <2>1, LivesPresent, MessageStep
  <2> QED  BY <1>0, <1>6, <2>2 DEF Truths, Known
<1>9. Truthful'
  <2>1. /\ n.type = "ping_answer" => Lives(n.val)
        /\ n.type = "create_answer" => (n.val = -1 <=> ~Lives(cmd.id))
    <3>1. CASE n = m
      BY <1>0, <1>1, <3>1 DEF Truths, Truthful
    <3>2. CASE Replies(p, m, n) /\ m.type = "ping"
      <4>1. n.type = "ping_answer" /\ n.val = id[p]
        BY <3>2 DEF Replies, PingAnswer, Up
      <4> QED  BY <4>1 DEF Lives, Live
    <3>3. CASE Replies(p, m, n) /\ m.type = "exec"
      BY <3>3 DEF Replies
    <3>4. CASE Replies(p, m, n) /\ m.type = "create"
      <4>1. n.type = "create_answer" /\ n.val = -1 /\ m.to = id[p]
        BY <3>4 DEF Replies, CreateAnswer, Up
      <4>2. ~Lives(cmd.id)
        BY <1>1, <3>4, <4>1, CreateCharge
      <4> QED  BY <4>1, <4>2
    <3> QED  BY <1>2, <3>1, <3>2, <3>3, <3>4 DEF Replies
  <2> QED  BY <1>0, <1>3, <1>6, <2>1 DEF Truths, Truthful
<1> QED  BY <1>5, <1>6, <1>7, <1>8, <1>9 DEF Truths

\* A node that creates another one.
LEMMA ForkTruths ==
  ASSUME IInv, IInv', Calm, Calm', OneHome, Joined, Truths, st[Server] = "up",
         NEW p \in Pids, st[p] = "up", NEW e \in Endpoints, queue[p][e] # <<>>,
         Head(queue[p][e]).type = "create", Addressed(p, Head(queue[p][e])),
         Fork(p, Head(queue[p][e]).val),
         queue' = Answer(Read(p, e), p, Head(queue[p][e]), CreateAnswer(FreshPid)),
         UNCHANGED <<peer, pc, cmd>>
  PROVE  /\ Truths' /\ Standing /\ pc = "create" /\ ~Kept(cmd.id) /\ Kept(cmd.parent)
         /\ \A i : Kept(i)' <=> Kept(i) \/ i = cmd.id
<1> DEFINE m == Head(queue[p][e])
           a == CreateAnswer(FreshPid)
<1>0. /\ p \in Procs /\ NetTypeOK /\ Shape /\ id[p] \in Ids /\ m \in Waiting(queue, p, e)
      /\ id[p] # Broadcast /\ Pids \subseteq Procs /\ Server \in Procs
  BY CalmTypes, ReadWaiting, IdFacts DEF Calm
<1>1. m.to = id[p]
  <2>1. m.to \in Ids
    BY <1>0 DEF Calm, Placed
  <2> QED  BY <2>1, IdFacts DEF Addressed
<1>2. /\ pc = "create" /\ m.val = cmd.id /\ id[p] = cmd.parent /\ ~Lives(cmd.id)
      /\ \A r \in Procs, d \in Endpoints : \A x \in Waiting(queue, r, d) : x.type \notin Answers
  BY <1>0, <1>1, CreateCharge
<1>3. Standing
  BY <1>2 DEF Truths, Steady
<1>4. PICK f \in Pids :
      /\ f = FreshPid /\ f \in Procs /\ f # p /\ f # Server /\ st[f] = "free" /\ st'[f] = "forked"
      /\ id'[f] = cmd.id /\ ppid'[f] = p
      /\ \A r \in Procs : r # f => st'[r] = st[r] /\ id'[r] = id[r] /\ ppid'[r] = ppid[r]
  BY <1>0, <1>2, FreshPidIsFree, IdFacts DEF Fork, NetTypeOK
<1>5. a \in Message /\ a.type = "create_answer" /\ a.val = f /\ f # -1
  <2>0. Pids \subseteq Nat
    BY PubSubAssumption
  <2>1. f \in Int /\ f # -1
    <3>1. f \in Nat
      BY <2>0
    <3> QED  BY <3>1
  <2>2. a \in UpMessage
    BY <1>4, <2>1, AnswerTypes
  <2> QED  BY <1>4, <2>1, <2>2, TreeMessages DEF CreateAnswer, Up
<1> HIDE DEF a, m
<1>6. queue' = Publish(Read(p, e), p, "parent", <<a>>)
  BY <1>1 DEF Answer, Onward, a, m
<1>7. \A r \in Procs, d \in Endpoints : \A x \in Waiting(queue', r, d) :
        x \in Waiting(queue, r, d) \/ x = a
  BY <1>0, <1>5, <1>6, PassedOn
<1>8. \A r \in Pids : st[r] # "free" => r # f /\ r \in Procs /\ ppid[r] \in Procs /\ ppid[r] # f
  BY <1>0, <1>4 DEF Shape, Family
<1>9. \A i : Lives(i)' <=> Lives(i) \/ i = cmd.id
  <2>1. \A r \in Pids : r # f => (Live(r)' <=> Live(r)) /\ id'[r] = id[r]
    BY <1>0, <1>4 DEF Live
  <2>2. Live(f)' /\ ~Live(f) /\ id'[f] = cmd.id /\ f \in Pids
    BY <1>4 DEF Live
  <2> QED  BY <2>1, <2>2 DEF Lives
<1>10. Standing'
  <2> SUFFICES ASSUME NEW r \in Pids
               PROVE  /\ st'[r] # "stopping"
                      /\ Live(r)' => st'[ppid'[r]] = "up"
                      /\ \A d \in Endpoints : \A x \in Waiting(queue', r, d) : x.type # "remove"
    BY DEF Standing
  <2>1. \A d \in Endpoints : \A x \in Waiting(queue', r, d) : x.type # "remove"
    BY <1>0, <1>3, <1>5, <1>7 DEF Standing
  <2>2. CASE r = f
    BY <1>0, <1>4, <2>1, <2>2
  <2>3. CASE r # f
    <3>1. st'[r] = st[r] /\ ppid'[r] = ppid[r]
      BY <1>0, <1>4, <2>3
    <3>2. Live(r)' => st'[ppid[r]] = st[ppid[r]] /\ Live(r)
      BY <1>4, <1>8, <3>1 DEF Live
    <3> QED  BY <1>3, <2>1, <3>1, <3>2 DEF Standing
  <2> QED  BY <2>2, <2>3
<1>11. Lives(cmd.parent) /\ Pending'
  <2>1. Lives(Target) /\ Target = cmd.parent
    BY <1>2 DEF Truths, Known, Target
  <2>2. Present(Target)
    BY <1>3, <2>1, LivesPresent
  <2> QED  BY <2>1, <2>2, CreateStep
<1>12. Known'
  BY <1>2, <1>9, <1>11 DEF Known
<1>13. Truthful'
  BY <1>2, <1>5, <1>7, <1>9 DEF Truthful, Answers
<1>14. Truths'
  BY <1>10, <1>12, <1>13, BusyTruths, PTL
<1>15. \A i : (Kept(i) <=> Lives(i)) /\ (Kept(i)' <=> Lives(i)')
  <2>1. (st[Server] = "up")'
    BY <1>0, <1>4
  <2>2. \A i : Kept(i) <=> Lives(i)
    BY <1>3, StandingKept
  <2>3. (\A i : Kept(i) <=> Lives(i))'
    BY <1>10, <2>1, StandingKept, PTL
  <2> QED  BY <2>2, <2>3
<1> QED  BY <1>2, <1>3, <1>9, <1>11, <1>14, <1>15

LEMMA NodeTruths ==
  ASSUME IInv, IInv', Calm, Calm', Orderly, Truths, Paused, strays' = {}, st[Server] = "up",
         NEW p \in Pids, NodeNext(p), UNCHANGED server
  PROVE  /\ Truths' /\ st'[Server] = "up"
         /\ \/ \A i : Kept(i)' <=> Kept(i)
            \/ /\ pc = "create" /\ ~Kept(cmd.id) /\ Kept(cmd.parent)
               /\ \A i : Kept(i)' <=> Kept(i) \/ i = cmd.id
<1>1. /\ (Ready => Joined) /\ OneHome /\ UNCHANGED <<pc, cmd>> /\ p \in Procs /\ p # Server
      /\ Server \in Procs /\ NetTypeOK
  BY CalmTypes, IdFacts DEF Ready, Orderly, server
<1>2. CASE NodeInit(p)
  BY <1>1, <1>2, InitTruths DEF NodeInit, NetTypeOK
<1>3. CASE NodeStop(p)
  <2>1. st[p] = "stopping" /\ Deinit(p) /\ Unheard(p) = {} /\ Joined
    BY <1>3 DEF NodeStop, Deinit, Paused
  <2>2. Leaves(p)
    BY <1>1, <2>1, DeinitStep
  <2> QED  BY <1>1, <2>1, <2>2, LeaveTruths DEF Live, Leaves
<1>4. ASSUME NEW e \in Endpoints, NodeStep(p, e)
      PROVE  /\ Truths' /\ st'[Server] = "up"
             /\ \/ \A i : Kept(i)' <=> Kept(i)
                \/ /\ pc = "create" /\ ~Kept(cmd.id) /\ Kept(cmd.parent)
                   /\ \A i : Kept(i)' <=> Kept(i) \/ i = cmd.id
  <2> DEFINE m == Head(queue[p][e])
             q == Read(p, e)
  <2>1. st[p] = "up" /\ Joined /\ queue[p][e] # <<>>
    BY <1>1, <1>4 DEF NodeStep
  <2> HIDE DEF m, q
  <2>2. \/ Addressed(p, m) /\ (HandlePing(p, m, q) \/ HandleExec(p, m, q)
                               \/ HandleCreate(p, m, q) \/ HandleRemove(p, m, q))
        \/ Forward(p, m, q)
    BY <1>4 DEF NodeStep, m, q
  <2>3. CASE Addressed(p, m) /\ HandleRemove(p, m, q)
    <3>1. Leaves(p)
      BY <2>1, <2>3, RemoveStep DEF m, q
    <3>2. m \in Waiting(queue, p, e) /\ m.type = "remove"
      BY <1>1, <2>1, <2>3, CalmTypes, ReadWaiting DEF m, HandleRemove
    <3>3. Told(p)
      BY <2>3, <3>2, ToldForm DEF Addressed, Named, Names
    <3> QED  BY <1>1, <2>1, <3>1, <3>3, LeaveTruths DEF Live, Leaves
  <2>4. CASE Addressed(p, m) /\ m.type = "create" /\ Fork(p, m.val) /\ UNCHANGED peer
             /\ queue' = Answer(q, p, m, CreateAnswer(FreshPid))
    <3>1. FreshPid # Server /\ st' = [st EXCEPT ![FreshPid] = "forked"]
      BY <2>4, FreshPidIsFree, IdFacts DEF Fork
    <3>2. st'[Server] = "up"
      BY <1>1, <3>1 DEF NetTypeOK
    <3> QED  BY <1>1, <2>1, <2>4, <3>2, ForkTruths DEF m, q
  <2>5. CASE Handles(p, m, q)
    <3>1. UNCHANGED st
      BY <2>5 DEF Handles, HandlePing, HandleExec, Forward
    <3> QED  BY <1>1, <2>1, <2>5, <3>1, HandleTruths DEF m, q
  <2>6. HandleCreate(p, m, q) =>
          \/ m.type = "create" /\ queue' = Answer(q, p, m, CreateAnswer(-1))
             /\ UNCHANGED <<st, id, ppid, subs, peer>>
          \/ m.type = "create" /\ Fork(p, m.val) /\ UNCHANGED peer
             /\ queue' = Answer(q, p, m, CreateAnswer(FreshPid))
    BY DEF HandleCreate
  <2> QED  BY <2>2, <2>3, <2>4, <2>5, <2>6 DEF Handles
<1> QED  BY <1>2, <1>3, <1>4 DEF NodeNext

-----------------------------------------------------------------------------------
\* What the server receives tells it which nodes live.
LEMMA ReceiptTruths ==
  ASSUME IInv, Calm, Orderly, Truths, st[Server] = "up", pc # "idle", NEW r \in Receipts
  PROVE  /\ Standing /\ Queues(r.rest)
         /\ \A x \in Procs, d \in Endpoints : \A m \in Waiting(r.rest, x, d) :
              m \in Waiting(queue, x, d) /\ m.type \notin Answers
         /\ pc \in {"parent", "child", "dest"} => (IsExists(r, Target) <=> Lives(Target))
         /\ pc \in {"create", "exec"} => Awaited(r.msg)
         /\ r.msg.type = "create_answer" => (r.msg.val = -1 <=> ~Lives(cmd.id))
<1>1. /\ Queues(r.rest) /\ Clear(r.rest, id)
      /\ \A x \in Procs, d \in Endpoints :
           /\ Waiting(r.rest, x, d) \subseteq Waiting(queue, x, d)
           /\ x # Server => Waiting(r.rest, x, d) = Waiting(queue, x, d)
      /\ \/ Awaited(r.msg) /\ \E d \in Endpoints : r.msg \in Waiting(queue, Server, d)
         \/ r.msg = NoMessage /\ r.rest = queue /\ Empty(queue)
  BY ReceiptFacts DEF Orderly
<1>2. Standing
  BY DEF Truths, Steady
<1>3. \A x \in Procs, d \in Endpoints : \A m \in Waiting(r.rest, x, d) : m.type \notin Answers
  BY <1>1, TreeMessages DEF Clear
<1>4. Server \in Procs /\ NoMessage.type = "none"
  BY IdFacts DEF NoMessage, Up
<1>5. ASSUME pc \in {"parent", "child", "dest"} PROVE IsExists(r, Target) <=> Lives(Target)
  <2>1. IsExists(r, Target) <=> Awaited(r.msg)
    BY <1>1, <1>5, IsExistsFacts
  <2>2. ASSUME Awaited(r.msg) PROVE Lives(Target)
    <3>1. r.msg = PingAnswer(Target)
      BY <1>5, <2>2 DEF Awaited, Target
    <3>2. r.msg.type = "ping_answer" /\ r.msg.val = Target
      BY <3>1 DEF PingAnswer, Up
    <3>3. ~Awaited(NoMessage)
      <4>1. \A i : PingAnswer(i).type = "ping_answer"
        BY DEF PingAnswer, Up
      <4> QED  BY <1>4, <1>5, <4>1 DEF Awaited
    <3> QED  BY <1>1, <1>4, <2>2, <3>2, <3>3 DEF Truths, Truthful
  <2>3. ASSUME Empty(queue), Lives(Target) PROVE FALSE
    <3>1. Joined
      BY <1>5 DEF Calm, AllJoined
    <3>2. Present(Target)
      BY <1>2, <2>3, <3>1, LivesPresent
    <3> QED  BY <1>5, <2>3, <3>2, QuietAbsent
  <2> QED  BY <1>1, <2>1, <2>2, <2>3
<1>6. ASSUME pc \in {"create", "exec"} PROVE Awaited(r.msg)
  <2>1. Pending
    BY <1>6 DEF Truths, Known
  <2> QED  BY <1>1, <2>1 DEF Pending, Empty
<1>7. r.msg.type = "create_answer" => (r.msg.val = -1 <=> ~Lives(cmd.id))
  BY <1>1, <1>4 DEF Truths, Truthful
<1> QED  BY <1>1, <1>2, <1>3, <1>5, <1>6, <1>7

\* The server reads and asks, or says something, and tells nobody to go.
LEMMA ServerTruths ==
  ASSUME IInv, IInv', Calm, Calm', Standing, st[Server] = "up", UNCHANGED <<st, id, ppid>>,
         \A x \in Procs, d \in Endpoints : \A m \in Waiting(queue', x, d) :
           (m \in Waiting(queue, x, d) /\ m.type \notin Answers) \/ Task(m),
         Known'
  PROVE  Truths' /\ \A i : (Kept(i) <=> Lives(i)) /\ (Kept(i)' <=> Kept(i))
<1>0. Pids \subseteq Procs
  BY IdFacts
<1>1. Standing'
  BY <1>0, TreeMessages DEF Standing, Live
<1>2. Truthful'
  BY TreeMessages DEF Truthful, Answers, Task
<1>3. Truths'
  BY <1>1, <1>2, BusyTruths, PTL
<1>4. \A i : Lives(i)' <=> Lives(i)
  BY DEF Lives, Live
<1>5. \A i : Kept(i) <=> Lives(i)
  BY StandingKept
<1>6. (st[Server] = "up")'
  OBVIOUS
<1>7. (\A i : Kept(i) <=> Lives(i))'
  BY <1>1, <1>6, StandingKept, PTL
<1> QED  BY <1>3, <1>4, <1>5, <1>7

\* What it sends is one message to the nodes it started.
LEMMA SentWaiting ==
  ASSUME NEW q, Queues(q), NEW n \in Message, Send(q, n)
  PROVE  /\ \A x \in Procs, d \in Endpoints : \A m \in Waiting(queue', x, d) :
              m \in Waiting(q, x, d) \/ m = n
         /\ \A x \in Procs, d \in Endpoints :
              peer[x][d] = Server /\ d[2] = "children" => n \in Waiting(queue', x, d)
<1>1. queue' = Publish(q, Server, "children", <<n>>)
  BY DEF Send
<1> QED  BY <1>1, PublishWaiting

\* When all is settled nobody ends.
LEMMA SettledStanding ==
  ASSUME IInv, Calm, Settled, st[Server] = "up"
  PROVE  Standing
<1>1. \A p \in Pids, e \in Endpoints : Waiting(queue, p, e) = {}
  BY CalmTypes, WaitingType, IdFacts DEF Settled, NodesQuiet
<1>2. ASSUME NEW p \in Pids, Live(p) PROVE st[ppid[p]] = "up"
  <2>1. /\ p \in Procs /\ ppid[p] \in Procs /\ st[ppid[p]] \notin {"free", "forked"}
        /\ st \in [Procs -> {"free", "forked", "up", "stopping", "gone", "killed", "crashed"}]
    BY <1>2, CalmTypes, IdFacts DEF Calm, Shape, Family, NetTypeOK, Live
  <2>2. st[ppid[p]] \notin {"stopping", "gone"}
    BY <1>1, <1>2, <2>1 DEF Calm, TellsAll, Settled, Live
  <2>3. ppid[p] \in Pids => st[ppid[p]] \notin {"killed", "crashed"}
    BY DEF Calm, Shape, Family
  <2> QED  BY <2>1, <2>2, <2>3, IdFacts
<1> QED  BY <1>1, <1>2 DEF Standing, Settled

-----------------------------------------------------------------------------------
\* The directory, as the nodes that stay make it.
LEMMA TreeHas ==
  ASSUME IInv, Calm, Running
  PROVE  \A i \in Ids : /\ Tree[i] # None <=> Kept(i)
                        /\ Kept(i) => Tree[i] = Home[i]
                        /\ ~Kept(i) => Tree[i] = None
BY TreeForm, HomeType, IdFacts

LEMMA TreeSame ==
  ASSUME IInv, IInv', Calm, Calm', Running, Running', \A i : Kept(i)' <=> Kept(i)
  PROVE  Tree' = Tree
<1>1. Tree = [i \in Ids |-> IF Kept(i) THEN Home[i] ELSE None]
  BY TreeForm
<1>2. (Tree = [i \in Ids |-> IF Kept(i) THEN Home[i] ELSE None])'
  BY TreeForm, PTL
<1> QED  BY <1>1, <1>2

LEMMA TreeGrows ==
  ASSUME IInv, IInv', Calm, Calm', Running, Running', NEW c \in Ids, \A i : Kept(i)' <=> Kept(i) \/ i = c
  PROVE  Tree' = [Tree EXCEPT ![c] = Home[c]]
<1>1. Tree = [i \in Ids |-> IF Kept(i) THEN Home[i] ELSE None]
  BY TreeForm
<1>2. (Tree = [i \in Ids |-> IF Kept(i) THEN Home[i] ELSE None])'
  BY TreeForm, PTL
<1> QED  BY <1>1, <1>2

\* What lies below a node in the directory are the nodes it is above of.
LEMMA SubtreeForm ==
  ASSUME IInv, Calm, Running, NEW c \in Ids, NEW j \in Ids, Kept(j)
  PROVE  j \in Directory!Subtree(c) <=> Anc(c, j)
<1>1. ASSUME NEW i \in Ids, Kept(i), Home[i] \in Ids PROVE Kept(Home[i])
  <2>1. PICK p \in Pids : id[p] = i /\ Stays(p)
    BY <1>1 DEF Kept
  <2>2. st[p] # "free" /\ (ppid[p] = Server \/ (ppid[p] \in Pids /\ Stays(ppid[p])))
    BY <2>1, StaysUp
  <2>3. id[ppid[p]] = Home[i] /\ id[Server] \notin Ids
    BY <2>1, <2>2, CalmTypes, IdFacts DEF Calm, Shape, Family, NetTypeOK
  <2> QED  BY <1>1, <2>2, <2>3 DEF Kept
<1>2. ASSUME Anc(c, j), NEW S \in SUBSET Ids, c \in S, \A k \in Ids : Tree[k] \in S => k \in S
      PROVE  j \in S
  <2> DEFINE U == {i \in Ids : Kept(i) /\ i \notin S}
  <2>1. U \in SUBSET Ids /\ ClosedUp(U)
    BY <1>1, <1>2, TreeHas DEF ClosedUp
  <2>2. j \in U => c \in U
    BY <1>2, <2>1 DEF Anc
  <2> QED  BY <1>2, <2>2
<1>3. ASSUME \A S \in SUBSET Ids : (c \in S /\ \A k \in Ids : Tree[k] \in S => k \in S) => j \in S
      PROVE  Anc(c, j)
  <2> DEFINE S == {i \in Ids : Anc(c, i)}
  <2>1. ASSUME NEW k \in Ids, Tree[k] \in S PROVE k \in S
    <3>1. Tree[k] = Home[k] /\ Home[k] \in Ids
      BY <2>1, TreeHas, IdFacts
    <3>2. Anc(Home[k], k)
      BY <3>1, AncSelf, AncUp
    <3> QED  BY <2>1, <3>1, <3>2, AncTrans
  <2>2. S \in SUBSET Ids /\ c \in S
    BY AncSelf
  <2> HIDE DEF S
  <2>3. j \in S
    BY <1>3, <2>1, <2>2
  <2> QED  BY <2>3 DEF S
<1> QED  BY <1>2, <1>3 DEF Directory!Subtree

LEMMA TreePruned ==
  ASSUME IInv, IInv', Calm, Calm', Running, Running', NEW c \in Ids, \A i : Kept(i)' <=> Kept(i) /\ ~Anc(c, i)
  PROVE  Tree' = [j \in Ids |-> IF j \in Directory!Subtree(c) THEN None ELSE Tree[j]]
<1>1. Tree = [i \in Ids |-> IF Kept(i) THEN Home[i] ELSE None]
  BY TreeForm
<1>2. (Tree = [i \in Ids |-> IF Kept(i) THEN Home[i] ELSE None])'
  BY TreeForm, PTL
<1>3. ASSUME NEW j \in Ids
      PROVE  (IF Kept(j)' THEN Home[j] ELSE None) = IF j \in Directory!Subtree(c) THEN None ELSE Tree[j]
  BY <1>1, SubtreeForm
<1> QED  BY <1>2, <1>3

-----------------------------------------------------------------------------------
\* Each step of the server, and what it is in the directory.
DirStep == [Directory!DirNext]_(Directory!dvars)

LEMMA ReadTruths ==
  ASSUME IInv, IInv', Calm, Calm', Orderly, Truths, ReadCommand
  PROVE  Truths' /\ DirStep
<1>1. /\ Settled /\ pc = "idle" /\ UNCHANGED <<st, id, ppid, out>> /\ st[Server] = "up"
      /\ Queues(queue)
  BY CalmTypes DEF ReadCommand, Unhurried, Orderly
<1>2. typed + 1 \in DOMAIN Menu
  <2>1. typed \in Nat /\ typed < Len(Menu)
    BY DEF ReadCommand, IInv, TypeOK
  <2> QED  BY <2>1, MessageTreeAssumption
<1>3. PICK c \in Menu[typed + 1] :
        /\ cmd' = c
        /\ \/ /\ c.op = "create" /\ c.parent # Root
              /\ pc' = "parent" /\ AskNext(queue, c.parent)
           \/ /\ c.op = "create" /\ c.parent = Root
              /\ pc' = "child" /\ AskNext(queue, c.id)
           \/ /\ c.op # "create"
              /\ pc' = "dest" /\ AskNext(queue, c.id)
  BY DEF ReadCommand
<1>4. c \in Command /\ c.id \in Ids /\ (c.op = "create" => c.parent \in Ids \cup {Root})
  BY <1>2, MessageTreeAssumption DEF Command
<1>5. PICK i \in Ids : Send(queue, PingMsg(i))
  BY <1>3, <1>4 DEF AskNext
<1>6. PingMsg(i) \in Message /\ Task(PingMsg(i))
  BY MessageTypes, TreeMessages, Numbers DEF PingMsg, Down, Task
<1>7. Standing
  BY <1>1, SettledStanding
<1>8. \A x \in Procs, d \in Endpoints : \A m \in Waiting(queue', x, d) :
        (m \in Waiting(queue, x, d) /\ m.type \notin Answers) \/ Task(m)
  <2>1. \A x \in Procs, d \in Endpoints : \A m \in Waiting(queue, x, d) : m.type \notin Answers
    BY <1>1, TreeMessages DEF Calm, Exchange, Current
  <2> QED  BY <1>1, <1>5, <1>6, <2>1, SentWaiting
<1>9. Known'
  BY <1>3 DEF Known
<1>10. Truths' /\ \A j : Kept(j)' <=> Kept(j)
  BY <1>1, <1>7, <1>8, <1>9, ServerTruths
<1>11. Tree' = Tree /\ (Running' <=> Running) /\ Running' = Running
  BY <1>1, <1>10, TreeSame DEF Running
<1>12. Stage = "idle" /\ Stage' = "asked"
  BY <1>1, <1>3, <1>11 DEF Stage, Running
<1>13. c \in UNION {Menu[k] : k \in DOMAIN Menu}
  BY <1>2
<1>14. Directory!Ask(c)
  BY <1>1, <1>3, <1>11, <1>12 DEF Directory!Ask, Running
<1> QED  BY <1>10, <1>13, <1>14 DEF DirStep, Directory!DirNext

LEMMA ParentTruths ==
  ASSUME IInv, IInv', Calm, Calm', Orderly, Truths, CheckParent
  PROVE  Truths' /\ DirStep
<1>1. /\ pc = "parent" /\ st[Server] = "up" /\ UNCHANGED <<st, id, ppid, cmd>> /\ Target = cmd.parent
      /\ cmd.id \in Ids /\ cmd.id \in Int /\ cmd.op = "create" /\ cmd.parent \in Ids \cup {Root}
  BY CommandFacts DEF CheckParent, Target
<1>2. PICK r \in Receipts :
        \/ /\ IsExists(r, cmd.parent)
           /\ AskNext(r.rest, cmd.id) /\ pc' = "child" /\ UNCHANGED out
        \/ /\ ~IsExists(r, cmd.parent)
           /\ queue' = r.rest /\ Say("no_parent")
  BY DEF CheckParent
<1>3. /\ Standing /\ Queues(r.rest)
      /\ \A x \in Procs, d \in Endpoints : \A m \in Waiting(r.rest, x, d) :
           m \in Waiting(queue, x, d) /\ m.type \notin Answers
      /\ IsExists(r, cmd.parent) <=> Lives(cmd.parent)
  BY <1>1, ReceiptTruths
<1>4. PingMsg(cmd.id) \in Message /\ Task(PingMsg(cmd.id))
  BY <1>1, MessageTypes, TreeMessages DEF PingMsg, Down, Task
<1>5. \A x \in Procs, d \in Endpoints : \A m \in Waiting(queue', x, d) :
        (m \in Waiting(queue, x, d) /\ m.type \notin Answers) \/ Task(m)
  BY <1>2, <1>3, <1>4, SentWaiting DEF AskNext
<1>6. Known'
  <2>1. \A i : Lives(i)' <=> Lives(i)
    BY <1>1 DEF Lives, Live
  <2> QED  BY <1>1, <1>2, <1>3, <2>1 DEF Known, Say
<1>7. Truths' /\ \A i : (Kept(i) <=> Lives(i)) /\ (Kept(i)' <=> Kept(i))
  BY <1>1, <1>3, <1>5, <1>6, ServerTruths
<1>8. Tree' = Tree /\ Running' = Running /\ Running
  BY <1>1, <1>7, TreeSame DEF Running
<1>9. Stage = "asked"
  BY <1>1, <1>8 DEF Stage
<1>10. CASE pc' = "child" /\ UNCHANGED out
  <2>1. Stage' = "asked"
    BY <1>8, <1>10 DEF Stage
  <2> QED  BY <1>1, <1>7, <1>8, <1>9, <1>10, <2>1 DEF DirStep, Directory!dvars
<1>11. CASE ~IsExists(r, cmd.parent) /\ Say("no_parent")
  <2>1. Stage' = "idle" /\ out' = "no_parent"
    BY <1>11 DEF Stage, Say
  <2>2. cmd.parent # Root
    BY <1>1 DEF Truths, Known
  <2>3. ~Directory!Present(cmd.parent)
    BY <1>1, <1>3, <1>7, <1>8, <1>11, <2>2, TreeHas DEF Directory!Present
  <2> QED  BY <1>1, <1>7, <1>8, <1>9, <2>1, <2>2, <2>3
           DEF DirStep, Directory!DirNext, Directory!Refuse, Directory!Reply
<1> QED  BY <1>2, <1>10, <1>11

\* The server creates a node of its own.
LEMMA RootForkTruths ==
  ASSUME IInv, IInv', Calm, Calm', Standing, ~Lives(cmd.id), st[Server] = "up", pc = "child",
         Fork(Server, cmd.id), pc' = "idle", UNCHANGED cmd,
         \A x \in Procs, d \in Endpoints : \A m \in Waiting(queue', x, d) : m \in Waiting(queue, x, d)
  PROVE  /\ Truths' /\ st'[Server] = "up" /\ ~Kept(cmd.id)
         /\ \A i : Kept(i)' <=> Kept(i) \/ i = cmd.id
<1>0. NetTypeOK /\ Shape /\ Server \in Procs /\ Pids \subseteq Procs
  BY CalmTypes, IdFacts DEF Calm
<1>1. PICK f \in Pids :
        /\ f \in Procs /\ f # Server /\ st[f] = "free" /\ st'[f] = "forked"
        /\ id'[f] = cmd.id /\ ppid'[f] = Server
        /\ \A r \in Procs : r # f => st'[r] = st[r] /\ id'[r] = id[r] /\ ppid'[r] = ppid[r]
  BY <1>0, FreshPidIsFree, IdFacts DEF Fork, NetTypeOK
<1>2. \A r \in Pids : st[r] # "free" => r # f /\ r \in Procs /\ ppid[r] \in Procs /\ ppid[r] # f
  BY <1>0, <1>1 DEF Shape, Family
<1>3. \A i : Lives(i)' <=> Lives(i) \/ i = cmd.id
  <2>1. \A r \in Pids : r # f => (Live(r)' <=> Live(r)) /\ id'[r] = id[r]
    BY <1>0, <1>1 DEF Live
  <2>2. Live(f)' /\ ~Live(f) /\ id'[f] = cmd.id /\ f \in Pids
    BY <1>1 DEF Live
  <2> QED  BY <2>1, <2>2 DEF Lives
<1>4. Standing'
  <2> SUFFICES ASSUME NEW r \in Pids
               PROVE  /\ st'[r] # "stopping"
                      /\ Live(r)' => st'[ppid'[r]] = "up"
                      /\ \A d \in Endpoints : \A x \in Waiting(queue', r, d) : x.type # "remove"
    BY DEF Standing
  <2>1. \A d \in Endpoints : \A x \in Waiting(queue', r, d) : x.type # "remove"
    BY <1>0 DEF Standing
  <2>2. CASE r = f
    BY <1>0, <1>1, <2>1, <2>2
  <2>3. CASE r # f
    <3>1. st'[r] = st[r] /\ ppid'[r] = ppid[r]
      BY <1>0, <1>1, <2>3
    <3>2. Live(r)' => st'[ppid[r]] = st[ppid[r]] /\ Live(r)
      BY <1>1, <1>2, <3>1 DEF Live
    <3> QED  BY <2>1, <3>1, <3>2 DEF Standing
  <2> QED  BY <2>2, <2>3
<1>5. (pc = "idle")' /\ (st[Server] = "up")'
  BY <1>0, <1>1
<1>6. RemoveFinds'
  BY <1>4 DEF RemoveFinds, Named, Names, Standing
<1>7. Truths'
  BY <1>5, <1>6, IdleTruths, PTL
<1>8. \A i : Kept(i) <=> Lives(i)
  BY StandingKept
<1>9. (\A i : Kept(i) <=> Lives(i))'
  BY <1>4, <1>5, StandingKept, PTL
<1> QED  BY <1>3, <1>5, <1>7, <1>8, <1>9

LEMMA ChildTruths ==
  ASSUME IInv, IInv', Calm, Calm', Orderly, Truths, CheckChild
  PROVE  Truths' /\ DirStep /\ st'[Server] = "up"
<1>1. /\ pc = "child" /\ st[Server] = "up" /\ UNCHANGED cmd /\ Target = cmd.id
      /\ cmd.id \in Ids /\ cmd.op = "create" /\ cmd.parent = Home[cmd.id]
      /\ cmd.parent \in Ids \cup {Root}
  BY CommandFacts DEF CheckChild, Target
<1>2. PICK r \in Receipts :
       \/ /\ IsExists(r, cmd.id)
          /\ queue' = r.rest /\ Say("exists") /\ UNCHANGED <<st, id, ppid, subs>>
       \/ /\ ~IsExists(r, cmd.id) /\ cmd.parent # Root
          /\ Send(r.rest, CreateMsg(cmd.parent, cmd.id))
          /\ pc' = "create" /\ UNCHANGED <<out, st, id, ppid, subs>>
       \/ /\ ~IsExists(r, cmd.id) /\ cmd.parent = Root /\ ~CanFork
          /\ queue' = r.rest /\ Say("error") /\ UNCHANGED <<st, id, ppid, subs>>
       \/ /\ ~IsExists(r, cmd.id) /\ cmd.parent = Root
          /\ Fork(Server, cmd.id) /\ queue' = r.rest /\ Say("ok")
  BY DEF CheckChild
<1>3. /\ Standing /\ Queues(r.rest)
      /\ \A x \in Procs, d \in Endpoints : \A m \in Waiting(r.rest, x, d) :
           m \in Waiting(queue, x, d) /\ m.type \notin Answers
      /\ IsExists(r, cmd.id) <=> Lives(cmd.id)
  BY <1>1, ReceiptTruths
<1>4. /\ Running /\ Stage = "asked" /\ (cmd.parent = Root \/ Directory!Present(cmd.parent))
      /\ Directory!Present(cmd.id) <=> Lives(cmd.id)
      /\ \A i : Kept(i) <=> Lives(i)
  <2>1. Running /\ Stage = "asked"
    BY <1>1 DEF Stage, Running
  <2>2. \A i : Kept(i) <=> Lives(i)
    BY <1>1, <1>3, StandingKept
  <2>3. cmd.parent = Root \/ Lives(cmd.parent)
    BY <1>1 DEF Truths, Known
  <2> QED  BY <1>1, <2>1, <2>2, <2>3, TreeHas DEF Directory!Present
<1>5. CASE queue' = r.rest /\ pc' = "idle" /\ UNCHANGED <<st, id, ppid>>
           /\ \/ out' = "exists" /\ IsExists(r, cmd.id)
              \/ out' = "error" /\ ~IsExists(r, cmd.id) /\ cmd.parent = Root
  <2>1. Known'
    BY <1>5 DEF Known
  <2>2. Truths' /\ \A i : Kept(i)' <=> Kept(i)
    BY <1>1, <1>3, <1>5, <2>1, ServerTruths
  <2>3. Tree' = Tree /\ Running' = Running /\ st'[Server] = "up"
    BY <1>1, <1>5, <2>2, TreeSame DEF Running
  <2>4. Stage' = "idle"
    BY <1>5 DEF Stage
  <2>5. Directory!Refuse(cmd) \/ Directory!Fail(cmd)
    BY <1>1, <1>3, <1>4, <1>5, <2>3, <2>4
    DEF Directory!Refuse, Directory!Fail, Directory!MayCreate, Directory!Reply
  <2> QED  BY <2>2, <2>3, <2>5 DEF DirStep, Directory!DirNext
<1>6. CASE /\ ~IsExists(r, cmd.id) /\ cmd.parent # Root
           /\ Send(r.rest, CreateMsg(cmd.parent, cmd.id))
           /\ pc' = "create" /\ UNCHANGED <<out, st, id, ppid>>
  <2> DEFINE n == CreateMsg(cmd.parent, cmd.id)
  <2>1. cmd.parent \in Ids /\ cmd.parent \in Int
    BY <1>1, <1>6, Numbers
  <2>2. n \in Message /\ Task(n) /\ Send(r.rest, n)
    BY <1>1, <1>6, <2>1, MessageTypes, TreeMessages DEF CreateMsg, Down, Task
  <2> HIDE DEF n
  <2>3. Lives(cmd.parent) /\ (\A i : Lives(i)' <=> Lives(i)) /\ Joined
    BY <1>1, <1>6 DEF Truths, Known, Lives, Live, Calm, AllJoined
  <2>4. Present(cmd.parent)'
    <3>1. Present(cmd.parent)
      BY <1>1, <1>3, <2>3, LivesPresent
    <3> QED  BY <1>1, <1>6, <3>1 DEF Present, Reachable
  <2>5. Pending'
    BY <1>6, <2>4, CheckChildStep
  <2>6. Known'
    BY <1>1, <1>6, <2>3, <2>5 DEF Known
  <2>7. \A x \in Procs, d \in Endpoints : \A m \in Waiting(queue', x, d) :
          (m \in Waiting(queue, x, d) /\ m.type \notin Answers) \/ Task(m)
    BY <1>3, <2>2, SentWaiting
  <2>8. Truths' /\ \A i : Kept(i)' <=> Kept(i)
    BY <1>1, <1>3, <1>6, <2>6, <2>7, ServerTruths
  <2>9. Tree' = Tree /\ Running' = Running /\ st'[Server] = "up"
    BY <1>1, <1>6, <2>8, TreeSame DEF Running
  <2>10. Stage' = "asked"
    BY <1>1, <1>3, <1>4, <1>6, <2>9, TreeHas DEF Stage
  <2> QED  BY <1>1, <1>4, <1>6, <2>8, <2>9, <2>10 DEF DirStep, Directory!dvars
<1>7. CASE /\ ~IsExists(r, cmd.id) /\ cmd.parent = Root
           /\ Fork(Server, cmd.id) /\ queue' = r.rest /\ Say("ok")
  <2>0. pc' = "idle" /\ out' = "ok"
    BY <1>7 DEF Say
  <2>1. /\ Truths' /\ st'[Server] = "up" /\ ~Kept(cmd.id)
        /\ \A i : Kept(i)' <=> Kept(i) \/ i = cmd.id
    BY <1>1, <1>3, <1>7, <2>0, RootForkTruths
  <2>2. Tree' = [Tree EXCEPT ![cmd.id] = cmd.parent]
    BY <1>1, <2>1, TreeGrows DEF Running
  <2>3. Running' = Running /\ Stage' = "idle"
    BY <1>4, <2>0, <2>1 DEF Running, Stage
  <2>4. Directory!Create(cmd)
    BY <1>1, <1>3, <1>4, <1>7, <2>0, <2>2, <2>3
    DEF Directory!Create, Directory!MayCreate, Directory!Grown, Directory!Reply
  <2> QED  BY <2>1, <2>4 DEF DirStep, Directory!DirNext
<1> QED  BY <1>2, <1>5, <1>6, <1>7 DEF Say

\* The second answer always comes.
LEMMA DoneTruths ==
  ASSUME IInv, IInv', Calm, Calm', Orderly, Truths, CreateDone \/ ExecDone
  PROVE  Truths' /\ DirStep /\ st'[Server] = "up"
<1>1. pc \in {"create", "exec"} /\ st[Server] = "up" /\ UNCHANGED <<id, ppid, cmd>>
  BY DEF CreateDone, ExecDone
<1>2. PICK r \in Receipts :
        \/ /\ pc = "create" /\ r.msg.type = "create_answer" /\ queue' = r.rest /\ UNCHANGED st
           /\ pc' = "idle" /\ out' = IF r.msg.val = -1 THEN "error" ELSE "ok"
        \/ /\ pc = "exec" /\ r.msg.type = "exec_answer" /\ queue' = r.rest /\ UNCHANGED st
           /\ pc' = "idle" /\ out' = "ok"
        \/ r.msg.type # (IF pc = "create" THEN "create_answer" ELSE "exec_answer")
  <2>1. CASE CreateDone
    BY <2>1 DEF CreateDone, Say
  <2>2. CASE ExecDone
    BY <2>2 DEF ExecDone, Say
  <2> QED  BY <2>1, <2>2
<1>3. /\ Standing /\ Queues(r.rest) /\ Awaited(r.msg)
      /\ \A x \in Procs, d \in Endpoints : \A m \in Waiting(r.rest, x, d) :
           m \in Waiting(queue, x, d) /\ m.type \notin Answers
      /\ r.msg.type = "create_answer" => (r.msg.val = -1 <=> ~Lives(cmd.id))
  BY <1>1, ReceiptTruths
<1>4. /\ queue' = r.rest /\ UNCHANGED st /\ pc' = "idle"
      /\ \/ /\ pc = "create" /\ out' = IF r.msg.val = -1 THEN "error" ELSE "ok"
            /\ r.msg.val = -1 <=> ~Lives(cmd.id)
         \/ pc = "exec" /\ out' = "ok"
  BY <1>1, <1>2, <1>3 DEF Awaited
<1>5. Known'
  BY <1>4 DEF Known
<1>6. Truths' /\ \A i : (Kept(i)' <=> Kept(i)) /\ (Kept(i) <=> Lives(i))
  BY <1>1, <1>3, <1>4, <1>5, ServerTruths
<1>7. Tree' = Tree /\ Running' = Running /\ st'[Server] = "up" /\ Running
  BY <1>1, <1>4, <1>6, TreeSame DEF Running
<1>8. Stage' = "idle"
  BY <1>4 DEF Stage
<1>9. cmd.id \in Ids /\ (pc = "create" => cmd.op = "create" /\ cmd.parent \in Ids \cup {Root})
  BY <1>1, CommandFacts
<1>10. Directory!Present(cmd.id) <=> Lives(cmd.id)
  BY <1>6, <1>7, <1>9, TreeHas DEF Directory!Present
<1>11. CASE pc = "exec" /\ out' = "ok"
  <2>1. Stage = "asked"
    BY <1>7, <1>11 DEF Stage
  <2>2. Lives(cmd.id) /\ cmd.op = "exec"
    BY <1>11 DEF Truths, Known
  <2> QED  BY <1>1, <1>4, <1>6, <1>7, <1>8, <1>10, <1>11, <2>1, <2>2
           DEF DirStep, Directory!DirNext, Directory!Hit, Directory!Reply
<1>12. CASE pc = "create" /\ ~Lives(cmd.id) /\ out' = "error"
  <2>1. Stage = "asked"
    BY <1>6, <1>7, <1>9, <1>12, TreeHas DEF Stage
  <2>2. cmd.parent = Root \/ Directory!Present(cmd.parent)
    BY <1>6, <1>7, <1>9, <1>12, TreeHas DEF Truths, Known, Directory!Present
  <2> QED  BY <1>1, <1>6, <1>7, <1>8, <1>9, <1>10, <1>12, <2>1, <2>2
           DEF DirStep, Directory!DirNext, Directory!Fail, Directory!MayCreate, Directory!Reply
<1>13. CASE pc = "create" /\ Lives(cmd.id) /\ out' = "ok"
  <2>1. Stage = "grown"
    BY <1>6, <1>7, <1>9, <1>13, TreeHas DEF Stage
  <2> QED  BY <1>1, <1>6, <1>7, <1>8, <1>13, <2>1
           DEF DirStep, Directory!DirNext, Directory!Announce, Directory!Reply
<1> QED  BY <1>4, <1>11, <1>12, <1>13

\* A remove is sent: of the nodes that stayed, those the removed one is not above of stay.
LEMMA RemoveTruths ==
  ASSUME IInv, IInv', Calm, Calm', Standing, Joined, Lives(cmd.id), st[Server] = "up",
         UNCHANGED <<st, id, ppid, peer, cmd>>, cmd.id \in Ids, pc' = "idle",
         NEW q, Queues(q), Send(q, RemoveMsg(cmd.id)),
         \A x \in Procs, d \in Endpoints : \A m \in Waiting(q, x, d) : m \in Waiting(queue, x, d)
  PROVE  Truths' /\ \A i : Kept(i)' <=> Kept(i) /\ ~Anc(cmd.id, i)
<1> DEFINE n == RemoveMsg(cmd.id)
<1>0. /\ NetTypeOK /\ Shape /\ Pids \subseteq Procs /\ Server \in Procs
      /\ \A r \in Pids : st[r] # "free" => id[r] \in Ids
  BY CalmTypes, IdFacts DEF Calm
<1>1. n \in Message /\ n.type = "remove" /\ n.to = cmd.id /\ n.to # Broadcast
  BY MessageTypes, TreeMessages, Numbers, IdFacts DEF RemoveMsg, Down
<1> HIDE DEF n
<1>2. /\ \A r \in Pids, d \in Endpoints : \A m \in Waiting(queue', r, d) :
           m.type = "remove" => m = n
      /\ \A x \in Procs, d \in Endpoints :
           peer[x][d] = Server /\ d[2] = "children" => n \in Waiting(queue', x, d)
  BY <1>0, <1>1, SentWaiting DEF Standing, n
<1>3. ASSUME NEW p \in Pids, Reachable(p), id[p] = cmd.id
      PROVE  \E y \in Pids, e \in Endpoints : n \in Waiting(queue', y, e) /\ Anc(id[y], id[p])
  <2>1. PICK y \in Pids : Reachable(y) /\ ppid[y] = Server /\ Anc(id[y], id[p])
    BY <1>0, <1>3, ReachTop
  <2>2. Open(y) /\ Open(ppid[y])
    BY <2>1, ReachUp DEF Open
  <2>3. Upward(y) \in Endpoints /\ peer[y][Upward(y)] = Server
    BY <1>0, <2>1, <2>2, JoinedToParent
  <2> QED  BY <1>0, <1>2, <2>1, <2>3 DEF Upward
<1>4. RemoveFinds'
  <2> SUFFICES ASSUME NEW p \in Pids, Sound(p)', Named(p)' PROVE Ahead(p)'
    BY DEF RemoveFinds
  <2>1. id[p] = cmd.id
    BY <1>1, <1>2 DEF Named, Names
  <2>2. Reachable(p)
    BY SoundReach DEF Sound
  <2> QED  BY <1>1, <1>3, <2>1, <2>2 DEF Ahead, Names
<1>5. Truths'
  <2>1. (pc = "idle")'
    OBVIOUS
  <2> QED  BY <1>4, <2>1, IdleTruths, PTL
<1>6. \A r \in Pids : ~Told(r) /\ (Told(r)' <=> id[r] = cmd.id)
  <2> TAKE r \in Pids
  <2>1. ~Told(r)
    BY ToldForm DEF Named, Names, Standing
  <2>2. Told(r)' <=> \/ Named(r)'
                     \/ \E e \in Endpoints : \E m \in Waiting(queue', r, e) :
                          m.type = "remove" /\ m.to = Broadcast
    BY DEF Told, Named, Names, Waiting
  <2>3. Told(r)' => id[r] = cmd.id
    BY <1>1, <1>2, <2>2 DEF Named, Names
  <2>4. PICK p \in Pids : Live(p) /\ id[p] = cmd.id
    BY DEF Lives
  <2>5. Reachable(p)
    BY <2>4, StandingSound
  <2>6. id[r] = cmd.id => Named(r)'
    BY <1>1, <1>3, <2>4, <2>5 DEF Named, Names
  <2> QED  BY <2>1, <2>2, <2>3, <2>6
<1>7. ASSUME NEW p \in Pids, Stays(p)' PROVE Stays(p) /\ ~Anc(cmd.id, id[p])
  <2>1. PICK S \in SUBSET Pids : p \in S /\ \A r \in S :
          st[r] \in {"forked", "up"} /\ ~Told(r)' /\ ppid[r] \in S \cup {Server}
    BY <1>7 DEF Stays
  <2>2. Stays(p)
    BY <1>6, <2>1 DEF Stays
  <2>3. \A r \in S : st[r] = "up" /\ id[r] # cmd.id
    BY <1>6, <2>1 DEF Joined
  <2> QED  BY <1>0, <2>1, <2>2, <2>3, OnTheWayUp
<1>8. ASSUME NEW p \in Pids, Stays(p), ~Anc(cmd.id, id[p]) PROVE Stays(p)'
  <2> DEFINE S == {r \in Pids : Stays(r) /\ ~Anc(cmd.id, id[r])}
  <2>1. ASSUME NEW r \in S
        PROVE  st[r] \in {"forked", "up"} /\ ~Told(r)' /\ ppid[r] \in S \cup {Server}
    <3>1. st[r] \in {"forked", "up"} /\ (ppid[r] = Server \/ (ppid[r] \in Pids /\ Stays(ppid[r])))
      BY StaysUp
    <3>2. id[r] # cmd.id /\ id[r] \in Ids
      BY <1>0, <3>1, AncSelf
    <3>3. ASSUME ppid[r] \in Pids, Anc(cmd.id, id[ppid[r]]) PROVE FALSE
      <4>1. id[ppid[r]] = Home[id[r]] /\ Home[id[r]] \in Ids
        BY <1>0, <3>1, <3>3, AncIds DEF Shape, Family
      <4>2. Anc(Home[id[r]], id[r])
        BY <3>2, <4>1, AncSelf, AncUp
      <4> QED  BY <3>3, <4>1, <4>2, AncTrans
    <3> QED  BY <1>6, <3>1, <3>2, <3>3
  <2>2. S \in SUBSET Pids /\ p \in S
    BY <1>8
  <2> HIDE DEF S
  <2> QED  BY <2>1, <2>2 DEF Stays
<1> QED  BY <1>5, <1>7, <1>8 DEF Kept

LEMMA DestTruths ==
  ASSUME IInv, IInv', Calm, Calm', Orderly, Truths, CheckDest
  PROVE  Truths' /\ DirStep /\ st'[Server] = "up"
<1>1. /\ pc = "dest" /\ st[Server] = "up" /\ UNCHANGED <<st, id, ppid, peer, cmd>> /\ Target = cmd.id
      /\ cmd.id \in Ids /\ cmd.id \in Int /\ cmd.op # "create"
  BY CommandFacts DEF CheckDest, Target, Truths, Known
<1>2. PICK r \in Receipts :
       \/ ~IsExists(r, cmd.id) /\ queue' = r.rest /\ Say("not_found")
       \/ /\ IsExists(r, cmd.id)
          /\ \/ cmd.op = "ping" /\ queue' = r.rest /\ Say("ok")
             \/ cmd.op = "remove" /\ Send(r.rest, RemoveMsg(cmd.id)) /\ Say("ok")
             \/ /\ cmd.op = "exec" /\ Send(r.rest, ExecMsg(cmd.id))
                /\ pc' = "exec" /\ UNCHANGED out
  BY DEF CheckDest
<1>3. /\ Standing /\ Queues(r.rest)
      /\ \A x \in Procs, d \in Endpoints : \A m \in Waiting(r.rest, x, d) :
           m \in Waiting(queue, x, d) /\ m.type \notin Answers
      /\ IsExists(r, cmd.id) <=> Lives(cmd.id)
  BY <1>1, ReceiptTruths
<1>4. /\ Running /\ Stage = "asked" /\ Joined
      /\ Directory!Present(cmd.id) <=> Lives(cmd.id)
      /\ \A i : Kept(i) <=> Lives(i)
      /\ Running' = Running /\ st'[Server] = "up"
  <2>1. Running /\ Stage = "asked" /\ Joined
    BY <1>1 DEF Stage, Running, Calm, AllJoined
  <2>2. \A i : Kept(i) <=> Lives(i)
    BY <1>1, <1>3, StandingKept
  <2> QED  BY <1>1, <2>1, <2>2, TreeHas DEF Directory!Present, Running
<1>5. CASE queue' = r.rest /\ pc' = "idle"
           /\ \/ out' = "not_found" /\ ~IsExists(r, cmd.id)
              \/ out' = "ok" /\ IsExists(r, cmd.id) /\ cmd.op = "ping"
  <2>1. Known'
    BY <1>5 DEF Known
  <2>2. Truths' /\ \A i : Kept(i)' <=> Kept(i)
    BY <1>1, <1>3, <1>5, <2>1, ServerTruths
  <2>3. Tree' = Tree
    BY <1>1, <1>4, <2>2, TreeSame
  <2>4. Stage' = "idle"
    BY <1>5 DEF Stage
  <2>5. Directory!Miss(cmd) \/ Directory!Hit(cmd)
    BY <1>1, <1>3, <1>4, <1>5, <2>3, <2>4 DEF Directory!Miss, Directory!Hit, Directory!Reply
  <2> QED  BY <1>4, <2>2, <2>5 DEF DirStep, Directory!DirNext
<1>6. CASE IsExists(r, cmd.id) /\ cmd.op = "remove" /\ Send(r.rest, RemoveMsg(cmd.id)) /\ Say("ok")
  <2>0. pc' = "idle" /\ out' = "ok"
    BY <1>6 DEF Say
  <2>1. Truths' /\ \A i : Kept(i)' <=> Kept(i) /\ ~Anc(cmd.id, i)
    BY <1>1, <1>3, <1>4, <1>6, <2>0, RemoveTruths
  <2>2. Tree' = [j \in Ids |-> IF j \in Directory!Subtree(cmd.id) THEN None ELSE Tree[j]]
    BY <1>1, <1>4, <2>1, TreePruned
  <2>3. Stage' = "idle"
    BY <2>0 DEF Stage
  <2>4. Directory!Hit(cmd)
    BY <1>1, <1>3, <1>4, <1>6, <2>0, <2>2, <2>3 DEF Directory!Hit, Directory!Reply
  <2> QED  BY <1>4, <2>1, <2>4 DEF DirStep, Directory!DirNext
<1>7. CASE IsExists(r, cmd.id) /\ cmd.op = "exec" /\ Send(r.rest, ExecMsg(cmd.id))
           /\ pc' = "exec" /\ UNCHANGED out
  <2> DEFINE n == ExecMsg(cmd.id)
  <2>1. n \in Message /\ Task(n) /\ Send(r.rest, n)
    BY <1>1, <1>7, MessageTypes, TreeMessages DEF ExecMsg, Down, Task
  <2> HIDE DEF n
  <2>2. Present(cmd.id)'
    <3>1. Present(cmd.id)
      BY <1>1, <1>3, <1>4, <1>7, LivesPresent
    <3> QED  BY <1>1, <3>1 DEF Present, Reachable
  <2>3. Pending'
    BY <1>1, <1>7, <2>2, CheckDestStep
  <2>4. \A i : Lives(i)' <=> Lives(i)
    BY <1>1 DEF Lives, Live
  <2>5. Known'
    BY <1>1, <1>3, <1>7, <2>3, <2>4 DEF Known
  <2>6. \A x \in Procs, d \in Endpoints : \A m \in Waiting(queue', x, d) :
          (m \in Waiting(queue, x, d) /\ m.type \notin Answers) \/ Task(m)
    BY <1>3, <2>1, SentWaiting
  <2>7. Truths' /\ \A i : Kept(i)' <=> Kept(i)
    BY <1>1, <1>3, <2>5, <2>6, ServerTruths
  <2>8. Tree' = Tree
    BY <1>1, <1>4, <2>7, TreeSame
  <2>9. Stage' = "asked"
    BY <1>4, <1>7 DEF Stage, Running
  <2> QED  BY <1>1, <1>4, <1>7, <2>7, <2>8, <2>9 DEF DirStep, Directory!dvars
<1> QED  BY <1>2, <1>5, <1>6, <1>7 DEF Say

-----------------------------------------------------------------------------------
\* A node's steps leave the server's life alone.
LEMMA ServerLife ==
  ASSUME NetTypeOK, NEW p \in Pids, NodeNext(p)
  PROVE  st'[Server] = st[Server]
<1>0. p # Server /\ Server \in Procs
  BY IdFacts
<1>1. CASE NodeInit(p)
  BY <1>0, <1>1 DEF NodeInit, NetTypeOK
<1>2. CASE NodeStop(p)
  BY <1>0, <1>2 DEF NodeStop, Deinit, NetTypeOK
<1>3. ASSUME NEW e \in Endpoints, NodeStep(p, e) PROVE st'[Server] = st[Server]
  <2> DEFINE m == Head(queue[p][e])
             q == Read(p, e)
  <2> HIDE DEF m, q
  <2>1. HandlePing(p, m, q) \/ HandleExec(p, m, q) \/ HandleCreate(p, m, q)
        \/ HandleRemove(p, m, q) \/ Forward(p, m, q)
    BY <1>3 DEF NodeStep, m, q
  <2>2. CASE HandlePing(p, m, q) \/ HandleExec(p, m, q) \/ Forward(p, m, q)
    BY <2>2 DEF HandlePing, HandleExec, Forward
  <2>3. CASE HandleRemove(p, m, q)
    BY <1>0, <2>3 DEF HandleRemove, NetTypeOK
  <2>4. CASE HandleCreate(p, m, q)
    <3>1. CASE UNCHANGED st
      BY <3>1
    <3>2. CASE Fork(p, m.val)
      <4>1. FreshPid # Server /\ st' = [st EXCEPT ![FreshPid] = "forked"]
        BY <3>2, FreshPidIsFree, IdFacts DEF Fork
      <4> QED  BY <1>0, <4>1 DEF NetTypeOK
    <3> QED  BY <2>4, <3>1, <3>2 DEF HandleCreate
  <2> QED  BY <2>1, <2>2, <2>3, <2>4
<1> QED  BY <1>1, <1>2, <1>3 DEF NodeNext

\* What the directory makes of a step that the user does not see.
LEMMA UnseenStep ==
  ASSUME IInv, IInv', Calm, Calm', st[Server] = "up", st'[Server] = "up", UNCHANGED <<pc, cmd, out>>,
         \A i : Kept(i)' <=> Kept(i)
  PROVE  DirStep
<1>1. Running /\ Running'
  BY DEF Running
<1>2. Tree' = Tree
  BY <1>1, TreeSame
<1>3. Stage' = Stage /\ Running' = Running
  BY <1>1, <1>2 DEF Stage, Running
<1> QED  BY <1>2, <1>3 DEF DirStep, Directory!dvars

\* A node stops after everybody is connected, and so leaves no stray.
LEMMA NoStrayLeft ==
  ASSUME IInv, Calm, Paused, strays = {}, NEW p \in Pids, NodeNext(p)
  PROVE  strays' = {}
<1>1. CASE NodeInit(p)
  BY <1>1 DEF NodeInit
<1>2. CASE NodeStop(p)
  <2>1. NetTypeOK /\ Shape /\ Joined /\ st[p] = "stopping" /\ strays' = strays \cup Unheard(p)
    BY <1>2, CalmTypes DEF Calm, Paused, NodeStop, Deinit
  <2>2. ASSUME NEW c \in Pids, ppid[c] = p, st[c] \in {"forked", "up", "stopping"}
        PROVE  peer[c][<<id[p], "children">>] = p
    <3>1. Open(c) /\ Open(p) /\ st[c] # "free"
      BY <2>1, <2>2 DEF Joined, Open
    <3>2. peer[c][Upward(c)] = p
      BY <2>1, <2>2, <3>1, JoinedToParent
    <3>3. Upward(c) = <<id[p], "children">>
      BY <2>1, <2>2, <3>1 DEF Upward, Shape, Family
    <3> QED  BY <3>2, <3>3
  <2> QED  BY <2>1, <2>2 DEF Unheard
<1>3. ASSUME NEW e \in Endpoints, NodeStep(p, e) PROVE strays' = {}
  <2> DEFINE m == Head(queue[p][e])
             q == Read(p, e)
  <2> HIDE DEF m, q
  <2>1. HandlePing(p, m, q) \/ HandleExec(p, m, q) \/ HandleCreate(p, m, q)
        \/ HandleRemove(p, m, q) \/ Forward(p, m, q)
    BY <1>3 DEF NodeStep, m, q
  <2> QED  BY <2>1 DEF HandlePing, HandleExec, HandleCreate, HandleRemove, Forward
<1> QED  BY <1>1, <1>2, <1>3 DEF NodeNext

\* While a command is under way nobody stops, so that a fork finds nobody stopping.
LEMMA PausedNode ==
  ASSUME IInv, IInv', Calm, Calm', Orderly, Truths, Paused, strays' = {}, st[Server] = "up",
         NEW p \in Pids, NodeNext(p), UNCHANGED server
  PROVE  Paused'
<1>1. /\ (Ready => Joined) /\ OneHome /\ UNCHANGED <<pc, cmd>> /\ p \in Procs /\ NetTypeOK
      /\ Pids \subseteq Procs
  BY CalmTypes, IdFacts DEF Ready, Orderly, server
<1>2. CASE NodeInit(p)
  <2>1. ~Joined
    BY <1>2 DEF NodeInit, Joined
  <2>2. \A r \in Pids : st'[r] # "stopping"
    BY <1>1, <1>2, <2>1 DEF NodeInit, Paused, NetTypeOK
  <2> QED  BY <2>2 DEF Paused
<1>3. CASE NodeStop(p)
  <2>1. st[p] = "stopping" /\ Deinit(p) /\ Unheard(p) = {} /\ Joined
    BY <1>3 DEF NodeStop, Deinit, Paused
  <2> QED  BY <1>1, <2>1, DeinitStep DEF Paused
<1>4. ASSUME NEW e \in Endpoints, NodeStep(p, e) PROVE Paused'
  <2> DEFINE m == Head(queue[p][e])
             q == Read(p, e)
  <2>1. st[p] = "up" /\ Joined /\ queue[p][e] # <<>>
    BY <1>1, <1>4 DEF NodeStep
  <2> HIDE DEF m, q
  <2>2. \/ Addressed(p, m) /\ (HandlePing(p, m, q) \/ HandleExec(p, m, q)
                               \/ HandleCreate(p, m, q) \/ HandleRemove(p, m, q))
        \/ Forward(p, m, q)
    BY <1>4 DEF NodeStep, m, q
  <2>3. CASE Addressed(p, m) /\ HandleRemove(p, m, q)
    <3>1. Joined'
      BY <2>1, <2>3, RemoveStep DEF m, q
    <3> QED  BY <3>1 DEF Paused
  <2>4. CASE Addressed(p, m) /\ m.type = "create" /\ Fork(p, m.val) /\ UNCHANGED peer
             /\ queue' = Answer(q, p, m, CreateAnswer(FreshPid))
    <3>1. Standing
      BY <1>1, <2>1, <2>4, ForkTruths DEF m, q
    <3>2. \A r \in Pids : st'[r] # "stopping"
      BY <1>1, <2>4, <3>1, FreshPidIsFree DEF Standing, Fork, NetTypeOK
    <3> QED  BY <3>2 DEF Paused
  <2>5. CASE UNCHANGED <<st, id, ppid, subs, peer>>
    BY <2>1, <2>5 DEF Paused, Joined, Bound, Open
  <2>6. HandleCreate(p, m, q) =>
          \/ UNCHANGED <<st, id, ppid, subs, peer>>
          \/ m.type = "create" /\ Fork(p, m.val) /\ UNCHANGED peer
             /\ queue' = Answer(q, p, m, CreateAnswer(FreshPid))
    BY DEF HandleCreate
  <2>7. HandlePing(p, m, q) \/ HandleExec(p, m, q) \/ Forward(p, m, q)
          => UNCHANGED <<st, id, ppid, subs, peer>>
    BY DEF HandlePing, HandleExec, Forward
  <2> QED  BY <2>2, <2>3, <2>4, <2>5, <2>6, <2>7
<1> QED  BY <1>2, <1>3, <1>4 DEF NodeNext

LEMMA PausedServer ==
  ASSUME IInv, Calm, Truths, Paused, ReadCommand \/ Receive
  PROVE  Paused' /\ strays' = strays
<1>0. NetTypeOK /\ Pids \subseteq Procs /\ Server \notin Pids
  BY CalmTypes, IdFacts
<1>1. strays' = strays
  BY DEF ReadCommand, Receive, CheckParent, CheckChild, CreateDone, CheckDest, ExecDone
<1>2. CASE ReadCommand
  <2>1. UNCHANGED <<st, id, subs, peer>>
    BY <1>2 DEF ReadCommand
  <2> QED  BY <1>1, <2>1 DEF Paused, Joined, Bound, Open
<1>3. CASE Receive
  <2>1. Standing
    BY <1>3 DEF Truths, Steady, Receive, CheckParent, CheckChild, CreateDone, CheckDest, ExecDone
  <2>2. \/ UNCHANGED st
        \/ st' = [st EXCEPT ![Server] = "crashed"]
        \/ CanFork /\ st' = [st EXCEPT ![FreshPid] = "forked"]
    BY <1>3 DEF Receive, CheckParent, CheckChild, CreateDone, CheckDest, ExecDone, DecodeGarbage, Fork
  <2>3. \A r \in Pids : st'[r] # "stopping"
    BY <1>0, <2>1, <2>2 DEF Standing, NetTypeOK
  <2> QED  BY <1>1, <2>3 DEF Paused
<1> QED  BY <1>2, <1>3

LEMMA PausedLink ==
  ASSUME IInv, Paused, NEW q \in Procs, NEW e \in Endpoints, Link(q, e)
  PROVE  Paused' /\ strays' = strays
<1>1. ~Joined /\ UNCHANGED <<st, strays>>
  BY DEF Link, Joined
<1> QED  BY <1>1 DEF Paused

LEMMA AnswersStep ==
  ASSUME Orderly, IInv, IInv', TreeInv, TreeInv', AnswersTrue, [Next]_vars,
         terms = 0, kills = 0, terms' = 0, kills' = 0
  PROVE  AnswersTrue' /\ DirStep
<1>0. NetTypeOK /\ Server \in Procs /\ Server \notin Pids
  BY IdFacts DEF IInv, TypeOK
<1>1. \/ ReadCommand \/ Receive \/ ServerStop
      \/ \E p \in Pids : NodeNext(p) /\ UNCHANGED server
      \/ \E q \in Procs, e \in Endpoints : Link(q, e) /\ UNCHANGED server
      \/ UNCHANGED vars
  BY DEF Next, AllGone, NodeSignal, NodeKill
<1>2. ASSUME st[Server] = "gone"
      PROVE  st'[Server] = "gone" /\ DirStep
  <2>1. st'[Server] = "gone" /\ UNCHANGED <<pc, cmd, out>>
    BY <1>0, <1>1, <1>2, ServerLife
    DEF server, vars, net, Link, ReadCommand, Receive, CheckParent, CheckChild, CheckDest,
        CreateDone, ExecDone, ServerStop
  <2>2. ~Running /\ ~Running'
    BY <1>2, <2>1 DEF Running
  <2>3. Tree' = Tree /\ Stage' = Stage /\ Running' = Running
    BY <2>2 DEF Tree, Stage, Running
  <2> QED  BY <2>1, <2>3 DEF DirStep, Directory!dvars
<1>3. ASSUME st[Server] = "up", Truths, Paused, strays = {}
      PROVE  /\ DirStep
             /\ st'[Server] = "gone" \/ (st'[Server] = "up" /\ Truths' /\ Paused' /\ strays' = {})
  <2>0. Calm /\ (strays' = {} => Calm')
    BY <1>3 DEF TreeInv
  <2>a. ASSUME ReadCommand \/ Receive PROVE Paused' /\ strays' = {} /\ Calm'
    BY <1>3, <2>0, <2>a, PausedServer
  <2>1. CASE ReadCommand
    BY <1>3, <2>0, <2>1, <2>a, ReadTruths DEF ReadCommand
  <2>2. CASE CheckParent
    BY <1>3, <2>0, <2>2, <2>a, ParentTruths DEF CheckParent, Receive
  <2>3. CASE CheckChild \/ CreateDone \/ ExecDone \/ CheckDest
    BY <1>3, <2>0, <2>3, <2>a, ChildTruths, DoneTruths, DestTruths DEF Receive
  <2>4. CASE ServerStop
    <3>1. st'[Server] = "gone" /\ UNCHANGED <<pc, cmd, out>>
      BY <1>0, <2>4 DEF ServerStop, Deinit, server, NetTypeOK
    <3>5. Tree' = [i \in Ids |-> None]
      BY <3>1 DEF Tree, Running
    <3>6. Running = TRUE /\ Running' = FALSE /\ Stage' = "idle"
      BY <1>3, <3>1 DEF Running, Stage
    <3>7. Directory!Close
      BY <3>1, <3>5, <3>6 DEF Directory!Close, Directory!Nothing
    <3> QED  BY <3>1, <3>7 DEF DirStep, Directory!DirNext
  <2>5. ASSUME NEW p \in Pids, NodeNext(p), UNCHANGED server
        PROVE  DirStep /\ st'[Server] = "up" /\ Truths' /\ Paused' /\ strays' = {}
    <3>a. strays' = {} /\ Calm'
      BY <1>3, <2>0, <2>5, NoStrayLeft
    <3>b. Paused'
      BY <1>3, <2>0, <2>5, <3>a, PausedNode
    <3>1. /\ Truths' /\ st'[Server] = "up"
          /\ \/ \A i : Kept(i)' <=> Kept(i)
             \/ /\ pc = "create" /\ ~Kept(cmd.id) /\ Kept(cmd.parent)
                /\ \A i : Kept(i)' <=> Kept(i) \/ i = cmd.id
      BY <1>3, <2>0, <2>5, <3>a, NodeTruths
    <3>2. CASE \A i : Kept(i)' <=> Kept(i)
      BY <1>3, <2>0, <2>5, <3>1, <3>2, <3>a, <3>b, UnseenStep DEF server
    <3>3. CASE /\ pc = "create" /\ ~Kept(cmd.id) /\ Kept(cmd.parent)
               /\ \A i : Kept(i)' <=> Kept(i) \/ i = cmd.id
      <4>0. Running /\ Running'
        BY <1>3, <3>1 DEF Running
      <4>1. /\ cmd.id \in Ids /\ cmd.op = "create" /\ cmd.parent = Home[cmd.id]
            /\ cmd.parent \in Ids \cup {Root}
        BY <2>0, <3>3, CommandFacts
      <4>2. cmd.parent \in Ids
        <5>1. PICK r \in Pids : id[r] = cmd.parent /\ Stays(r)
          BY <3>3 DEF Kept
        <5> QED  BY <2>0, <5>1, StaysUp, CalmTypes
      <4>3. Tree' = [Tree EXCEPT ![cmd.id] = cmd.parent]
        BY <2>0, <3>3, <3>a, <4>0, <4>1, TreeGrows
      <4>4. Directory!Present(cmd.parent) /\ ~Directory!Present(cmd.id) /\ Tree[cmd.id] = None
        BY <2>0, <3>3, <4>0, <4>1, <4>2, TreeHas DEF Directory!Present
      <4>5. Tree'[cmd.id] # None
        <5>1. Tree = [i \in Ids |-> IF Kept(i) THEN Home[i] ELSE None]
          BY <2>0, <4>0, TreeForm
        <5> QED  BY <4>1, <4>2, <4>3, <5>1, IdFacts
      <4>6. Running /\ Running' = Running /\ Stage = "asked" /\ Stage' = "grown" /\ UNCHANGED <<cmd, out>>
        BY <1>3, <2>5, <3>1, <3>3, <4>4, <4>5 DEF Running, Stage, server
      <4>7. Directory!Grow(cmd)
        BY <4>1, <4>2, <4>3, <4>4, <4>6, IdFacts
        DEF Directory!Grow, Directory!MayCreate, Directory!Grown
      <4> QED  BY <3>1, <3>a, <3>b, <4>7 DEF DirStep, Directory!DirNext
    <3> QED  BY <3>1, <3>2, <3>3, <3>a, <3>b
  <2>6. ASSUME NEW q \in Procs, NEW e \in Endpoints, Link(q, e), UNCHANGED server
        PROVE  DirStep /\ st'[Server] = "up" /\ Truths' /\ Paused' /\ strays' = {}
    <3>1. UNCHANGED <<st, id, ppid, queue, pc, cmd, out>>
      BY <2>6 DEF Link, server
    <3>2. Paused' /\ strays' = {} /\ Calm'
      BY <1>3, <2>0, <2>6, PausedLink
    <3> QED  BY <1>3, <2>0, <3>1, <3>2, SameTruths, UnseenStep
  <2>7. CASE UNCHANGED vars
    <3>1. UNCHANGED <<st, id, ppid, queue, pc, cmd, out, strays, subs, peer>>
      BY <2>7 DEF vars, net, server
    <3>2. Paused' /\ strays' = {} /\ Calm'
      BY <1>3, <2>0, <3>1 DEF Paused, Joined, Bound, Open
    <3> QED  BY <1>3, <2>0, <3>1, <3>2, SameTruths, UnseenStep
  <2> QED  BY <1>1, <2>1, <2>2, <2>3, <2>4, <2>5, <2>6, <2>7 DEF Receive
<1>4. (st[Server] = "up" /\ Truths /\ Paused /\ strays = {}) \/ st[Server] = "gone"
  BY DEF AnswersTrue, Truths
<1> QED  BY <1>2, <1>3, <1>4 DEF AnswersTrue, Truths

LEMMA InitAnswers ==
  ASSUME Init PROVE AnswersTrue /\ Directory!DirInit
<1> USE DEF Init, NetInit
<1>1. st[Server] = "up" /\ \A p \in Pids : st[p] = "free" /\ p \in Procs
  BY IdFacts
<1>2. \A p \in Pids, e \in Endpoints : queue[p][e] = <<>>
  BY <1>1
<1>3. \A p \in Pids : ~Sound(p) /\ ~Stays(p)
  BY <1>1 DEF Sound, Stays
<1>4. \A p \in Procs, e \in Endpoints : Waiting(queue, p, e) = {}
  BY DEF Waiting
<1>5. Steady /\ Known /\ Truthful /\ RemoveFinds
  BY <1>3, <1>4 DEF Steady, Known, Truthful, RemoveFinds
<1>6. Tree = [i \in Ids |-> None] /\ Stage = "idle" /\ Running = TRUE
  BY <1>1, <1>3 DEF Tree, Stage, Running
<1>7. cmd \notin UNION {Menu[k] : k \in DOMAIN Menu}
  <2>1. \A k \in DOMAIN Menu : \A c \in Menu[k] : c.id \in Ids
    BY MessageTreeAssumption DEF Command
  <2>2. cmd.id \notin Ids
    BY IdFacts DEF NoCommand
  <2> QED  BY <2>1, <2>2
<1> QED  BY <1>1, <1>5, <1>6, <1>7 DEF AnswersTrue, Paused, Directory!DirInit, Directory!Nothing

\* Signals and kills are counted, and never forgotten.
LEMMA CountsKept ==
  ASSUME IInv, [Next]_vars, terms' = 0, kills' = 0
  PROVE  terms = 0 /\ kills = 0
<1>1. terms \in Nat /\ kills \in Nat
  BY DEF IInv, TypeOK
<1> QED  BY <1>1 DEF Next, vars, server, ReadCommand, Receive, CheckParent, CheckChild, CreateDone,
                    CheckDest, ExecDone, ServerStop, NodeSignal, NodeKill, AllGone

\* As long as no node receives a signal or is killed: a ping is answered for a node that lives
\* and for no other, a created node lives when its pid arrives, no second answer is missing.
THEOREM TrueAnswers ==
  ASSUME Orderly PROVE Spec => []AnswersTrue
<1>1. Init => AnswersTrue
  BY InitAnswers
<1>2. ASSUME IInv, IInv', TreeInv, TreeInv', AnswersTrue, [Next]_vars PROVE AnswersTrue'
  <2> SUFFICES ASSUME terms' = 0, kills' = 0 PROVE AnswersTrue'
    BY DEF AnswersTrue
  <2>1. terms = 0 /\ kills = 0
    BY <1>2, CountsKept
  <2> QED  BY <1>2, <2>1, AnswersStep
<1> QED  BY <1>1, <1>2, TreeInvariance, Invariance, PTL DEF Spec

\* ... the server is never ended by a message it could not decode ...
THEOREM ServerOutlives ==
  ASSUME Orderly PROVE Spec => [](terms = 0 /\ kills = 0 => ServerSurvives)
<1>1. AnswersTrue => (terms = 0 /\ kills = 0 => ServerSurvives)
  BY DEF AnswersTrue, ServerSurvives
<1> QED  BY <1>1, TrueAnswers, PTL

\* ... and no node is found that never was.
THEOREM NobodyImagined ==
  ASSUME Orderly PROVE Spec /\ [](terms = 0 /\ kills = 0) => NoPhantom
<1> DEFINE A == pc = "dest" /\ cmd.op = "ping" /\ pc' = "idle" /\ out' = "ok"
                  => \E p \in Pids : id[p] = cmd.id
<1>1. ASSUME IInv, TreeInv, AnswersTrue, [Next]_vars, terms = 0 /\ kills = 0 PROVE A
  <2> SUFFICES ASSUME pc = "dest", pc' = "idle", out' = "ok" PROVE \E p \in Pids : id[p] = cmd.id
    OBVIOUS
  <2>1. CheckDest
    BY <1>1 DEF Next, vars, server, ReadCommand, Receive, CheckParent, CheckChild, CreateDone,
                ExecDone, ServerStop, NodeSignal, NodeKill, AllGone
  <2>2. PICK r \in Receipts : IsExists(r, cmd.id)
    BY <2>1 DEF CheckDest, Say
  <2>3. Lives(Target) /\ Target = cmd.id
    BY <1>1, <2>1, <2>2, ReceiptTruths DEF TreeInv, AnswersTrue, Truths, CheckDest, Target
  <2> QED  BY <2>3 DEF Lives
<1>2. UNCHANGED vars => A
  BY DEF vars, server
<1>3. Spec /\ [](terms = 0 /\ kills = 0) => [][A]_vars
  BY <1>1, TrueAnswers, TreeInvariance, Invariance, PTL DEF Spec
<1> QED  BY <1>3 DEF NoPhantom

\* The tree of processes, with all its messages and timeouts, implements the directory: what
\* the user is told is what one directory in one place would have told.
THEOREM DirectoryImplemented ==
  ASSUME Orderly PROVE Spec /\ [](terms = 0 /\ kills = 0) => ImplementsDirectory
<1>1. Init => Directory!DirInit
  BY InitAnswers
<1>2. ASSUME IInv, IInv', TreeInv, TreeInv', AnswersTrue, [Next]_vars,
             terms = 0 /\ kills = 0, (terms = 0 /\ kills = 0)'
      PROVE  [Directory!DirNext]_(Directory!dvars)
  BY <1>2, AnswersStep DEF DirStep
<1> QED  BY <1>1, <1>2, TrueAnswers, TreeInvariance, Invariance, PTL
         DEF Spec, ImplementsDirectory, Directory!DirSpec
===================================================================================
