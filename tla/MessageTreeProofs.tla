----------------------------- MODULE MessageTreeProofs ----------------------------
(***********************************************************************************)
(* For any ids, pids, commands and timing: the model is well typed, tasks only     *)
(* travel down and answers up, no node reads the emptied message that              *)
(* handle_remove leaves to client_run, and whoever is connected to a parent that   *)
(* ends is told.                                                                   *)
(***********************************************************************************)
EXTENDS MessageTree, SequenceTheorems, TLAPS

Queues(q) == /\ q \in [Procs -> [Endpoints -> Seq(Message)]]
             /\ \A p \in Procs, e \in Endpoints : q[p][e] \in Seq(Carried(e[2]))

LEMMA CarriedMessage == ASSUME NEW side \in Sides PROVE Carried(side) \subseteq Message
  BY DEF Carried, Message

LEMMA SubSeqType ==
  ASSUME NEW S, NEW T, S \subseteq T, NEW s \in Seq(S)
  PROVE  s \in Seq(T)
  <1>1. /\ s \in [1 .. Len(s) -> S] /\ Len(s) \in Nat BY LenProperties
  <1>2. s \in [1 .. Len(s) -> T] BY <1>1
  <1>3. QED BY <1>1, <1>2, SeqDef

\* Sending keeps every queue typed and in its direction.
LEMMA PublishQueues ==
  ASSUME NEW q, Queues(q), NEW p \in Procs, NEW side \in Sides,
         NEW m \in Carried(side)
  PROVE  Queues(Publish(q, p, side, <<m>>))
  <1> DEFINE Q == Publish(q, p, side, <<m>>)
  <1>1. ASSUME NEW r \in Procs, NEW e \in Endpoints
        PROVE  Q[r][e] \in Seq(Carried(e[2])) /\ Q[r][e] \in Seq(Message)
    <2>1. e[2] \in Sides BY DEF Endpoints
    <2>2. Q[r][e] = IF peer[r][e] = p /\ e[2] = side THEN q[r][e] \o <<m>> ELSE q[r][e]
      BY DEF Publish
    <2>3. q[r][e] \in Seq(Carried(e[2])) BY DEF Queues
    <2>4. e[2] = side => q[r][e] \o <<m>> \in Seq(Carried(e[2]))
      <3> SUFFICES ASSUME e[2] = side PROVE q[r][e] \o <<m>> \in Seq(Carried(side)) OBVIOUS
      <3>1. q[r][e] \in Seq(Carried(side)) BY <2>3
      <3>2. <<m>> \in Seq(Carried(side)) OBVIOUS
      <3> QED BY ONLY <3>1, <3>2, ConcatProperties
    <2>5. Q[r][e] \in Seq(Carried(e[2])) BY <2>2, <2>3, <2>4
    <2> QED BY <2>1, <2>5, CarriedMessage, SubSeqType
  <1>2. Q \in [Procs -> [Endpoints -> Seq(Message)]] BY <1>1 DEF Publish
  <1> QED BY <1>1, <1>2 DEF Queues

\* Reading the first message keeps every queue typed.
LEMMA ReadQueues ==
  ASSUME Queues(queue), NEW p \in Procs, NEW e \in Endpoints, queue[p][e] # <<>>
  PROVE  /\ Queues(Read(p, e))
         /\ Head(queue[p][e]) \in Carried(e[2])
  <1>1. queue[p][e] \in Seq(Carried(e[2])) BY DEF Queues
  <1>2. /\ Tail(queue[p][e]) \in Seq(Carried(e[2]))
        /\ Head(queue[p][e]) \in Carried(e[2])
    BY <1>1, HeadTailProperties
  <1>3. e[2] \in Sides BY DEF Endpoints
  <1>4. Tail(queue[p][e]) \in Seq(Message) BY <1>2, <1>3, CarriedMessage, SubSeqType
  <1> QED BY <1>2, <1>4 DEF Queues, Read

-----------------------------------------------------------------------------------
\* What Guarded survives: sending an ordinary message, sending a remove and then
\* anything, reading an ordinary message, losing the end of a queue.
LEMMA GuardedAppend ==
  ASSUME NEW s \in Seq(Message), Guarded(s), NEW m \in Message, m.type # "emptied"
  PROVE  Guarded(s \o <<m>>)
  <1> DEFINE t == s \o <<m>>
  <1>1. Len(t) = Len(s) + 1 /\ Len(s) \in Nat OBVIOUS
  <1>2. \A k \in 1 .. Len(s) : t[k] = s[k] OBVIOUS
  <1>3. t[Len(s) + 1] = m OBVIOUS
  <1> HIDE DEF t
  <1>4. ASSUME NEW k \in 1 .. Len(t), t[k].type = "emptied"
        PROVE  \E j \in 1 .. k - 1 : t[j] = RemoveMsg(Broadcast)
    <2>1. k \in 1 .. Len(s) BY <1>1, <1>3, <1>4
    <2>2. PICK j \in 1 .. k - 1 : s[j] = RemoveMsg(Broadcast) BY <1>2, <1>4, <2>1 DEF Guarded
    <2>3. j \in 1 .. Len(s) BY <1>1, <2>1
    <2> QED BY <1>2, <2>2, <2>3
  <1> QED BY <1>4 DEF Guarded, t

LEMMA GuardedPair ==
  ASSUME NEW s \in Seq(Message), Guarded(s), RemoveMsg(Broadcast) \in Message,
         NEW m \in Message
  PROVE  Guarded((s \o <<RemoveMsg(Broadcast)>>) \o <<m>>)
  <1> DEFINE u == s \o <<RemoveMsg(Broadcast)>>
             t == u \o <<m>>
  <1>1. u \in Seq(Message) /\ Guarded(u)
    BY GuardedAppend DEF RemoveMsg, Down
  <1>2. Len(u) = Len(s) + 1 /\ Len(s) \in Nat /\ u[Len(u)] = RemoveMsg(Broadcast) OBVIOUS
  <1> HIDE DEF u
  <1>3. Len(t) = Len(u) + 1 /\ \A k \in 1 .. Len(u) : t[k] = u[k] BY <1>1
  <1> HIDE DEF t
  <1>4. ASSUME NEW k \in 1 .. Len(t), t[k].type = "emptied"
        PROVE  \E j \in 1 .. k - 1 : t[j] = RemoveMsg(Broadcast)
    <2>1. CASE k = Len(t)
      <3>1. Len(u) \in 1 .. k - 1 BY <1>2, <1>3, <2>1
      <3> QED BY <1>2, <1>3, <3>1
    <2>2. CASE k # Len(t)
      <3>1. k \in 1 .. Len(u) BY <1>2, <1>3, <2>2
      <3>2. PICK j \in 1 .. k - 1 : u[j] = RemoveMsg(Broadcast)
        BY <1>1, <1>3, <1>4, <3>1 DEF Guarded
      <3>3. j \in 1 .. Len(u) BY <1>2, <3>1
      <3> QED BY <1>3, <3>2, <3>3
    <2> QED BY <2>1, <2>2
  <1> QED BY <1>4 DEF Guarded, t, u

LEMMA GuardedTail ==
  ASSUME NEW s \in Seq(Message), s # <<>>, Guarded(s), Head(s) # RemoveMsg(Broadcast)
  PROVE  Guarded(Tail(s))
  <1> DEFINE t == Tail(s)
  <1>1. /\ Len(t) = Len(s) - 1 /\ Len(s) \in Nat
        /\ \A k \in 1 .. Len(t) : t[k] = s[k + 1]
        /\ Head(s) = s[1]
    OBVIOUS
  <1> HIDE DEF t
  <1>2. ASSUME NEW k \in 1 .. Len(t), t[k].type = "emptied"
        PROVE  \E j \in 1 .. k - 1 : t[j] = RemoveMsg(Broadcast)
    <2>1. k + 1 \in 1 .. Len(s) /\ s[k + 1].type = "emptied" BY <1>1, <1>2
    <2>2. PICK j \in 1 .. (k + 1) - 1 : s[j] = RemoveMsg(Broadcast) BY <2>1 DEF Guarded
    <2>3. j # 1 BY <1>1, <2>2
    <2>4. j - 1 \in 1 .. k - 1 /\ j - 1 \in 1 .. Len(t) /\ (j - 1) + 1 = j
      BY <1>1, <2>2, <2>3
    <2>5. t[j - 1] = s[j] BY <1>1, <2>4
    <2> QED BY <2>2, <2>4, <2>5
  <1> QED BY <1>2 DEF Guarded, t

LEMMA GuardedPrefix ==
  ASSUME NEW s \in Seq(Message), Guarded(s), NEW n \in Nat, n < Len(s)
  PROVE  Guarded(SubSeq(s, 1, n))
  <1> DEFINE t == SubSeq(s, 1, n)
  <1>1. Len(t) = n /\ \A k \in 1 .. n : t[k] = s[k] OBVIOUS
  <1>2. Len(s) \in Nat OBVIOUS
  <1> HIDE DEF t
  <1>3. ASSUME NEW k \in 1 .. Len(t), t[k].type = "emptied"
        PROVE  \E j \in 1 .. k - 1 : t[j] = RemoveMsg(Broadcast)
    <2>1. k \in 1 .. Len(s) /\ s[k].type = "emptied" BY <1>1, <1>2, <1>3
    <2>2. PICK j \in 1 .. k - 1 : s[j] = RemoveMsg(Broadcast) BY <2>1 DEF Guarded
    <2>3. j \in 1 .. n BY <1>1
    <2> QED BY <1>1, <2>2, <2>3
  <1> QED BY <1>3 DEF Guarded, t

\* The same for all the queues of a set of processes.
GuardedIn(q, T) == \A r \in T, e \in Endpoints : Guarded(q[r][e])

LEMMA PublishGuarded ==
  ASSUME NEW q, Queues(q), NEW T \in SUBSET Procs, GuardedIn(q, T),
         NEW p, NEW side, NEW m \in Message, m.type # "emptied"
  PROVE  GuardedIn(Publish(q, p, side, <<m>>), T)
  <1> SUFFICES ASSUME NEW r \in T, NEW e \in Endpoints
               PROVE  Guarded(Publish(q, p, side, <<m>>)[r][e])
    BY DEF GuardedIn
  <1>1. q[r][e] \in Seq(Message) BY DEF Queues
  <1>2. Guarded(q[r][e]) BY DEF GuardedIn
  <1>3. Guarded(q[r][e] \o <<m>>) BY <1>1, <1>2, GuardedAppend
  <1> QED BY <1>2, <1>3 DEF Publish

LEMMA PublishPairGuarded ==
  ASSUME NEW q, Queues(q), NEW T \in SUBSET Procs, GuardedIn(q, T),
         NEW p, NEW side, RemoveMsg(Broadcast) \in Message, NEW m \in Message
  PROVE  GuardedIn(Publish(Publish(q, p, side, <<RemoveMsg(Broadcast)>>), p, side, <<m>>), T)
  <1> DEFINE Q == Publish(Publish(q, p, side, <<RemoveMsg(Broadcast)>>), p, side, <<m>>)
  <1> SUFFICES ASSUME NEW r \in T, NEW e \in Endpoints PROVE Guarded(Q[r][e])
    BY DEF GuardedIn
  <1>1. q[r][e] \in Seq(Message) /\ Guarded(q[r][e]) BY DEF Queues, GuardedIn
  <1>2. Guarded((q[r][e] \o <<RemoveMsg(Broadcast)>>) \o <<m>>) BY <1>1, GuardedPair
  <1>3. Q[r][e] = IF peer[r][e] = p /\ e[2] = side
                  THEN (q[r][e] \o <<RemoveMsg(Broadcast)>>) \o <<m>> ELSE q[r][e]
    BY DEF Publish
  <1> QED BY <1>1, <1>2, <1>3
-----------------------------------------------------------------------------------
LEMMA MessageTypes ==
  /\ \A i \in Int : /\ PingMsg(i) \in DownMessage /\ ExecMsg(i) \in DownMessage
                     /\ RemoveMsg(i) \in DownMessage
                     /\ \A c \in Ids : CreateMsg(i, c) \in DownMessage
  /\ \A i, c : /\ PingMsg(i).type # "emptied" /\ ExecMsg(i).type # "emptied"
               /\ RemoveMsg(i).type # "emptied" /\ CreateMsg(i, c).type # "emptied"
  /\ \A m \in UpMessage : m.type # "emptied" /\ m.type \notin Tasks
  /\ Broadcast \in Int /\ None \in Int
  BY PubSubAssumption
     DEF DownMessage, UpMessage, PingMsg, ExecMsg, RemoveMsg, CreateMsg, PingAnswer,
         CreateAnswer, ExecAnswer, Down, Up, Tasks, Answers, None, Broadcast

LEMMA AnswerTypes ==
  ASSUME NEW i \in Int
  PROVE  /\ PingAnswer(i) \in UpMessage /\ CreateAnswer(i) \in UpMessage
         /\ ExecAnswer(i) \in UpMessage
  BY DEF UpMessage, PingAnswer, CreateAnswer, ExecAnswer, Up, Answers

LEMMA Numbers == /\ Ids \subseteq Int /\ Pids \subseteq Int /\ Counts \subseteq Int
                 /\ -1 \in Int /\ Broadcast \notin Ids
  BY PubSubAssumption, ComputingNodeAssumption DEF Broadcast

LEMMA OnwardSafe ==
  ASSUME NEW q, Queues(q), NEW p \in Procs, NEW m \in Message, m.type # "emptied",
         NEW T \in SUBSET Procs, GuardedIn(q, T)
  PROVE  Queues(Onward(q, p, m)) /\ GuardedIn(Onward(q, p, m), T)
  <1>1. m \in Carried(SideOf(m)) /\ SideOf(m) \in Sides
    BY DEF Message, Carried, SideOf, Sides, DownMessage, UpMessage
  <1>2. Queues(Publish(q, p, SideOf(m), <<m>>)) BY <1>1, PublishQueues
  <1>3. GuardedIn(Publish(q, p, SideOf(m), <<m>>), T) BY PublishGuarded
  <1> QED BY <1>2, <1>3 DEF Onward

LEMMA AnswerSafe ==
  ASSUME NEW q, Queues(q), NEW p \in Procs, NEW m \in Message, m.type # "emptied",
         NEW T \in SUBSET Procs, GuardedIn(q, T), NEW a \in UpMessage
  PROVE  Queues(Answer(q, p, m, a)) /\ GuardedIn(Answer(q, p, m, a), T)
  <1> DEFINE Q == Publish(q, p, "parent", <<a>>)
  <1>1. a \in Carried("parent") /\ "parent" \in Sides BY DEF Carried, Sides
  <1>2. a \in Message /\ a.type # "emptied" BY MessageTypes DEF Message
  <1>3. Queues(Q) BY <1>1, PublishQueues
  <1>4. GuardedIn(Q, T) BY <1>2, PublishGuarded
  <1> HIDE DEF Q
  <1>5. Queues(Onward(Q, p, m)) /\ GuardedIn(Onward(Q, p, m), T) BY <1>3, <1>4, OnwardSafe
  <1> QED BY <1>5 DEF Answer, Q

\* Sending a task downwards.
LEMMA SendSafe ==
  ASSUME NEW q, Queues(q), NEW p \in Procs, NEW m \in DownMessage, m.type # "emptied",
         NEW T \in SUBSET Procs, GuardedIn(q, T)
  PROVE  /\ Queues(Publish(q, p, "children", <<m>>))
         /\ GuardedIn(Publish(q, p, "children", <<m>>), T)
  <1>1. m \in Carried("children") /\ "children" \in Sides BY DEF Carried, Sides
  <1>2. m \in Message BY DEF Message
  <1>3. Queues(Publish(q, p, "children", <<m>>)) BY <1>1, PublishQueues
  <1>4. GuardedIn(Publish(q, p, "children", <<m>>), T) BY <1>2, PublishGuarded
  <1> QED BY <1>3, <1>4

\* Closing the sockets of a process.
LEMMA HangUpSafe ==
  ASSUME NEW q, Queues(q), NEW p \in Procs, NEW T \in SUBSET Procs, GuardedIn(q, T),
         NetTypeOK, HangUp(q, p)
  PROVE  /\ Queues(queue') /\ GuardedIn(queue', T)
         /\ peer' \in [Procs -> [Endpoints -> Procs \cup {None}]]
         /\ subs' \in [Procs -> SUBSET Endpoints]
  <1>1. ASSUME NEW r \in Procs, NEW e \in Endpoints
        PROVE  /\ queue'[r][e] \in Seq(Carried(e[2])) /\ queue'[r][e] \in Seq(Message)
               /\ queue'[r][e] = IF r = p THEN <<>> ELSE q[r][e]
    <2>1. q \in [Procs -> [Endpoints -> Seq(Message)]] BY DEF Queues
    <2>2. queue'[r][e] = IF r = p THEN <<>> ELSE q[r][e] BY <2>1 DEF HangUp, Unread
    <2>3. <<>> \in Seq(Carried(e[2])) /\ <<>> \in Seq(Message) OBVIOUS
    <2> QED BY <2>2, <2>3 DEF Queues
  <1>2. queue' \in [Procs -> [Endpoints -> Seq(Message)]]
    BY <1>1 DEF HangUp, Unread, Queues
  <1>3. Queues(queue') BY <1>1, <1>2 DEF Queues
  <1>4. Guarded(<<>>) BY DEF Guarded
  <1>5. GuardedIn(queue', T) BY <1>1, <1>4 DEF GuardedIn
  <1>6. peer' \in [Procs -> [Endpoints -> Procs \cup {None}]]
    BY DEF HangUp, Unlinked, NetTypeOK
  <1>7. subs' \in [Procs -> SUBSET Endpoints] BY DEF HangUp, NetTypeOK
  <1> QED BY <1>3, <1>5, <1>6, <1>7

-----------------------------------------------------------------------------------
NetInv == NetTypeOK /\ Lineage /\ DirectionsKept /\ RemoveComesFirst

\* The invariant in the form the lemmas use.
LEMMA NetInvForm ==
  NetInv <=> /\ NetTypeOK /\ Lineage
             /\ Queues(queue) /\ GuardedIn(queue, Reading)
  BY DEF NetInv, NetTypeOK, DirectionsKept, RemoveComesFirst, Queues, GuardedIn

LEMMA ReadingProcs == /\ Reading \subseteq Procs /\ Server \notin Pids /\ Server \in Procs
                      /\ Pids \subseteq Procs
  BY PubSubAssumption DEF Reading, Procs, Server

LEMMA FreshPidIsFree ==
  ASSUME CanFork
  PROVE  FreshPid \in Pids /\ st[FreshPid] = "free" /\ FreshPid # Server
  BY ReadingProcs DEF CanFork, FreshPid

\* A fork keeps the types and the lineage of processes, and makes nobody read.
LEMMA ForkSafe ==
  ASSUME NetTypeOK, Lineage, NEW p \in Procs, id[p] \in Ids \cup {Root},
         NEW child \in Ids, Fork(p, child), UNCHANGED peer
  PROVE  /\ st' \in [Procs -> {"free", "forked", "up", "stopping", "gone", "killed", "crashed"}]
         /\ id' \in [Procs -> Ids \cup {Root, None}] /\ id'[Server] = Root
         /\ ppid' \in [Procs -> Procs \cup {None}]
         /\ subs' \in [Procs -> SUBSET Endpoints]
         /\ Lineage' /\ Reading' \subseteq Reading
  <1> USE DEF NetTypeOK, Fork
  <1>0. FreshPid \in Pids /\ st[FreshPid] = "free" /\ FreshPid # Server /\ FreshPid \in Procs
    BY FreshPidIsFree, ReadingProcs
  <1>1. st' \in [Procs -> {"free", "forked", "up", "stopping", "gone", "killed", "crashed"}] OBVIOUS
  <1>2. id' \in [Procs -> Ids \cup {Root, None}] OBVIOUS
  <1>3. id'[Server] = Root BY <1>0, ReadingProcs
  <1>4. ppid' \in [Procs -> Procs \cup {None}] OBVIOUS
  <1>5. subs' \in [Procs -> SUBSET Endpoints]
    <2>1. <<child, "parent">> \in Endpoints BY DEF Endpoints, Sides
    <2> QED BY <2>1
  <1>6. Lineage'
    <2> SUFFICES ASSUME NEW r \in Pids, st'[r] # "free"
                 PROVE  /\ id'[r] \in Ids /\ ppid'[r] \in Procs
                        /\ id'[ppid'[r]] \in Ids \cup {Root}
      BY DEF Lineage
    <2>0. r \in Procs BY ReadingProcs
    <2>1. CASE r = FreshPid
      <3>1. id'[r] = child /\ ppid'[r] = p BY <1>0, <2>0, <2>1
      <3>2. id'[p] = IF p = FreshPid THEN child ELSE id[p] BY <1>0
      <3> QED BY <3>1, <3>2
    <2>2. CASE r # FreshPid
      <3>1. st[r] # "free" /\ id'[r] = id[r] /\ ppid'[r] = ppid[r] BY <1>0, <2>0, <2>2
      <3>2. id[r] \in Ids /\ ppid[r] \in Procs /\ id[ppid[r]] \in Ids \cup {Root}
        BY <3>1 DEF Lineage
      <3>3. id'[ppid[r]] = IF ppid[r] = FreshPid THEN child ELSE id[ppid[r]] BY <1>0, <3>2
      <3> QED BY <3>1, <3>2, <3>3
    <2> QED BY <2>1, <2>2
  <1>7. Reading' \subseteq Reading
    <2> SUFFICES ASSUME NEW r \in Pids, st'[r] \in {"free", "forked", "up"}
                 PROVE  st[r] \in {"free", "forked", "up"}
      BY DEF Reading
    <2> QED BY <1>0, ReadingProcs
  <1> QED BY <1>1, <1>2, <1>3, <1>4, <1>5, <1>6, <1>7
-----------------------------------------------------------------------------------
\* The steps of a computing node.
LEMMA NodeInitSafe ==
  ASSUME NetInv, NEW p \in Pids, NodeInit(p)
  PROVE  NetInv'
  <1> USE ReadingProcs DEF NodeInit, NetInv
  <1>1. id[ppid[p]] \in Ids \cup {Root} BY DEF Lineage
  <1>2. <<id[ppid[p]], "children">> \in Endpoints BY <1>1 DEF Endpoints, Sides
  <1>3. NetTypeOK'
    <2>1. subs' \in [Procs -> SUBSET Endpoints] BY <1>2 DEF NetTypeOK
    <2>2. st' \in [Procs -> {"free", "forked", "up", "stopping", "gone", "killed", "crashed"}]
      BY DEF NetTypeOK
    <2> QED BY <2>1, <2>2 DEF NetTypeOK
  <1>4. Lineage' BY DEF Lineage, NetTypeOK
  <1>5. Reading' \subseteq Reading BY DEF Reading, NetTypeOK
  <1>6. RemoveComesFirst' BY <1>5 DEF RemoveComesFirst, Guarded
  <1> QED BY <1>3, <1>4, <1>6 DEF DirectionsKept

LEMMA NodeStepSafe ==
  ASSUME NetInv, NEW p \in Pids, NEW e \in Endpoints, NodeStep(p, e)
  PROVE  NetInv'
  <1> DEFINE m == Head(queue[p][e])
             q == Read(p, e)
  <1> USE ReadingProcs
  <1>1. /\ NetTypeOK /\ Lineage /\ Queues(queue) /\ GuardedIn(queue, Reading)
        /\ st[p] = "up" /\ queue[p][e] # <<>> /\ p \in Procs /\ p \in Reading
    BY NetInvForm DEF NodeStep, Reading
  <1>2. Queues(q) /\ m \in Carried(e[2]) BY <1>1, ReadQueues
  <1>3. m \in Message BY <1>2, CarriedMessage DEF Endpoints
  <1>4. queue[p][e] \in Seq(Message) /\ Guarded(queue[p][e]) BY <1>1 DEF Queues, GuardedIn
  <1>5. m.type # "emptied"
    <2>1. 1 \in 1 .. Len(queue[p][e]) /\ queue[p][e][1] = m BY <1>1, <1>4
    <2>2. ~\E j \in 1 .. 1 - 1 : queue[p][e][j] = RemoveMsg(Broadcast) OBVIOUS
    <2> QED BY <1>4, <2>1, <2>2 DEF Guarded
  <1>6. \A r \in Procs, d \in Endpoints :
          q[r][d] = IF r = p /\ d = e THEN Tail(queue[p][e]) ELSE queue[r][d]
    BY <1>1 DEF Read, Queues
  <1>7. GuardedIn(q, Reading \ {p}) BY <1>1, <1>6 DEF GuardedIn
  <1>8. m # RemoveMsg(Broadcast) => GuardedIn(q, Reading)
    <2> SUFFICES ASSUME m # RemoveMsg(Broadcast) PROVE GuardedIn(q, Reading) OBVIOUS
    <2>1. Guarded(Tail(queue[p][e])) BY <1>1, <1>4, GuardedTail
    <2> QED BY <1>1, <1>6, <2>1 DEF GuardedIn
  <1>9. id[p] \in Ids /\ id[p] \in Int /\ id[p] # Broadcast
    <2>1. st[p] # "free" BY <1>1
    <2>2. id[p] \in Ids BY <1>1, <2>1 DEF Lineage
    <2> QED BY <2>2, Numbers
  <1> HIDE DEF q, m
  <1>10. ASSUME Queues(queue'), GuardedIn(queue', Reading), UNCHANGED <<st, id, ppid, subs, peer, strays>>
         PROVE  NetInv'
    <2>1. NetTypeOK' BY <1>1, <1>10 DEF NetTypeOK, Queues
    <2>2. Lineage' BY <1>1, <1>10 DEF Lineage
    <2>3. DirectionsKept' BY <1>10 DEF DirectionsKept, Queues
    <2>4. Reading' = Reading BY <1>10 DEF Reading
    <2>5. RemoveComesFirst' BY <1>10, <2>4 DEF RemoveComesFirst, GuardedIn
    <2> QED BY <2>1, <2>2, <2>3, <2>5 DEF NetInv
  <1>11. RemoveMsg(Broadcast).type = "remove" /\ RemoveMsg(Broadcast).to = Broadcast
    BY DEF RemoveMsg, Down
  <1>12. CASE HandlePing(p, m, q)
    <2>1. m # RemoveMsg(Broadcast) BY <1>11, <1>12 DEF HandlePing
    <2>2. PingAnswer(id[p]) \in UpMessage BY <1>9, AnswerTypes
    <2>3. Queues(queue') /\ GuardedIn(queue', Reading)
      BY <1>1, <1>2, <1>3, <1>5, <1>8, <1>12, <2>1, <2>2, AnswerSafe DEF HandlePing
    <2> QED BY <1>10, <1>12, <2>3 DEF HandlePing
  <1>13. CASE HandleExec(p, m, q)
    <2>1. m # RemoveMsg(Broadcast) BY <1>11, <1>13 DEF HandleExec
    <2>2. PICK n \in Counts : queue' = Answer(q, p, m, ExecAnswer(n)) BY <1>13 DEF HandleExec
    <2>0. n \in Int BY Numbers
    <2>3. ExecAnswer(n) \in UpMessage BY <2>0, AnswerTypes
    <2>4. Queues(queue') /\ GuardedIn(queue', Reading)
      BY <1>1, <1>2, <1>3, <1>5, <1>8, <2>1, <2>2, <2>3, AnswerSafe
    <2> QED BY <1>10, <1>13, <2>4 DEF HandleExec
  <1>14. CASE HandleCreate(p, m, q)
    <2>1. m # RemoveMsg(Broadcast) BY <1>11, <1>14 DEF HandleCreate
    <2>2. m.val \in Ids
      BY <1>3, <1>14 DEF HandleCreate, Message, DownMessage, UpMessage, Tasks, Answers
    <2>3. CASE queue' = Answer(q, p, m, CreateAnswer(-1)) /\ UNCHANGED <<st, id, ppid, subs>>
      <3>0. -1 \in Int OBVIOUS
      <3>1. CreateAnswer(-1) \in UpMessage BY <3>0, AnswerTypes
      <3>2. Queues(queue') /\ GuardedIn(queue', Reading)
        BY <1>1, <1>2, <1>3, <1>5, <1>8, <2>1, <2>3, <3>1, AnswerSafe
      <3> QED BY <1>10, <1>14, <2>3, <3>2 DEF HandleCreate
    <2>4. CASE Fork(p, m.val) /\ queue' = Answer(q, p, m, CreateAnswer(FreshPid))
      <3>0. FreshPid \in Pids /\ UNCHANGED <<peer, strays>>
        BY <1>14, <2>4, FreshPidIsFree DEF Fork, HandleCreate
      <3>7. FreshPid \in Int BY <3>0, Numbers
      <3>1. CreateAnswer(FreshPid) \in UpMessage BY <3>7, AnswerTypes
      <3>2. Queues(queue') /\ GuardedIn(queue', Reading)
        BY <1>1, <1>2, <1>3, <1>5, <1>8, <2>1, <2>4, <3>1, AnswerSafe
      <3>3. /\ st' \in [Procs -> {"free", "forked", "up", "stopping", "gone", "killed", "crashed"}]
            /\ id' \in [Procs -> Ids \cup {Root, None}] /\ id'[Server] = Root
            /\ ppid' \in [Procs -> Procs \cup {None}]
            /\ subs' \in [Procs -> SUBSET Endpoints]
            /\ Lineage' /\ Reading' \subseteq Reading
        BY <1>1, <1>9, <2>2, <2>4, <3>0, ForkSafe
      <3>4. NetTypeOK' BY <1>1, <3>0, <3>2, <3>3 DEF NetTypeOK, Queues
      <3>5. DirectionsKept' BY <3>2 DEF DirectionsKept, Queues
      <3>6. RemoveComesFirst' BY <3>2, <3>3 DEF RemoveComesFirst, GuardedIn
      <3> QED BY <3>3, <3>4, <3>5, <3>6 DEF NetInv
    <2> QED BY <1>14, <2>3, <2>4 DEF HandleCreate
  <1>15. CASE HandleRemove(p, m, q)
    <2> DEFINE all == [m EXCEPT !.to = Broadcast]
    <2>1. m \in DownMessage /\ m.type = "remove"
      BY <1>3, <1>15 DEF HandleRemove, Message, DownMessage, UpMessage, Answers
    <2>2. m \in [dir : {"to_client"}, type : (Tasks \ {"create"}) \cup {"emptied"},
                to : Int, val : {None}]
      BY <2>1 DEF DownMessage
    <2>3. all = RemoveMsg(Broadcast) BY <2>1, <2>2 DEF RemoveMsg, Down
    <2> HIDE DEF all
    <2>4. Emptied(all) = Down("emptied", Broadcast, None) BY <2>3 DEF Emptied, RemoveMsg, Down
    <2>5. Emptied(all) \in DownMessage /\ SideOf(Emptied(all)) = "children"
          /\ Emptied(all).to # id[p] /\ Emptied(all) \in Message
      BY <1>9, <2>4, MessageTypes DEF Down, DownMessage, SideOf, Message
    <2>6. queue' = Publish(Publish(q, p, "children", <<RemoveMsg(Broadcast)>>),
                           p, "children", <<Emptied(all)>>)
      BY <1>15, <2>3, <2>5 DEF HandleRemove, Onward, all
    <2>7. RemoveMsg(Broadcast) \in Message /\ RemoveMsg(Broadcast) \in DownMessage
      BY MessageTypes DEF Message
    <2>8. GuardedIn(queue', Reading \ {p})
      BY <1>2, <1>7, <2>5, <2>6, <2>7, PublishPairGuarded
    <2>9. Queues(queue')
      <3>1. "children" \in Sides /\ Carried("children") = DownMessage BY DEF Sides, Carried
      <3>2. Queues(Publish(q, p, "children", <<RemoveMsg(Broadcast)>>))
        BY <1>1, <1>2, <2>7, <3>1, PublishQueues
      <3> QED BY <1>1, <2>5, <2>6, <3>1, <3>2, PublishQueues
    <2>10. /\ st' = [st EXCEPT ![p] = "stopping"] /\ UNCHANGED <<id, ppid, subs, peer, strays>>
      BY <1>15 DEF HandleRemove
    <2>11. NetTypeOK' BY <1>1, <2>9, <2>10 DEF NetTypeOK, Queues
    <2>12. Lineage' BY <1>1, <2>10 DEF Lineage, NetTypeOK
    <2>13. DirectionsKept' BY <2>9 DEF DirectionsKept, Queues
    <2>14. Reading' \subseteq Reading \ {p} BY <1>1, <2>10 DEF Reading, NetTypeOK
    <2>15. RemoveComesFirst' BY <2>8, <2>14 DEF RemoveComesFirst, GuardedIn
    <2> QED BY <2>11, <2>12, <2>13, <2>15 DEF NetInv
  <1>16. CASE Forward(p, m, q)
    <2>1. m # RemoveMsg(Broadcast) BY <1>11, <1>16 DEF Forward, Addressed
    <2>2. Queues(queue') /\ GuardedIn(queue', Reading)
      BY <1>1, <1>2, <1>3, <1>5, <1>8, <1>16, <2>1, OnwardSafe DEF Forward
    <2> QED BY <1>10, <1>16, <2>2 DEF Forward
  <1>17. \/ HandlePing(p, m, q) \/ HandleExec(p, m, q) \/ HandleCreate(p, m, q)
         \/ HandleRemove(p, m, q) \/ Forward(p, m, q)
    BY DEF NodeStep, m, q
  <1> QED BY <1>12, <1>13, <1>14, <1>15, <1>16, <1>17
\* client_deinit and server_deinit.
LEMMA DeinitSafe ==
  ASSUME NetInv, NEW p \in Procs, st[p] # "free", Deinit(p)
  PROVE  NetInv'
  <1> DEFINE q == Publish(queue, p, "children", <<RemoveMsg(Broadcast)>>)
  <1>1. NetTypeOK /\ Lineage /\ Queues(queue) /\ GuardedIn(queue, Reading) BY NetInvForm
  <1>2. RemoveMsg(Broadcast) \in DownMessage /\ RemoveMsg(Broadcast).type # "emptied"
    BY MessageTypes
  <1>3. Reading \in SUBSET Procs BY ReadingProcs
  <1>4. Queues(q) /\ GuardedIn(q, Reading) BY <1>1, <1>2, <1>3, SendSafe
  <1> HIDE DEF q
  <1>5. /\ HangUp(q, p) /\ st' = [st EXCEPT ![p] = "gone"] /\ UNCHANGED <<id, ppid>>
        /\ strays' = strays \cup Unheard(p)
    BY DEF Deinit, q
  <1>6. /\ Queues(queue') /\ GuardedIn(queue', Reading)
        /\ peer' \in [Procs -> [Endpoints -> Procs \cup {None}]]
        /\ subs' \in [Procs -> SUBSET Endpoints]
    BY <1>1, <1>3, <1>4, <1>5, HangUpSafe
  <1>7. NetTypeOK' BY <1>1, <1>5, <1>6 DEF NetTypeOK, Queues, Unheard
  <1>8. Lineage'
    <2>1. \A r \in Pids : st'[r] # "free" => st[r] # "free"
      BY <1>1, <1>5, ReadingProcs DEF NetTypeOK
    <2> QED BY <1>1, <1>5, <2>1 DEF Lineage
  <1>9. Reading' \subseteq Reading BY <1>1, <1>5, ReadingProcs DEF Reading, NetTypeOK
  <1>10. RemoveComesFirst' BY <1>6, <1>9 DEF RemoveComesFirst, GuardedIn
  <1> QED BY <1>6, <1>7, <1>8, <1>10 DEF NetInv, DirectionsKept, Queues
LEMMA KillSafe ==
  ASSUME NetInv, NEW p \in Pids, Kill(p)
  PROVE  NetInv'
  <1> DEFINE heard == {l \in Procs \X Endpoints : peer[l[1]][l[2]] = p}
             Cut(kept) == [r \in Procs |-> [e \in Endpoints |->
                IF <<r, e>> \in heard /\ kept[<<r, e>>] < Len(queue[r][e])
                THEN SubSeq(queue[r][e], 1, kept[<<r, e>>]) ELSE queue[r][e]]]
  <1>1. NetTypeOK /\ Lineage /\ Queues(queue) /\ GuardedIn(queue, Reading) BY NetInvForm
  <1>2. p \in Procs /\ Reading \in SUBSET Procs BY ReadingProcs
  <1>3. /\ st[p] \in {"forked", "up", "stopping"} /\ st' = [st EXCEPT ![p] = "killed"]
        /\ UNCHANGED <<id, ppid, strays>>
    BY DEF Kill
  <1>4. PICK kept \in [heard -> 0 .. MaxKept] : HangUp(Cut(kept), p) BY DEF Kill
  <1> DEFINE q == Cut(kept)
  <1>5. ASSUME NEW r \in Procs, NEW e \in Endpoints
        PROVE  /\ q[r][e] \in Seq(Carried(e[2])) /\ q[r][e] \in Seq(Message)
               /\ r \in Reading => Guarded(q[r][e])
    <2> DEFINE n == kept[<<r, e>>]
    <2>1. queue[r][e] \in Seq(Carried(e[2])) /\ queue[r][e] \in Seq(Message)
      BY <1>1 DEF Queues
    <2>2. r \in Reading => Guarded(queue[r][e]) BY <1>1 DEF GuardedIn
    <2>3. CASE <<r, e>> \in heard /\ n < Len(queue[r][e])
      <3>1. n \in Nat /\ n < Len(queue[r][e]) BY <1>4, <2>3 DEF MaxKept
      <3>2. q[r][e] = SubSeq(queue[r][e], 1, n) BY <2>3
      <3> HIDE DEF q, n
      <3>3. ASSUME NEW S, queue[r][e] \in Seq(S) PROVE q[r][e] \in Seq(S)
        <4>1. 1 \in 1 .. Len(queue[r][e]) + 1 /\ n \in 1 - 1 .. Len(queue[r][e])
          BY <3>1, <3>3
        <4> QED BY <3>2, <3>3, <4>1, SubSeqProperties
      <3>4. q[r][e] \in Seq(Carried(e[2])) /\ q[r][e] \in Seq(Message) BY <2>1, <3>3
      <3>5. r \in Reading => Guarded(q[r][e]) BY <2>1, <2>2, <3>1, <3>2, GuardedPrefix
      <3> QED BY <3>4, <3>5
    <2>4. CASE ~(<<r, e>> \in heard /\ n < Len(queue[r][e]))
      <3>1. q[r][e] = queue[r][e] BY <2>4
      <3> QED BY <2>1, <2>2, <3>1
    <2> QED BY <2>3, <2>4
  <1>6. q \in [Procs -> [Endpoints -> Seq(Message)]]
    <2>1. ASSUME NEW r \in Procs PROVE q[r] \in [Endpoints -> Seq(Message)] BY <1>5
    <2>2. q = [r \in Procs |-> q[r]] OBVIOUS
    <2> HIDE DEF q
    <2> QED BY <2>1, <2>2
  <1>7. HangUp(q, p) BY <1>4
  <1> HIDE DEF q
  <1>8. Queues(q) /\ GuardedIn(q, Reading) BY <1>2, <1>5, <1>6 DEF Queues, GuardedIn
  <1>9. /\ Queues(queue') /\ GuardedIn(queue', Reading)
        /\ peer' \in [Procs -> [Endpoints -> Procs \cup {None}]]
        /\ subs' \in [Procs -> SUBSET Endpoints]
    BY <1>1, <1>2, <1>7, <1>8, HangUpSafe
  <1>10. NetTypeOK' BY <1>1, <1>3, <1>9 DEF NetTypeOK, Queues
  <1>11. Lineage'
    <2>1. \A r \in Pids : st'[r] # "free" => st[r] # "free"
      BY <1>1, <1>2, <1>3, ReadingProcs DEF NetTypeOK
    <2> QED BY <1>1, <1>3, <2>1 DEF Lineage
  <1>12. Reading' \subseteq Reading BY <1>1, <1>2, <1>3, ReadingProcs DEF Reading, NetTypeOK
  <1>13. RemoveComesFirst' BY <1>9, <1>12 DEF RemoveComesFirst, GuardedIn
  <1> QED BY <1>9, <1>10, <1>11, <1>13 DEF NetInv, DirectionsKept, Queues

LEMMA LinkSafe ==
  ASSUME NetInv, NEW q \in Procs, NEW e \in Endpoints, Link(q, e)
  PROVE  NetInv'
  <1>1. peer' \in [Procs -> [Endpoints -> Procs \cup {None}]]
    BY DEF NetInv, NetTypeOK, Link, Bound
  <1>2. UNCHANGED <<st, id, ppid, subs, queue, strays>> BY DEF Link
  <1> QED BY <1>1, <1>2
          DEF NetInv, NetTypeOK, Lineage, DirectionsKept, RemoveComesFirst, Reading

-----------------------------------------------------------------------------------
\* The steps of the server.
ServerTypeOK ==
  /\ pc \in {"idle", "parent", "child", "dest", "create", "exec"}
  /\ cmd \in Command \cup {NoCommand}
  /\ out \in Outs
  /\ typed \in 0 .. Len(Menu) /\ terms \in 0 .. MaxTerms /\ kills \in 0 .. MaxKills
  /\ pc # "idle" => cmd \in Command

LEMMA IInvForm == IInv <=> NetInv /\ ServerTypeOK
  BY DEF IInv, TypeOK, NetInv, ServerTypeOK

LEMMA CommandType ==
  ASSUME NEW c \in Command
  PROVE  c.id \in Ids /\ c.id \in Int /\ c.parent \in Int
         /\ c.parent \in Ids \cup {Root, None}
  <1>1. c.id \in Ids /\ c.parent \in Ids \cup {Root, None} BY DEF Command
  <1>2. Root \in Int /\ None \in Int BY DEF Root, None
  <1> QED BY <1>1, <1>2, Numbers

\* What receive_msg leaves in the queues.
LEMMA ReceiptSafe ==
  ASSUME NetInv, NEW r \in Receipts
  PROVE  Queues(r.rest) /\ GuardedIn(r.rest, Reading)
  <1>1. Queues(queue) /\ GuardedIn(queue, Reading) BY NetInvForm
  <1>2. CASE r.rest = queue BY <1>1, <1>2
  <1>3. ASSUME NEW e \in Endpoints, queue[Server][e] # <<>>, r.rest = Read(Server, e)
        PROVE  Queues(r.rest) /\ GuardedIn(r.rest, Reading)
    <2>1. Queues(r.rest) BY <1>1, <1>3, ReadQueues, ReadingProcs
    <2>2. \A x \in Reading, d \in Endpoints : Read(Server, e)[x][d] = queue[x][d]
      BY <1>1, ReadingProcs DEF Read, Queues, Reading
    <2> QED BY <1>1, <1>3, <2>1, <2>2 DEF GuardedIn
  <1> QED BY <1>2, <1>3 DEF Receipts
LEMMA SameProcesses ==
  ASSUME NetInv, Queues(queue'), GuardedIn(queue', Reading),
         UNCHANGED <<st, id, ppid, subs, peer, strays>>
  PROVE  NetInv'
  <1>1. NetTypeOK' BY NetInvForm DEF NetTypeOK, Queues
  <1>2. Lineage' BY NetInvForm DEF Lineage
  <1>3. DirectionsKept' BY DEF DirectionsKept, Queues
  <1>4. RemoveComesFirst' BY DEF RemoveComesFirst, GuardedIn, Reading
  <1> QED BY <1>1, <1>2, <1>3, <1>4 DEF NetInv

LEMMA ServerSend ==
  ASSUME NEW q, Queues(q), GuardedIn(q, Reading), NEW m \in DownMessage, m.type # "emptied",
         Send(q, m)
  PROVE  Queues(queue') /\ GuardedIn(queue', Reading)
  <1>1. Reading \in SUBSET Procs /\ Server \in Procs BY ReadingProcs
  <1> QED BY <1>1, SendSafe DEF Send

LEMMA ServerAsk ==
  ASSUME NEW q, Queues(q), GuardedIn(q, Reading), NEW i \in Int, AskNext(q, i)
  PROVE  Queues(queue') /\ GuardedIn(queue', Reading)
  <1>1. PingMsg(i) \in DownMessage /\ PingMsg(i).type # "emptied" BY MessageTypes
  <1> QED BY <1>1, ServerSend DEF AskNext

LEMMA ReadCommandSafe ==
  ASSUME IInv, ReadCommand
  PROVE  IInv'
  <1>1. NetInv /\ ServerTypeOK BY IInvForm
  <1>2. PICK c \in Menu[typed + 1] :
          /\ cmd' = c
          /\ pc' \in {"parent", "child", "dest"}
          /\ AskNext(queue, c.parent) \/ AskNext(queue, c.id)
    BY DEF ReadCommand
  <1>3. typed + 1 \in 1 .. Len(Menu) /\ typed' = typed + 1
    BY <1>1, MessageTreeAssumption DEF ReadCommand, ServerTypeOK
  <1>4. c \in Command BY <1>2, <1>3, MessageTreeAssumption
  <1>5. c.id \in Int /\ c.parent \in Int BY <1>4, CommandType
  <1>6. Queues(queue) /\ GuardedIn(queue, Reading) BY <1>1, NetInvForm
  <1>7. Queues(queue') /\ GuardedIn(queue', Reading) BY <1>2, <1>5, <1>6, ServerAsk
  <1>8. NetInv' BY <1>1, <1>7, SameProcesses DEF ReadCommand
  <1>9. ServerTypeOK' BY <1>1, <1>2, <1>3, <1>4 DEF ReadCommand, ServerTypeOK
  <1> QED BY <1>8, <1>9, IInvForm DEF IInv, TypeOK, NetInv, ServerTypeOK

LEMMA CheckParentSafe ==
  ASSUME IInv, CheckParent
  PROVE  IInv'
  <1>1. NetInv /\ ServerTypeOK /\ cmd \in Command
    BY IInvForm DEF CheckParent, ServerTypeOK
  <1>2. PICK r \in Receipts :
          \/ AskNext(r.rest, cmd.id) /\ pc' = "child" /\ UNCHANGED out
          \/ queue' = r.rest /\ Say("no_parent")
    BY DEF CheckParent
  <1>3. Queues(r.rest) /\ GuardedIn(r.rest, Reading) BY <1>1, ReceiptSafe
  <1>4. cmd.id \in Int BY <1>1, CommandType
  <1>5. Queues(queue') /\ GuardedIn(queue', Reading) BY <1>2, <1>3, <1>4, ServerAsk
  <1>6. NetInv' BY <1>1, <1>5, SameProcesses DEF CheckParent
  <1>7. ServerTypeOK' BY <1>1, <1>2 DEF CheckParent, ServerTypeOK, Say, Outs
  <1> QED BY <1>6, <1>7 DEF IInv, TypeOK, NetInv, ServerTypeOK

LEMMA CheckChildSafe ==
  ASSUME IInv, CheckChild
  PROVE  IInv'
  <1>1. NetInv /\ ServerTypeOK /\ cmd \in Command
    BY IInvForm DEF CheckChild, ServerTypeOK
  <1>2. PICK r \in Receipts :
          \/ queue' = r.rest /\ Say("exists") /\ UNCHANGED <<st, id, ppid, subs>>
          \/ /\ Send(r.rest, CreateMsg(cmd.parent, cmd.id))
             /\ pc' = "create" /\ UNCHANGED <<out, st, id, ppid, subs>>
          \/ queue' = r.rest /\ Say("error") /\ UNCHANGED <<st, id, ppid, subs>>
          \/ Fork(Server, cmd.id) /\ queue' = r.rest /\ Say("ok")
    BY DEF CheckChild
  <1>3. Queues(r.rest) /\ GuardedIn(r.rest, Reading) BY <1>1, ReceiptSafe
  <1>4. cmd.id \in Ids /\ cmd.parent \in Int BY <1>1, CommandType
  <1>5. ServerTypeOK' BY <1>1, <1>2 DEF CheckChild, ServerTypeOK, Say, Outs
  <1>6. CreateMsg(cmd.parent, cmd.id) \in DownMessage
        /\ CreateMsg(cmd.parent, cmd.id).type # "emptied"
    BY <1>4, MessageTypes
  <1>7. Queues(queue') /\ GuardedIn(queue', Reading) BY <1>2, <1>3, <1>6, ServerSend
  <1>8. CASE UNCHANGED <<st, id, ppid, subs>>
    <2>1. NetInv' BY <1>1, <1>7, <1>8, SameProcesses DEF CheckChild
    <2> QED BY <1>5, <2>1 DEF IInv, TypeOK, NetInv, ServerTypeOK
  <1>9. CASE Fork(Server, cmd.id)
    <2>0. /\ NetTypeOK /\ Lineage /\ id[Server] \in Ids \cup {Root} /\ Server \in Procs
          /\ UNCHANGED <<peer, strays>>
      BY <1>1, ReadingProcs DEF NetInv, NetTypeOK, CheckChild
    <2>1. /\ st' \in [Procs -> {"free", "forked", "up", "stopping", "gone", "killed", "crashed"}]
          /\ id' \in [Procs -> Ids \cup {Root, None}] /\ id'[Server] = Root
          /\ ppid' \in [Procs -> Procs \cup {None}]
          /\ subs' \in [Procs -> SUBSET Endpoints]
          /\ Lineage' /\ Reading' \subseteq Reading
      BY <1>4, <1>9, <2>0, ForkSafe
    <2>2. NetTypeOK' BY <1>7, <2>0, <2>1 DEF NetTypeOK, Queues
    <2>3. RemoveComesFirst' BY <1>7, <2>1 DEF RemoveComesFirst, GuardedIn
    <2>4. DirectionsKept' BY <1>7 DEF DirectionsKept, Queues
    <2> QED BY <1>5, <2>1, <2>2, <2>3, <2>4 DEF IInv, TypeOK, ServerTypeOK
  <1> QED BY <1>2, <1>8, <1>9
LEMMA CheckDestSafe ==
  ASSUME IInv, CheckDest
  PROVE  IInv'
  <1>1. NetInv /\ ServerTypeOK /\ cmd \in Command
    BY IInvForm DEF CheckDest, ServerTypeOK
  <1>2. PICK r \in Receipts :
          \/ queue' = r.rest /\ Say("not_found")
          \/ queue' = r.rest /\ Say("ok")
          \/ Send(r.rest, RemoveMsg(cmd.id)) /\ Say("ok")
          \/ Send(r.rest, ExecMsg(cmd.id)) /\ pc' = "exec" /\ UNCHANGED out
    BY DEF CheckDest
  <1>3. Queues(r.rest) /\ GuardedIn(r.rest, Reading) BY <1>1, ReceiptSafe
  <1>4. cmd.id \in Int BY <1>1, CommandType
  <1>5. /\ RemoveMsg(cmd.id) \in DownMessage /\ RemoveMsg(cmd.id).type # "emptied"
        /\ ExecMsg(cmd.id) \in DownMessage /\ ExecMsg(cmd.id).type # "emptied"
    BY <1>4, MessageTypes
  <1>6. Queues(queue') /\ GuardedIn(queue', Reading) BY <1>2, <1>3, <1>5, ServerSend
  <1>7. NetInv' BY <1>1, <1>6, SameProcesses DEF CheckDest
  <1>8. ServerTypeOK' BY <1>1, <1>2 DEF CheckDest, ServerTypeOK, Say, Outs
  <1> QED BY <1>7, <1>8 DEF IInv, TypeOK, NetInv, ServerTypeOK

\* A decoded or an undecodable answer: the server goes on, or ends without a goodbye.
LEMMA AnsweredSafe ==
  ASSUME IInv, NEW r \in Receipts, NEW o \in Outs, Say(o),
         \/ queue' = r.rest /\ UNCHANGED <<st, subs, peer>>
         \/ DecodeGarbage(r.rest),
         UNCHANGED <<id, ppid, strays, cmd, typed, terms, kills>>
  PROVE  IInv'
  <1>1. NetInv /\ ServerTypeOK BY IInvForm
  <1>2. ServerTypeOK' BY <1>1 DEF ServerTypeOK, Say
  <1>3. Queues(r.rest) /\ GuardedIn(r.rest, Reading) BY <1>1, ReceiptSafe
  <1>4. CASE queue' = r.rest /\ UNCHANGED <<st, subs, peer>>
    <2>1. NetInv' BY <1>1, <1>3, <1>4, SameProcesses
    <2> QED BY <1>2, <2>1 DEF IInv, TypeOK, NetInv, ServerTypeOK
  <1>5. CASE st' = [st EXCEPT ![Server] = "crashed"] /\ HangUp(r.rest, Server)
    <2>0. Reading \in SUBSET Procs /\ Server \in Procs /\ NetTypeOK /\ Lineage
      BY <1>1, ReadingProcs DEF NetInv
    <2>1. /\ Queues(queue') /\ GuardedIn(queue', Reading)
          /\ peer' \in [Procs -> [Endpoints -> Procs \cup {None}]]
          /\ subs' \in [Procs -> SUBSET Endpoints]
      BY <1>3, <1>5, <2>0, HangUpSafe
    <2>2. NetTypeOK' BY <1>5, <2>0, <2>1 DEF NetTypeOK, Queues
    <2>3. \A p \in Pids : st'[p] = st[p] BY <1>5, <2>0, ReadingProcs DEF NetTypeOK
    <2>4. Lineage' BY <2>0, <2>3 DEF Lineage
    <2>5. RemoveComesFirst' BY <2>1, <2>3 DEF RemoveComesFirst, GuardedIn, Reading
    <2>6. DirectionsKept' BY <2>1 DEF DirectionsKept, Queues
    <2> QED BY <1>2, <2>2, <2>4, <2>5, <2>6 DEF IInv, TypeOK, ServerTypeOK
  <1> QED BY <1>4, <1>5 DEF DecodeGarbage

LEMMA DoneSafe ==
  ASSUME IInv, CreateDone \/ ExecDone
  PROVE  IInv'
  <1>1. PICK r \in Receipts : \E o \in Outs :
          /\ Say(o)
          /\ \/ queue' = r.rest /\ UNCHANGED <<st, subs, peer>>
             \/ DecodeGarbage(r.rest)
    <2>1. CASE CreateDone BY <2>1 DEF CreateDone, DecodeGarbage, Say, Outs
    <2>2. CASE ExecDone BY <2>2 DEF ExecDone, DecodeGarbage, Say, Outs
    <2> QED BY <2>1, <2>2
  <1>2. UNCHANGED <<id, ppid, strays, cmd, typed, terms, kills>> BY DEF CreateDone, ExecDone
  <1> QED BY <1>1, <1>2, AnsweredSafe

-----------------------------------------------------------------------------------
LEMMA InitSafe == Init => IInv
  <1> SUFFICES ASSUME Init PROVE IInv OBVIOUS
  <1> USE DEF Init, NetInit
  <1>1. \A p \in Procs, e \in Endpoints :
          queue[p][e] = <<>> /\ queue[p][e] \in Seq(Carried(e[2]))
    <2>1. \A S : <<>> \in Seq(S) OBVIOUS
    <2> QED BY <2>1
  <1>2. queue \in [Procs -> [Endpoints -> Seq(Message)]] OBVIOUS
  <1>3. NetTypeOK BY <1>2, ReadingProcs DEF NetTypeOK
  <1>4. Lineage BY ReadingProcs DEF Lineage
  <1>5. Guarded(<<>>) BY DEF Guarded
  <1>6. RemoveComesFirst BY <1>1, <1>5, ReadingProcs DEF RemoveComesFirst
  <1>7. DirectionsKept BY <1>1 DEF DirectionsKept
  <1>8. ServerTypeOK BY MessageTreeAssumption DEF ServerTypeOK, Outs
  <1> QED BY <1>3, <1>4, <1>6, <1>7, <1>8 DEF IInv, TypeOK, ServerTypeOK

LEMMA StepSafe == IInv /\ [Next]_vars => IInv'
  <1> SUFFICES ASSUME IInv, [Next]_vars PROVE IInv' OBVIOUS
  <1>0. NetInv /\ ServerTypeOK BY IInvForm
  <1>1. ASSUME NetInv', ServerTypeOK' PROVE IInv'
    BY <1>1 DEF IInv, TypeOK, NetInv, ServerTypeOK
  <1>2. ASSUME UNCHANGED server PROVE ServerTypeOK' BY <1>0, <1>2 DEF ServerTypeOK, server
  <1>3. CASE ReadCommand BY <1>3, ReadCommandSafe
  <1>4. CASE Receive
    BY <1>4, CheckParentSafe, CheckChildSafe, CheckDestSafe, DoneSafe DEF Receive
  <1>5. CASE ServerStop
    <2>1. Server \in Procs /\ st[Server] # "free" /\ Deinit(Server) /\ UNCHANGED server
      BY <1>5, ReadingProcs DEF ServerStop
    <2> QED BY <1>0, <1>1, <1>2, <2>1, DeinitSafe
  <1>6. ASSUME NEW p \in Pids, NodeNext(p), UNCHANGED server PROVE IInv'
    <2>1. CASE NodeInit(p) BY <1>0, <1>1, <1>2, <1>6, <2>1, NodeInitSafe
    <2>2. CASE NodeStop(p)
      <3>1. p \in Procs /\ st[p] # "free" /\ Deinit(p) BY <2>2, ReadingProcs DEF NodeStop
      <3> QED BY <1>0, <1>1, <1>2, <1>6, <3>1, DeinitSafe
    <2>3. ASSUME NEW e \in Endpoints, NodeStep(p, e) PROVE IInv'
      BY <1>0, <1>1, <1>2, <1>6, <2>3, NodeStepSafe
    <2> QED BY <1>6, <2>1, <2>2, <2>3 DEF NodeNext
  <1>7. ASSUME NEW p \in Pids, NodeSignal(p) PROVE IInv'
    <2>1. p \in Procs /\ st[p] # "free" /\ Deinit(p)
      BY <1>7, ReadingProcs DEF NodeSignal, NodeTerm
    <2>2. ServerTypeOK'
      BY <1>0, <1>7, MessageTreeAssumption DEF NodeSignal, ServerTypeOK
    <2> QED BY <1>0, <1>1, <2>1, <2>2, DeinitSafe
  <1>8. ASSUME NEW p \in Pids, NodeKill(p) PROVE IInv'
    <2>1. Kill(p) BY <1>8 DEF NodeKill
    <2>2. ServerTypeOK'
      BY <1>0, <1>8, MessageTreeAssumption DEF NodeKill, ServerTypeOK
    <2> QED BY <1>0, <1>1, <2>1, <2>2, KillSafe
  <1>9. ASSUME NEW q \in Procs, NEW e \in Endpoints, Link(q, e), UNCHANGED server PROVE IInv'
    BY <1>0, <1>1, <1>2, <1>9, LinkSafe
  <1>10. CASE UNCHANGED vars
    BY <1>10 DEF vars, net, server, IInv, TypeOK, NetTypeOK, Lineage, DirectionsKept,
                 RemoveComesFirst, Reading
  <1> QED BY <1>3, <1>4, <1>5, <1>6, <1>7, <1>8, <1>9, <1>10 DEF Next, AllGone

\* The invariant: types, who is whose parent, which way messages travel, and that a remove
\* comes before the empty message that follows it.
THEOREM Invariance == Spec => []IInv
  BY InitSafe, StepSafe, PTL DEF Spec

\* Every state of every run is well typed: in particular a node is only ever created for
\* an id, every endpoint a process connects to is one somebody can bind, and what is
\* decoded as a create names an id.
THEOREM TypeCorrect == Spec => []TypeOK
  <1>1. IInv => TypeOK BY DEF IInv
  <1> QED BY <1>1, Invariance, PTL

\* client_run's choice of socket by the header's direction never sends a task up or an
\* answer down.
THEOREM TasksDownAnswersUp == Spec => []DirectionsKept
  <1>1. IInv => DirectionsKept BY DEF IInv
  <1> QED BY <1>1, Invariance, PTL

\* Although handle_remove makes client_run send a message_t it has already sent, no node
\* that is still in its loop reads the empty message: a remove is always read first,
\* also after kills, lost links and reconnections.
THEOREM EmptiedNeverRead == Spec => []EmptiedIsNotRead
  <1>1. ASSUME IInv PROVE EmptiedIsNotRead
    <2> SUFFICES ASSUME NEW p \in Pids, NEW e \in Endpoints, st[p] = "up", queue[p][e] # <<>>,
                        Head(queue[p][e]).type = "emptied"
                 PROVE  FALSE
      BY DEF EmptiedIsNotRead
    <2>1. queue[p][e] \in Seq(Message)
      BY <1>1, ReadingProcs DEF IInv, TypeOK, NetTypeOK
    <2>2. Guarded(queue[p][e]) BY <1>1 DEF IInv, RemoveComesFirst, Reading
    <2>3. 1 \in 1 .. Len(queue[p][e]) /\ queue[p][e][1] = Head(queue[p][e]) BY <2>1
    <2>4. ~\E j \in 1 .. 1 - 1 : queue[p][e][j] = RemoveMsg(Broadcast) OBVIOUS
    <2> QED BY <2>2, <2>3, <2>4 DEF Guarded
  <1> QED BY <1>1, Invariance, PTL

-----------------------------------------------------------------------------------
\* A remove for all waits in a queue of r.
Has(q, r) == \E e \in Endpoints : \E k \in 1 .. Len(q[r][e]) : q[r][e][k] = RemoveMsg(Broadcast)

\* Whoever is left by its parent and is no stray has been told, also before it runs.
AreTold == \A r \in Pids \ strays :
  st[r] \in {"forked", "up"} /\ st[ppid[r]] = "gone" => Has(queue, r)

\* A step after which nobody is newly left by its parent, and no remove is lost.
LeavesTold == \A r \in Pids : st'[r] \in {"forked", "up"} /\ st'[ppid'[r]] = "gone" =>
  /\ st[r] \in {"forked", "up"} /\ ppid'[r] = ppid[r] /\ st[ppid[r]] = "gone"
  /\ Has(queue, r) => Has(queue', r)

LEMMA ToldStays ==
  ASSUME AreTold, LeavesTold, strays' = strays PROVE AreTold'
  BY DEF AreTold, LeavesTold, Has

\* What another process publishes, and the reading of another message, leave the remove.
LEMMA PublishHas ==
  ASSUME NEW q, Queues(q), NEW p, NEW side, NEW m \in Message, NEW r \in Procs, Has(q, r)
  PROVE  Has(Publish(q, p, side, <<m>>), r)
  <1> DEFINE Q == Publish(q, p, side, <<m>>)
  <1>0. PICK e \in Endpoints : \E k \in 1 .. Len(q[r][e]) : q[r][e][k] = RemoveMsg(Broadcast)
    BY DEF Has
  <1>1. PICK k \in 1 .. Len(q[r][e]) : q[r][e][k] = RemoveMsg(Broadcast)
    BY <1>0
  <1>2. q[r][e] \in Seq(Message) BY DEF Queues
  <1>3. Q[r][e] = q[r][e] \o <<m>> \/ Q[r][e] = q[r][e] BY DEF Publish
  <1>4. k \in 1 .. Len(Q[r][e]) /\ Q[r][e][k] = q[r][e][k] BY <1>2, <1>3
  <1> HIDE DEF Q
  <1>5. Has(Q, r) BY <1>1, <1>4 DEF Has
  <1> QED BY <1>5 DEF Q

LEMMA ReadHas ==
  ASSUME Queues(queue), NEW p \in Procs, NEW e \in Endpoints, queue[p][e] # <<>>,
         NEW r \in Procs, r # p \/ Head(queue[p][e]) # RemoveMsg(Broadcast), Has(queue, r)
  PROVE  Has(Read(p, e), r)
  <1> DEFINE Q == Read(p, e)
  <1>0. PICK d \in Endpoints : \E k \in 1 .. Len(queue[r][d]) : queue[r][d][k] = RemoveMsg(Broadcast)
    BY DEF Has
  <1>1. PICK k \in 1 .. Len(queue[r][d]) : queue[r][d][k] = RemoveMsg(Broadcast)
    BY <1>0
  <1>2. queue[r][d] \in Seq(Message) BY DEF Queues
  <1>3. Q[r][d] = IF r = p /\ d = e THEN Tail(queue[p][e]) ELSE queue[r][d]
    BY DEF Read, Queues
  <1>4. \E j \in 1 .. Len(Q[r][d]) : Q[r][d][j] = RemoveMsg(Broadcast)
    <2>1. CASE r = p /\ d = e
      <3>1. k # 1 BY <1>1, <1>2, <2>1
      <3>2. k - 1 \in 1 .. Len(Tail(queue[r][d])) /\ Tail(queue[r][d])[k - 1] = queue[r][d][k]
        BY <1>2, <3>1
      <3> QED BY <1>1, <1>3, <2>1, <3>2
    <2>2. CASE ~(r = p /\ d = e) BY <1>1, <1>3, <2>2
    <2> QED BY <2>1, <2>2
  <1> HIDE DEF Q
  <1>5. Has(Q, r) BY <1>4 DEF Has
  <1> QED BY <1>5 DEF Q

LEMMA OnwardHas ==
  ASSUME NEW q, Queues(q), NEW p \in Procs, NEW m \in Message, NEW r \in Procs, Has(q, r)
  PROVE  Has(Onward(q, p, m), r)
  <1>1. Has(Publish(q, p, SideOf(m), <<m>>), r) BY PublishHas
  <1> QED BY <1>1 DEF Onward

LEMMA AnswerHas ==
  ASSUME NEW q, Queues(q), NEW p \in Procs, NEW m \in Message, NEW a \in UpMessage,
         NEW r \in Procs, Has(q, r)
  PROVE  Has(Answer(q, p, m, a), r)
  <1> DEFINE Q == Publish(q, p, "parent", <<a>>)
  <1>1. a \in Carried("parent") /\ "parent" \in Sides /\ a \in Message
    BY DEF Carried, Sides, Message
  <1>2. Queues(Q) /\ Has(Q, r) BY <1>1, PublishQueues, PublishHas
  <1> HIDE DEF Q
  <1>3. Has(Onward(Q, p, m), r) BY <1>2, OnwardHas
  <1> QED BY <1>3 DEF Answer, Q

\* A fork: the new process has a parent that is up.
LEMMA ForkLeaves ==
  ASSUME NetInv, NEW p \in Procs, st[p] = "up", NEW child, Fork(p, child),
         \A r \in Pids : Has(queue, r) => Has(queue', r)
  PROVE  LeavesTold
  <1>1. FreshPid \in Pids /\ FreshPid \in Procs /\ st[FreshPid] = "free"
    BY FreshPidIsFree, ReadingProcs DEF Fork
  <1>2. st \in [Procs -> {"free", "forked", "up", "stopping", "gone", "killed", "crashed"}]
        /\ ppid \in [Procs -> Procs \cup {None}]
    BY DEF NetInv, NetTypeOK
  <1> SUFFICES ASSUME NEW r \in Pids, st'[r] \in {"forked", "up"}, st'[ppid'[r]] = "gone"
               PROVE  /\ st[r] \in {"forked", "up"} /\ ppid'[r] = ppid[r]
                      /\ st[ppid[r]] = "gone"
    BY DEF LeavesTold
  <1>3. st' = [st EXCEPT ![FreshPid] = "forked"] /\ ppid' = [ppid EXCEPT ![FreshPid] = p]
    BY DEF Fork
  <1>4. r # FreshPid
    <2> SUFFICES ASSUME r = FreshPid PROVE FALSE OBVIOUS
    <2>1. ppid'[r] = p /\ st'[p] # "gone" BY <1>1, <1>2, <1>3
    <2> QED BY <2>1
  <1>5. st'[r] = st[r] /\ ppid'[r] = ppid[r] BY <1>1, <1>2, <1>3, <1>4, ReadingProcs
  <1>6. ppid[r] \in Procs BY <1>5 DEF NetInv, Lineage
  <1>7. st[ppid[r]] = "gone" BY <1>1, <1>2, <1>3, <1>5, <1>6
  <1> QED BY <1>5, <1>7

\* A node that goes on after a message read something else than the remove.
LEMMA NodeStepTold ==
  ASSUME NetInv, AreTold, NEW p \in Pids, NEW e \in Endpoints, NodeStep(p, e)
  PROVE  AreTold'
  <1> DEFINE m == Head(queue[p][e])
             q == Read(p, e)
  <1> USE ReadingProcs
  <1>1. /\ NetTypeOK /\ Lineage /\ Queues(queue) /\ st[p] = "up" /\ queue[p][e] # <<>>
        /\ p \in Procs
    BY NetInvForm DEF NodeStep
  <1>2. Queues(q) /\ m \in Carried(e[2]) BY <1>1, ReadQueues
  <1>3. m \in Message BY <1>2, CarriedMessage DEF Endpoints
  <1>4. \A r \in Pids : (r # p \/ m # RemoveMsg(Broadcast)) /\ Has(queue, r) => Has(q, r)
    BY <1>1, ReadHas
  <1>5. id[p] \in Ids BY <1>1 DEF Lineage
  <1>6. RemoveMsg(Broadcast).type = "remove" /\ RemoveMsg(Broadcast).to = Broadcast
    BY DEF RemoveMsg, Down
  <1>7. \/ HandlePing(p, m, q) \/ HandleExec(p, m, q) \/ HandleCreate(p, m, q)
        \/ HandleRemove(p, m, q) \/ Forward(p, m, q)
    BY DEF NodeStep
  <1> HIDE DEF q, m
  <1>8. ASSUME m # RemoveMsg(Broadcast), NEW a \in UpMessage, queue' = Answer(q, p, m, a)
        PROVE  \A r \in Pids : Has(queue, r) => Has(queue', r)
    BY <1>1, <1>2, <1>3, <1>4, <1>8, AnswerHas
  <1>9. ASSUME \A r \in Pids : Has(queue, r) => Has(queue', r), UNCHANGED <<st, ppid>>
        PROVE  LeavesTold
    BY <1>9 DEF LeavesTold
  <1>10. CASE HandlePing(p, m, q)
    <2>1. id[p] \in Int BY <1>5, Numbers
    <2>2. PingAnswer(id[p]) \in UpMessage BY <2>1, AnswerTypes
    <2> QED BY <1>6, <1>8, <1>9, <1>10, <2>2, ToldStays DEF HandlePing
  <1>11. CASE HandleExec(p, m, q)
    <2>1. PICK n \in Counts : queue' = Answer(q, p, m, ExecAnswer(n)) BY <1>11 DEF HandleExec
    <2>2. n \in Int BY Numbers
    <2>3. ExecAnswer(n) \in UpMessage BY <2>2, AnswerTypes
    <2> QED BY <1>6, <1>8, <1>9, <1>11, <2>1, <2>3, ToldStays DEF HandleExec
  <1>12. CASE HandleCreate(p, m, q)
    <2>1. CASE queue' = Answer(q, p, m, CreateAnswer(-1)) /\ UNCHANGED <<st, id, ppid, subs>>
      <3>1. -1 \in Int OBVIOUS
      <3>2. CreateAnswer(-1) \in UpMessage BY <3>1, AnswerTypes
      <3> QED BY <1>6, <1>8, <1>9, <1>12, <2>1, <3>2, ToldStays DEF HandleCreate
    <2>2. CASE Fork(p, m.val) /\ queue' = Answer(q, p, m, CreateAnswer(FreshPid))
      <3>1. FreshPid \in Int BY <2>2, FreshPidIsFree, Numbers DEF Fork
      <3>2. CreateAnswer(FreshPid) \in UpMessage BY <3>1, AnswerTypes
      <3>3. \A r \in Pids : Has(queue, r) => Has(queue', r)
        BY <1>6, <1>8, <1>12, <2>2, <3>2 DEF HandleCreate
      <3>4. LeavesTold BY <1>1, <2>2, <3>3, ForkLeaves
      <3> QED BY <1>12, <3>4, ToldStays DEF HandleCreate
    <2> QED BY <1>12, <2>1, <2>2 DEF HandleCreate
  <1>13. CASE HandleRemove(p, m, q)
    <2> DEFINE all == [m EXCEPT !.to = Broadcast]
               Q   == Publish(q, p, "children", <<all>>)
    <2>1. m \in DownMessage /\ m.type = "remove"
      BY <1>3, <1>13 DEF HandleRemove, Message, DownMessage, UpMessage, Answers
    <2>2. m \in [dir : {"to_client"}, type : (Tasks \ {"create"}) \cup {"emptied"},
                to : Int, val : {None}]
      BY <2>1 DEF DownMessage
    <2>3. all = RemoveMsg(Broadcast) BY <2>1, <2>2 DEF RemoveMsg, Down
    <2>4. all \in DownMessage /\ all \in Message BY <2>3, MessageTypes DEF Message
    <2> HIDE DEF all
    <2>5. Emptied(all) = Down("emptied", Broadcast, None)
      BY <2>3 DEF Emptied, RemoveMsg, Down
    <2>6. Emptied(all) \in Message
      BY <2>5, MessageTypes DEF Down, DownMessage, Message
    <2>7. "children" \in Sides /\ all \in Carried("children") BY <2>4 DEF Sides, Carried
    <2>8. Queues(Q) BY <1>1, <1>2, <2>7, PublishQueues
    <2>9. \A r \in Pids \ {p} : Has(queue, r) => Has(Q, r) BY <1>2, <1>4, <2>4, PublishHas
    <2>10. queue' = Onward(Q, p, Emptied(all)) BY <1>13 DEF HandleRemove, all
    <2> HIDE DEF Q
    <2>11. \A r \in Pids \ {p} : Has(queue, r) => Has(queue', r)
      BY <1>1, <2>6, <2>8, <2>9, <2>10, OnwardHas
    <2>12. st' = [st EXCEPT ![p] = "stopping"] /\ ppid' = ppid /\ strays' = strays
      BY <1>13 DEF HandleRemove
    <2>13. \A r \in Pids : st'[r] \in {"forked", "up"} => r # p /\ st'[r] = st[r] /\ ppid[r] \in Procs
      BY <1>1, <2>12 DEF NetTypeOK, Lineage
    <2>14. \A r \in Procs : st'[r] = "gone" => st[r] = "gone"
      BY <1>1, <2>12 DEF NetTypeOK
    <2>15. LeavesTold BY <2>11, <2>12, <2>13, <2>14 DEF LeavesTold
    <2> QED BY <2>12, <2>15, ToldStays
  <1>14. CASE Forward(p, m, q)
    <2>1. m # RemoveMsg(Broadcast) BY <1>6, <1>14 DEF Forward, Addressed
    <2>2. \A r \in Pids : Has(queue, r) => Has(queue', r)
      BY <1>1, <1>2, <1>3, <1>4, <1>14, <2>1, OnwardHas DEF Forward
    <2> QED BY <1>9, <1>14, <2>2, ToldStays DEF Forward
  <1> QED BY <1>7, <1>10, <1>11, <1>12, <1>13, <1>14

\* client_deinit and server_deinit: a child that is connected gets the remove.
LEMMA DeinitTold ==
  ASSUME NetInv, AreTold, NEW p \in Procs, Deinit(p)
  PROVE  AreTold'
  <1> DEFINE q == Publish(queue, p, "children", <<RemoveMsg(Broadcast)>>)
  <1>1. NetTypeOK /\ Lineage /\ Queues(queue) BY NetInvForm
  <1>2. RemoveMsg(Broadcast) \in DownMessage /\ RemoveMsg(Broadcast) \in Message
    BY MessageTypes DEF Message
  <1>3. "children" \in Sides /\ RemoveMsg(Broadcast) \in Carried("children")
    BY <1>2 DEF Sides, Carried
  <1>4. Queues(q) BY <1>1, <1>3, PublishQueues
  <1>5. \A r \in Pids : Has(queue, r) => Has(q, r)
    BY <1>1, <1>2, PublishHas, ReadingProcs
  <1>6. ASSUME NEW r \in Pids, peer[r][<<id[p], "children">>] = p, <<id[p], "children">> \in Endpoints
        PROVE  Has(q, r)
    <2> DEFINE e == <<id[p], "children">>
    <2>1. q[r][e] = queue[r][e] \o <<RemoveMsg(Broadcast)>> /\ queue[r][e] \in Seq(Message)
      BY <1>1, <1>6, ReadingProcs DEF Publish, Queues
    <2> HIDE DEF q, e
    <2>2. PICK s \in Seq(Message) : q[r][e] = s \o <<RemoveMsg(Broadcast)>>
      BY <2>1
    <2>3. Len(s) + 1 \in 1 .. Len(q[r][e]) /\ q[r][e][Len(s) + 1] = RemoveMsg(Broadcast)
      BY <1>2, <2>2
    <2>4. e \in Endpoints BY <1>6 DEF e
    <2> QED BY <2>3, <2>4 DEF Has
  <1> HIDE DEF q
  <1>7. /\ HangUp(q, p) /\ st' = [st EXCEPT ![p] = "gone"] /\ ppid' = ppid
        /\ strays' = strays \cup Unheard(p)
    BY DEF Deinit, q
  <1> SUFFICES ASSUME NEW r \in Pids, r \notin strays', st'[r] \in {"forked", "up"},
                      st'[ppid[r]] = "gone"
               PROVE  Has(queue', r)
    BY <1>7 DEF AreTold, Has
  <1>8. r # p /\ st[r] \in {"forked", "up"} /\ r \in Procs
    BY <1>1, <1>7, ReadingProcs DEF NetTypeOK
  <1>9. Has(q, r)
    <2>1. CASE ppid[r] = p
      <3>1. id[p] \in Ids \cup {Root} BY <1>8, <2>1 DEF NetInv, Lineage
      <3>2. <<id[p], "children">> \in Endpoints BY <3>1 DEF Endpoints, Sides
      <3>3. r \notin Unheard(p) BY <1>7
      <3>4. peer[r][<<id[p], "children">>] = p BY <1>8, <2>1, <3>3 DEF Unheard
      <3> QED BY <1>6, <3>2, <3>4
    <2>2. CASE ppid[r] # p
      <3>1. ppid[r] \in Procs BY <1>8 DEF NetInv, Lineage
      <3>2. st[ppid[r]] = "gone" BY <1>1, <1>7, <2>2, <3>1 DEF NetTypeOK
      <3> QED BY <1>5, <1>7, <1>8, <3>2 DEF AreTold
    <2> QED BY <2>1, <2>2
  <1>10. \A e \in Endpoints : queue'[r][e] = q[r][e]
    BY <1>4, <1>7, <1>8 DEF HangUp, Unread, Queues
  <1> QED BY <1>9, <1>10 DEF Has

\* The server reads its own messages, sends down, forks, and crashes.
LEMMA ServerTold ==
  ASSUME IInv, AreTold, ReadCommand \/ Receive
  PROVE  AreTold'
  <1> USE ReadingProcs
  <1>1. NetInv /\ Queues(queue) /\ ServerTypeOK BY IInvForm, NetInvForm
  <1>2. ASSUME NEW q, Queues(q), NEW m \in Message, Send(q, m),
               \A r \in Pids : Has(queue, r) => Has(q, r)
        PROVE  \A r \in Pids : Has(queue, r) => Has(queue', r)
    BY <1>2, PublishHas DEF Send
  <1>3. ASSUME NEW r \in Receipts
        PROVE  Queues(r.rest) /\ \A x \in Pids : Has(queue, x) => Has(r.rest, x)
    <2>1. Queues(r.rest) BY <1>1, <1>3, ReceiptSafe
    <2>2. r.rest = queue \/ \E e \in Endpoints : queue[Server][e] # <<>> /\ r.rest = Read(Server, e)
      BY <1>3 DEF Receipts
    <2>3. \A e \in Endpoints, x \in Pids : queue[Server][e] # <<>> /\ Has(queue, x)
             => Has(Read(Server, e), x)
      BY <1>1, ReadHas
    <2> QED BY <2>1, <2>2, <2>3
  <1>4. ASSUME \A r \in Pids : Has(queue, r) => Has(queue', r), UNCHANGED <<st, ppid, strays>>
        PROVE  AreTold'
    BY <1>4, ToldStays DEF LeavesTold
  <1>5. \A i \in Int : /\ PingMsg(i) \in Message /\ ExecMsg(i) \in Message /\ RemoveMsg(i) \in Message
                       /\ \A c \in Ids : CreateMsg(i, c) \in Message
    BY MessageTypes DEF Message
  <1>6. pc # "idle" => cmd.id \in Ids /\ cmd.id \in Int /\ cmd.parent \in Int
    BY <1>1, CommandType DEF ServerTypeOK
  <1>7. CASE ReadCommand
    <2>1. PICK c \in Menu[typed + 1] : AskNext(queue, c.parent) \/ AskNext(queue, c.id)
      BY <1>7 DEF ReadCommand
    <2>2. typed + 1 \in 1 .. Len(Menu)
      BY <1>1, <1>7, MessageTreeAssumption DEF ReadCommand, ServerTypeOK
    <2>3. c \in Command BY <2>1, <2>2, MessageTreeAssumption
    <2>4. c.id \in Int /\ c.parent \in Int BY <2>3, CommandType
    <2>5. PICK i \in Int : Send(queue, PingMsg(i)) BY <2>1, <2>4 DEF AskNext
    <2>6. PingMsg(i) \in Message BY <1>5
    <2> QED BY <1>1, <1>2, <1>4, <1>7, <2>5, <2>6 DEF ReadCommand
  <1>8. CASE CheckParent
    <2>1. PICK r \in Receipts : Send(r.rest, PingMsg(cmd.id)) \/ queue' = r.rest
      BY <1>8 DEF CheckParent, AskNext
    <2>2. PingMsg(cmd.id) \in Message BY <1>5, <1>6, <1>8 DEF CheckParent
    <2> QED BY <1>2, <1>3, <1>4, <1>8, <2>1, <2>2 DEF CheckParent
  <1>9. CASE CheckDest
    <2>1. PICK r \in Receipts : \/ queue' = r.rest
                                \/ \E m \in Message : Send(r.rest, m)
      BY <1>5, <1>6, <1>9 DEF CheckDest
    <2> QED BY <1>2, <1>3, <1>4, <1>9, <2>1 DEF CheckDest
  <1>10. CASE CheckChild
    <2>1. PICK r \in Receipts :
            \/ queue' = r.rest /\ UNCHANGED <<st, ppid>>
            \/ Send(r.rest, CreateMsg(cmd.parent, cmd.id)) /\ UNCHANGED <<st, ppid>>
            \/ Fork(Server, cmd.id) /\ queue' = r.rest
      BY <1>10 DEF CheckChild
    <2>2. CreateMsg(cmd.parent, cmd.id) \in Message BY <1>5, <1>6, <1>10 DEF CheckChild
    <2>3. \A x \in Pids : Has(queue, x) => Has(queue', x)
      BY <1>2, <1>3, <2>1, <2>2
    <2>4. strays' = strays /\ st[Server] = "up" BY <1>10 DEF CheckChild
    <2>5. Fork(Server, cmd.id) => LeavesTold BY <1>1, <2>3, <2>4, ForkLeaves
    <2> QED BY <1>4, <2>1, <2>3, <2>4, <2>5, ToldStays
  <1>11. CASE CreateDone \/ ExecDone
    <2>1. PICK r \in Receipts :
            \/ queue' = r.rest /\ UNCHANGED st
            \/ HangUp(r.rest, Server) /\ st' = [st EXCEPT ![Server] = "crashed"]
      BY <1>11 DEF CreateDone, ExecDone, DecodeGarbage
    <2>2. ppid' = ppid /\ strays' = strays BY <1>11 DEF CreateDone, ExecDone
    <2>3. CASE queue' = r.rest /\ UNCHANGED st BY <1>3, <1>4, <2>2, <2>3
    <2>4. CASE HangUp(r.rest, Server) /\ st' = [st EXCEPT ![Server] = "crashed"]
      <3>1. \A x \in Pids, e \in Endpoints : queue'[x][e] = r.rest[x][e]
        BY <1>3, <2>4 DEF HangUp, Unread, Queues
      <3>2. \A x \in Pids : Has(queue, x) => Has(queue', x) BY <1>3, <3>1 DEF Has
      <3>3. NetTypeOK /\ Lineage BY <1>1 DEF NetInv
      <3>4. \A x \in Pids : st'[x] = st[x] /\ (st[x] # "free" => ppid[x] \in Procs)
        BY <2>4, <3>3 DEF NetTypeOK, Lineage
      <3>5. \A x \in Procs : st'[x] = "gone" => st[x] = "gone" BY <2>4, <3>3 DEF NetTypeOK
      <3>6. LeavesTold BY <2>2, <3>2, <3>4, <3>5 DEF LeavesTold
      <3> QED BY <2>2, <3>6, ToldStays
    <2> QED BY <2>1, <2>3, <2>4
  <1> QED BY <1>7, <1>8, <1>9, <1>10, <1>11 DEF Receive

LEMMA TellingStep ==
  ASSUME IInv, AreTold, [Next]_vars, kills' = 0
  PROVE  AreTold'
  <1> USE ReadingProcs
  <1>1. NetInv /\ NetTypeOK /\ Lineage BY IInvForm DEF NetInv
  <1>2. ASSUME UNCHANGED <<st, ppid, queue, strays>> PROVE AreTold'
    BY <1>2 DEF AreTold, Has
  <1>3. CASE ReadCommand \/ Receive BY <1>3, ServerTold
  <1>4. ASSUME NEW p \in Procs, Deinit(p) PROVE AreTold' BY <1>1, <1>4, DeinitTold
  <1>5. ASSUME NEW p \in Pids, NodeNext(p) PROVE AreTold'
    <2>1. CASE NodeInit(p)
      <3>1. st' = [st EXCEPT ![p] = "up"] /\ st[p] = "forked" /\ UNCHANGED <<ppid, queue, strays>>
        BY <2>1 DEF NodeInit
      <3>2. \A r \in Pids : st'[r] \in {"forked", "up"} => st[r] \in {"forked", "up"} /\ ppid[r] \in Procs
        BY <1>1, <3>1 DEF NetTypeOK, Lineage
      <3>3. \A r \in Procs : st'[r] = "gone" => st[r] = "gone" BY <1>1, <3>1 DEF NetTypeOK
      <3>4. LeavesTold BY <3>1, <3>2, <3>3 DEF LeavesTold
      <3> QED BY <3>1, <3>4, ToldStays
    <2>2. CASE NodeStop(p) BY <1>4, <2>2 DEF NodeStop
    <2>3. ASSUME NEW e \in Endpoints, NodeStep(p, e) PROVE AreTold'
      BY <1>1, <2>3, NodeStepTold
    <2> QED BY <1>5, <2>1, <2>2, <2>3 DEF NodeNext
  <1>6. CASE ServerStop BY <1>4, <1>6 DEF ServerStop
  <1>7. ASSUME NEW p \in Pids, NodeSignal(p) PROVE AreTold'
    BY <1>4, <1>7 DEF NodeSignal, NodeTerm
  <1>8. ASSUME NEW p \in Pids, NodeKill(p) PROVE FALSE
    <2>1. kills \in Nat BY MessageTreeAssumption DEF IInv, TypeOK
    <2> QED BY <1>8, <2>1 DEF NodeKill
  <1>9. ASSUME NEW q \in Procs, NEW e \in Endpoints, Link(q, e) PROVE AreTold'
    BY <1>2, <1>9 DEF Link
  <1>10. CASE UNCHANGED vars BY <1>2, <1>10 DEF vars, net
  <1> QED BY <1>3, <1>5, <1>6, <1>7, <1>8, <1>9, <1>10 DEF Next, AllGone

\* As long as nobody is killed with SIGKILL: a node whose parent has come to an orderly end
\* has a remove waiting, however its parent ended and whatever its siblings, its children and
\* the user were doing.  Only a child that was not yet connected when the parent closed its
\* sockets has none, and nothing will ever send it one.
THEOREM OrphansTold == Spec => [](kills = 0 => OrphanIsTold)
  <1> DEFINE J == kills = 0 => AreTold
  <1>1. ASSUME Init PROVE J
    BY <1>1, ReadingProcs DEF Init, NetInit, AreTold
  <1>2. ASSUME IInv, J, [Next]_vars PROVE J'
    <2> SUFFICES ASSUME kills' = 0 PROVE AreTold' OBVIOUS
    <2>1. kills = 0
      <3>1. kills \in Nat BY <1>2, MessageTreeAssumption DEF IInv, TypeOK
      <3>2. kills' = kills \/ kills' = kills + 1
        BY <1>2 DEF Next, vars, server, ReadCommand, Receive, CheckParent, CheckChild, CreateDone,
                    CheckDest, ExecDone, ServerStop, NodeSignal, NodeKill, AllGone
      <3> QED BY <3>1, <3>2
    <2> QED BY <1>2, <2>1, TellingStep
  <1>3. J => (kills = 0 => OrphanIsTold) BY DEF AreTold, Has, OrphanIsTold
  <1> QED BY <1>1, <1>2, <1>3, Invariance, PTL DEF Spec
===================================================================================
