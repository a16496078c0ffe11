------------------------------- MODULE TreeLemmas ---------------------------------
(***********************************************************************************)
(* What the proofs about the message tree of os_exercise_06 use again and again:   *)
(* ancestors in the tree of ids, messages in queues, and who hears whom.           *)
(***********************************************************************************)
EXTENDS TreeInvariant, MessageTreeProofs

LEMMA IdFacts == /\ Ids \subseteq Nat /\ Root \notin Ids /\ None \notin Ids /\ Broadcast \notin Ids
                 /\ Root \notin Pids /\ None \notin Pids /\ None \notin Procs /\ Root # None
                 /\ Server \notin Pids /\ Procs = {Server} \cup Pids /\ -1 \notin Ids
  BY PubSubAssumption DEF Root, None, Broadcast, Procs, Server

LEMMA HomeType == Home \in [Ids -> Ids \cup {Root}]
<1>1. ASSUME NEW i \in Ids PROVE Home[i] \in Ids \cup {Root}
  <2>1. CASE Homes(i) = {}
    BY <2>1 DEF Home
  <2>2. CASE Homes(i) # {}
    <3>1. (CHOOSE h \in Homes(i) : TRUE) \in Homes(i)
      BY <2>2
    <3> QED  BY <2>2, <3>1 DEF Home, Homes
  <2> QED  BY <2>1, <2>2
<1> QED  BY <1>1 DEF Home

\* A typed create names the home of its node.
LEMMA CreateHome ==
  ASSUME OneHome, NEW k \in DOMAIN Menu, NEW c \in Menu[k], c.op = "create",
         c.id \in Ids, c.parent \in Ids \cup {Root}
  PROVE  c.parent = Home[c.id]
<1>1. c.parent \in Homes(c.id)
  BY DEF Homes
<1>2. Home[c.id] \in Homes(c.id)
  <2>1. (CHOOSE h \in Homes(c.id) : TRUE) \in Homes(c.id)
    BY <1>1
  <2> QED  BY <1>1, <2>1 DEF Home
<1> QED  BY <1>1, <1>2 DEF OneHome

-----------------------------------------------------------------------------------
\* Ancestors.
LEMMA AncSelf == ASSUME NEW i \in Ids PROVE Anc(i, i)
  BY DEF Anc

LEMMA AncIds == ASSUME NEW a, NEW t, Anc(a, t) PROVE a \in Ids /\ t \in Ids
  BY DEF Anc

LEMMA AncTrans == ASSUME NEW a, NEW b, NEW t, Anc(a, b), Anc(b, t) PROVE Anc(a, t)
  BY DEF Anc

LEMMA AncUp == ASSUME NEW a, NEW t, Anc(a, t), Home[a] \in Ids PROVE Anc(Home[a], t)
  BY DEF Anc, ClosedUp

LEMMA AncBelow ==
  ASSUME NEW a, NEW t, Anc(a, t), a # t PROVE Home[t] \in Ids /\ Anc(a, Home[t])
<1> DEFINE S == {t} \cup {b \in Ids : Home[t] \in Ids /\ Anc(b, Home[t])}
<1>1. a \in Ids /\ t \in Ids
  BY AncIds
<1>2. S \in SUBSET Ids /\ t \in S
  BY <1>1
<1>3. ClosedUp(S)
  <2> SUFFICES ASSUME NEW i \in S, Home[i] \in Ids PROVE Home[i] \in S
    BY DEF ClosedUp
  <2>1. CASE i = t
    BY <2>1, AncSelf
  <2>2. CASE i # t
    BY <2>2, AncUp
  <2> QED  BY <2>1, <2>2
<1>4. a \in S
  BY <1>2, <1>3 DEF Anc
<1> QED  BY <1>4

\* Two ancestors of a node are one above the other.
LEMMA AncCompare ==
  ASSUME NEW x, NEW y, NEW t, Anc(x, t), Anc(y, t) PROVE Anc(x, y) \/ Anc(y, x)
<1> DEFINE S == {z \in Ids : Anc(z, x) \/ Anc(x, z)}
<1>1. x \in Ids /\ y \in Ids /\ t \in Ids
  BY AncIds
<1>2. S \in SUBSET Ids /\ t \in S
  BY <1>1
<1>3. ClosedUp(S)
  <2> SUFFICES ASSUME NEW i \in S, Home[i] \in Ids PROVE Home[i] \in S
    BY DEF ClosedUp
  <2>1. CASE Anc(i, x)
    BY <2>1, AncUp
  <2>2. CASE Anc(x, i) /\ x # i
    BY <2>2, AncBelow
  <2>3. CASE x = i
    BY <2>3, AncSelf, <1>1, AncUp
  <2> QED  BY <2>1, <2>2, <2>3
<1>4. y \in S
  BY <1>2, <1>3 DEF Anc
<1> QED  BY <1>4

\* Of the nodes below one node only one is above a given node.
LEMMA AncSibling ==
  ASSUME OneHome, NEW x, NEW y, NEW t, Anc(x, t), Anc(y, t), Home[x] = Home[y]
  PROVE  x = y
<1>1. x \in Ids /\ y \in Ids
  BY AncIds
<1>2. ASSUME NEW u \in Ids, NEW v \in Ids, Home[u] = Home[v], Anc(u, v), u # v PROVE FALSE
  <2>1. Anc(u, Home[u])
    BY <1>2, AncBelow
  <2> QED  BY <2>1 DEF OneHome
<1> QED  BY <1>1, <1>2, AncCompare

\* Below a node that is above t, and is not t, there is one that is above t.
LEMMA AncNext ==
  ASSUME NEW a, NEW t, Anc(a, t), a # t
  PROVE  \E y \in Ids : Home[y] = a /\ Anc(y, t)
<1> SUFFICES ASSUME \A y \in Ids : Anc(y, t) => Home[y] # a PROVE FALSE
  OBVIOUS
<1> DEFINE S == {z \in Ids : Anc(z, t)} \ {a}
<1>1. a \in Ids /\ t \in Ids
  BY AncIds
<1>2. S \in SUBSET Ids /\ t \in S
  BY <1>1, AncSelf
<1>3. ClosedUp(S)
  BY AncUp DEF ClosedUp
<1>4. a \in S
  BY <1>2, <1>3 DEF Anc
<1> QED  BY <1>4

-----------------------------------------------------------------------------------
\* What waits in a queue after a message is sent, read, or dropped.
LEMMA WaitingType ==
  ASSUME NEW q, Queues(q), NEW r \in Procs, NEW e \in Endpoints
  PROVE  /\ q[r][e] \in Seq(Message)
         /\ Waiting(q, r, e) \subseteq Message
         /\ Waiting(q, r, e) \subseteq Carried(e[2])
         /\ q[r][e] = <<>> <=> Waiting(q, r, e) = {}
<1>1. q[r][e] \in Seq(Message) /\ q[r][e] \in Seq(Carried(e[2]))
  BY DEF Queues
<1>2. \A k \in 1 .. Len(q[r][e]) : q[r][e][k] \in Message /\ q[r][e][k] \in Carried(e[2])
  <2>1. \A k \in 1 .. Len(q[r][e]) : q[r][e][k] \in Message
    BY <1>1, ElementOfSeq
  <2>2. \A k \in 1 .. Len(q[r][e]) : q[r][e][k] \in Carried(e[2])
    BY <1>1, ElementOfSeq
  <2> QED  BY <2>1, <2>2
<1>3. q[r][e] # <<>> => q[r][e][1] \in Waiting(q, r, e)
  <2> SUFFICES ASSUME q[r][e] # <<>> PROVE 1 \in 1 .. Len(q[r][e])
    BY DEF Waiting
  <2> QED  BY <1>1, EmptySeq
<1>4. q[r][e] = <<>> => Waiting(q, r, e) = {}
  BY DEF Waiting
<1> QED  BY <1>1, <1>2, <1>3, <1>4 DEF Waiting

LEMMA AppendMembers ==
  ASSUME NEW s \in Seq(Message), NEW m \in Message
  PROVE  {(s \o <<m>>)[k] : k \in 1 .. Len(s \o <<m>>)} = {s[k] : k \in 1 .. Len(s)} \cup {m}
<1> DEFINE t == s \o <<m>>
<1>1. Len(t) = Len(s) + 1 /\ Len(s) \in Nat /\ t[Len(s) + 1] = m
      /\ \A k \in 1 .. Len(s) : t[k] = s[k]
  OBVIOUS
<1> HIDE DEF t
<1>2. 1 .. Len(t) = (1 .. Len(s)) \cup {Len(s) + 1}
  BY <1>1
<1>3. {t[k] : k \in 1 .. Len(t)} = {s[k] : k \in 1 .. Len(s)} \cup {m}
  BY <1>1, <1>2
<1> QED  BY <1>3 DEF t

LEMMA PublishWaiting ==
  ASSUME NEW q, Queues(q), NEW p, NEW side, NEW m \in Message,
         NEW r \in Procs, NEW e \in Endpoints
  PROVE  Waiting(Publish(q, p, side, <<m>>), r, e) =
           Waiting(q, r, e) \cup (IF peer[r][e] = p /\ e[2] = side THEN {m} ELSE {})
<1>1. q[r][e] \in Seq(Message)
  BY WaitingType
<1>2. CASE peer[r][e] = p /\ e[2] = side
  <2>1. Publish(q, p, side, <<m>>)[r][e] = q[r][e] \o <<m>>
    BY <1>2 DEF Publish
  <2> DEFINE t == q[r][e] \o <<m>>
  <2>2. Waiting(Publish(q, p, side, <<m>>), r, e) = {t[k] : k \in 1 .. Len(t)}
    BY <2>1 DEF Waiting
  <2>3. {t[k] : k \in 1 .. Len(t)} = Waiting(q, r, e) \cup {m}
    BY <1>1, AppendMembers DEF Waiting
  <2> QED  BY <1>2, <2>2, <2>3
<1>3. CASE ~(peer[r][e] = p /\ e[2] = side)
  <2>1. Publish(q, p, side, <<m>>)[r][e] = q[r][e]
    BY <1>3 DEF Publish
  <2> QED  BY <1>3, <2>1 DEF Waiting
<1> QED  BY <1>2, <1>3

LEMMA ReadWaiting ==
  ASSUME Queues(queue), NEW p \in Procs, NEW e \in Endpoints, queue[p][e] # <<>>,
         NEW r \in Procs, NEW d \in Endpoints
  PROVE  /\ Waiting(Read(p, e), r, d) \subseteq Waiting(queue, r, d)
         /\ r # p \/ d # e => Waiting(Read(p, e), r, d) = Waiting(queue, r, d)
         /\ Waiting(queue, p, e) = Waiting(Read(p, e), p, e) \cup {Head(queue[p][e])}
<1> DEFINE s == queue[p][e]
           t == Tail(s)
<1>1. s \in Seq(Message) /\ s # <<>>
  BY WaitingType
<1>2. Len(t) = Len(s) - 1 /\ Len(s) \in Nat /\ Len(s) > 0 /\ Head(s) = s[1]
      /\ \A k \in 1 .. Len(t) : t[k] = s[k + 1]
  BY <1>1
<1>3. Read(p, e)[p][e] = t /\ (r # p \/ d # e => Read(p, e)[r][d] = queue[r][d])
  BY DEF Queues, Read
<1> HIDE DEF s, t
<1>4. 1 .. Len(s) = {1} \cup {k + 1 : k \in 1 .. Len(t)}
  <2>1. ASSUME NEW k \in 1 .. Len(s), k # 1 PROVE k - 1 \in 1 .. Len(t) /\ k = (k - 1) + 1
    BY <1>2, <2>1
  <2>2. \A k \in 1 .. Len(t) : k + 1 \in 1 .. Len(s)
    BY <1>2
  <2>3. 1 \in 1 .. Len(s)
    BY <1>2
  <2> QED  BY <2>1, <2>2, <2>3
<1>5. {s[k] : k \in 1 .. Len(s)} = {t[k] : k \in 1 .. Len(t)} \cup {Head(s)}
  <2>1. ASSUME NEW k \in 1 .. Len(s) PROVE s[k] = Head(s) \/ \E l \in 1 .. Len(t) : s[k] = t[l]
    BY <1>2, <1>4
  <2>2. ASSUME NEW l \in 1 .. Len(t) PROVE \E k \in 1 .. Len(s) : s[k] = t[l]
    BY <1>2, <1>4
  <2>3. \E k \in 1 .. Len(s) : s[k] = Head(s)
    BY <1>2, <1>4
  <2> QED  BY <2>1, <2>2, <2>3
<1>6. Waiting(queue, p, e) = Waiting(Read(p, e), p, e) \cup {Head(s)}
  BY <1>3, <1>5 DEF Waiting, s
<1>7. r # p \/ d # e => Waiting(Read(p, e), r, d) = Waiting(queue, r, d)
  BY <1>3 DEF Waiting
<1> QED  BY <1>6, <1>7 DEF s

LEMMA HangUpWaiting ==
  ASSUME NEW q, Queues(q), NEW p \in Procs, HangUp(q, p), NEW r \in Procs, NEW e \in Endpoints
  PROVE  /\ Waiting(queue', r, e) = IF r = p THEN {} ELSE Waiting(q, r, e)
         /\ queue'[r][e] = IF r = p THEN <<>> ELSE q[r][e]
<1>1. queue'[r][e] = IF r = p THEN <<>> ELSE q[r][e]
  BY DEF HangUp, Unread, Queues
<1>2. Len(<<>>) = 0
  OBVIOUS
<1> QED  BY <1>1, <1>2 DEF Waiting

\* A message that stands alone in its queue still does when another kind is sent after it, ...
LEMMA OnceAppend ==
  ASSUME NEW s \in Seq(Message), NEW m \in Message, NEW i, Once(i, s),
         ~Charged(i, m) \/ \A x \in {s[k] : k \in 1 .. Len(s)} : ~Charged(i, x)
  PROVE  Once(i, s \o <<m>>)
<1> DEFINE t == s \o <<m>>
<1>1. Len(t) = Len(s) + 1 /\ Len(s) \in Nat /\ t[Len(s) + 1] = m
      /\ \A k \in 1 .. Len(s) : t[k] = s[k]
  OBVIOUS
<1> HIDE DEF t
<1>2. ASSUME NEW k \in 1 .. Len(t), NEW l \in 1 .. Len(t), Charged(i, t[k]), Charged(i, t[l])
      PROVE  k = l
  <2>1. \A x \in 1 .. Len(t) : x \in 1 .. Len(s) \/ x = Len(s) + 1
    BY <1>1
  <2> QED  BY <1>1, <1>2, <2>1 DEF Once
<1> QED  BY <1>2 DEF Once, t

\* ... and when the queue is read; nothing of its kind is left when it is read itself.
LEMMA OnceTail ==
  ASSUME NEW s \in Seq(Message), s # <<>>, NEW i, Once(i, s)
  PROVE  /\ Once(i, Tail(s))
         /\ Charged(i, Head(s)) => \A x \in {Tail(s)[k] : k \in 1 .. Len(Tail(s))} : ~Charged(i, x)
<1> DEFINE t == Tail(s)
<1>1. Len(t) = Len(s) - 1 /\ Len(s) \in Nat /\ Len(s) > 0 /\ Head(s) = s[1]
      /\ \A k \in 1 .. Len(t) : t[k] = s[k + 1]
  OBVIOUS
<1> HIDE DEF t
<1>2. \A k \in 1 .. Len(t) : k + 1 \in 1 .. Len(s) /\ k \in Int
  BY <1>1
<1>3. 1 \in 1 .. Len(s) /\ \A k \in 1 .. Len(t) : k + 1 # 1
  BY <1>1
<1>4. Once(i, t)
  <2> SUFFICES ASSUME NEW k \in 1 .. Len(t), NEW l \in 1 .. Len(t), Charged(i, t[k]), Charged(i, t[l])
               PROVE  k = l
    BY DEF Once
  <2>1. k + 1 = l + 1
    BY <1>1, <1>2 DEF Once
  <2> QED  BY <1>2, <2>1
<1>5. Charged(i, Head(s)) => \A k \in 1 .. Len(t) : ~Charged(i, t[k])
  BY <1>1, <1>2, <1>3 DEF Once
<1> QED  BY <1>4, <1>5 DEF t

-----------------------------------------------------------------------------------
\* The tree of processes in a state of the invariant: live processes with one id are one, ...
LEMMA OneLive ==
  ASSUME NetTypeOK, Shape, NEW p \in Procs, NEW q \in Procs, Live(p), Live(q), id[p] = id[q]
  PROVE  p = q
<1>1. id[Server] = Root /\ \A r \in Pids : Live(r) => id[r] \in Ids
  BY DEF NetTypeOK, Shape, Family, Live
<1> QED  BY <1>1, IdFacts DEF Shape, Distinct

LEMMA OpenLive == \A p : Open(p) => Live(p)
  BY DEF Open, Live

\* ... messages sent down are heard by the children of the sender's id, ...
LEMMA HeardBelow ==
  ASSUME NetTypeOK, Shape, NEW p \in Procs, NEW r \in Procs, NEW e \in Endpoints,
         peer[r][e] = p, e[2] = "children"
  PROVE  /\ r \in Pids /\ Open(r) /\ Open(p) /\ e = Upward(r) /\ e \in subs[r]
         /\ id[r] \in Ids /\ id[ppid[r]] = id[p] /\ Home[id[r]] = id[p]
<1>1. e \in subs[r] /\ Open(p) /\ id[p] = e[1]
  BY IdFacts DEF Shape, Linked
<1>2. Open(r) /\ r # Server /\ e = Upward(r)
  BY <1>1 DEF Shape, Subscribed
<1>3. r \in Pids /\ st[r] # "free" /\ Home[id[r]] = id[p]
  BY <1>1, <1>2, IdFacts DEF Open, Upward
<1>4. id[r] \in Ids /\ id[ppid[r]] = Home[id[r]]
  BY <1>3 DEF Shape, Family
<1> QED  BY <1>1, <1>2, <1>3, <1>4

\* ... and those sent up by who has the id of the sender's parent.
LEMMA HeardAbove ==
  ASSUME NetTypeOK, Shape, NEW p \in Procs, NEW r \in Procs, NEW e \in Endpoints,
         peer[r][e] = p, e[2] = "parent"
  PROVE  /\ p \in Pids /\ Open(r) /\ Open(p) /\ e = Downward(p) /\ e \in subs[r]
         /\ id[p] \in Ids /\ Home[id[p]] = id[r]
<1>1. e \in subs[r] /\ Open(p) /\ id[p] = e[1]
  BY IdFacts DEF Shape, Linked
<1>2. PICK c \in Ids : Home[c] = id[r] /\ e = <<c, "parent">>
  BY <1>1 DEF Shape, Subscribed, Upward
<1>3. Open(r) /\ id[p] = c
  BY <1>1, <1>2 DEF Shape, Subscribed
<1>4. p \in Pids
  BY <1>2, <1>3, IdFacts DEF NetTypeOK
<1> QED  BY <1>1, <1>2, <1>3, <1>4 DEF Downward

\* Once connections are made a node and its parent hear each other.
LEMMA JoinedToParent ==
  ASSUME NetTypeOK, Shape, Joined, NEW p \in Pids, Open(p), Open(ppid[p])
  PROVE  /\ ppid[p] \in Procs
         /\ Upward(p) \in Endpoints /\ peer[p][Upward(p)] = ppid[p]
         /\ Downward(p) \in Endpoints /\ peer[ppid[p]][Downward(p)] = p
<1>1. st[p] # "free" /\ p \in Procs
  BY IdFacts DEF Open
<1>2. id[p] \in Ids /\ ppid[p] \in Procs /\ id[ppid[p]] = Home[id[p]] /\ Home[id[p]] \in Ids \cup {Root}
  BY <1>1, HomeType DEF Shape, Family
<1>3. Upward(p) \in Endpoints /\ Downward(p) \in Endpoints
  BY <1>2 DEF Upward, Downward, Endpoints, Sides
<1>4. Upward(p) \in subs[p] /\ Downward(p) \in subs[ppid[p]]
  BY <1>1 DEF Shape, Subscribed
<1>5. Upward(p)[1] = id[ppid[p]] /\ Downward(p)[1] = id[p]
  BY <1>2 DEF Upward, Downward
<1>6. ppid[p] \in Bound(Upward(p)) /\ p \in Bound(Downward(p))
  BY <1>1, <1>2, <1>5 DEF Bound
<1>7. peer[p][Upward(p)] # None /\ peer[ppid[p]][Downward(p)] # None
  BY <1>1, <1>2, <1>4, <1>6 DEF Joined
<1>8. LET x == peer[p][Upward(p)] IN x \in Procs /\ Open(x) /\ id[x] = id[ppid[p]]
  BY <1>1, <1>3, <1>5, <1>7 DEF Shape, Linked
<1>9. LET x == peer[ppid[p]][Downward(p)] IN x \in Procs /\ Open(x) /\ id[x] = id[p]
  BY <1>2, <1>3, <1>5, <1>7 DEF Shape, Linked
<1> QED  BY <1>1, <1>2, <1>3, <1>8, <1>9, OneLive, OpenLive

-----------------------------------------------------------------------------------
\* Nodes that can be reached: so can all that is above them, ...
LEMMA ReachUp ==
  ASSUME NEW p \in Pids, Reachable(p)
  PROVE  /\ st[p] = "up"
         /\ ppid[p] = Server \/ (ppid[p] \in Pids /\ Reachable(ppid[p]))
<1>1. PICK S \in SUBSET Pids : p \in S /\ \A r \in S : st[r] = "up" /\ ppid[r] \in S \cup {Server}
  BY DEF Reachable
<1> QED  BY <1>1 DEF Reachable

LEMMA ReachAnc ==
  ASSUME NetTypeOK, Shape, NEW q \in Pids, Reachable(q), NEW a, Anc(a, id[q])
  PROVE  \E p \in Pids : id[p] = a /\ Reachable(p)
<1> DEFINE S == {i \in Ids : \E p \in Pids : id[p] = i /\ Reachable(p)}
<1>1. S \in SUBSET Ids /\ id[q] \in S
  BY AncIds
<1>2. ClosedUp(S)
  <2> SUFFICES ASSUME NEW i \in S, Home[i] \in Ids PROVE Home[i] \in S
    BY DEF ClosedUp
  <2>1. PICK p \in Pids : id[p] = i /\ Reachable(p)
    OBVIOUS
  <2>2. st[p] = "up" /\ (ppid[p] = Server \/ (ppid[p] \in Pids /\ Reachable(ppid[p])))
    BY <2>1, ReachUp
  <2>3. id[ppid[p]] = Home[i]
    BY <2>1, <2>2 DEF Shape, Family
  <2>4. ppid[p] # Server
    BY <2>3, IdFacts DEF NetTypeOK
  <2> QED  BY <2>2, <2>3, <2>4
<1>3. a \in S
  BY <1>1, <1>2 DEF Anc
<1> QED  BY <1>3

\* ... the way down from a process above them, ...
LEMMA ReachNext ==
  ASSUME NetTypeOK, Shape, NEW q \in Pids, Reachable(q), NEW p \in Pids, Live(p),
         Anc(id[p], id[q]), id[p] # id[q], st[Server] = "up"
  PROVE  \E y \in Pids : Reachable(y) /\ ppid[y] = p /\ Anc(id[y], id[q])
<1>1. PICK i \in Ids : Home[i] = id[p] /\ Anc(i, id[q])
  BY AncNext
<1>2. PICK y \in Pids : id[y] = i /\ Reachable(y)
  BY <1>1, ReachAnc
<1>3. st[y] = "up" /\ (ppid[y] = Server \/ (ppid[y] \in Pids /\ Reachable(ppid[y])))
  BY <1>2, ReachUp
<1>4. id[ppid[y]] = id[p]
  BY <1>1, <1>2, <1>3 DEF Shape, Family
<1>5. ppid[y] \in Procs /\ st[ppid[y]] = "up"
  BY <1>3, IdFacts, ReachUp
<1>6. ppid[y] = p
  BY <1>4, <1>5, OneLive, IdFacts DEF Live
<1> QED  BY <1>1, <1>2, <1>6

\* ... and its beginning at the server.
LEMMA ReachTop ==
  ASSUME NetTypeOK, Shape, NEW q \in Pids, Reachable(q)
  PROVE  \E y \in Pids : Reachable(y) /\ ppid[y] = Server /\ Anc(id[y], id[q])
<1>1. ASSUME NEW r \in Pids, Reachable(r) PROVE st[r] # "free" /\ id[r] \in Ids /\ id[ppid[r]] = Home[id[r]]
  <2>1. st[r] = "up"
    BY <1>1, ReachUp
  <2> QED  BY <2>1 DEF Shape, Family
<1> DEFINE S == {r \in Pids : Reachable(r) /\ Anc(id[r], id[q])}
<1>2. S \in SUBSET Pids /\ q \in S
  BY <1>1, AncSelf
<1>3. ASSUME NEW r \in S, ppid[r] \in Pids PROVE ppid[r] \in S
  <2>1. Reachable(ppid[r])
    BY <1>3, IdFacts, ReachUp
  <2>2. Home[id[r]] \in Ids /\ id[ppid[r]] = Home[id[r]]
    BY <1>1, <1>3, <2>1
  <2> QED  BY <1>3, <2>1, <2>2, AncUp
<1>4. \E r \in S : ppid[r] = Server
  BY <1>1, <1>2, <1>3 DEF Shape, Anchored
<1> QED  BY <1>4

-----------------------------------------------------------------------------------
\* Charges: no message of the exchange under way, and at most one.
Clear(q, i) == \A r \in Procs, e \in Endpoints : \A m \in Waiting(q, r, e) : ~Charged(i[r], m)
Lone(q, i)  ==
  /\ \A r \in Procs, e \in Endpoints : Once(i[r], q[r][e])
  /\ \A r, s \in Procs, d, e \in Endpoints : \A m \in Waiting(q, r, d), n \in Waiting(q, s, e) :
       Charged(i[r], m) /\ Charged(i[s], n) => r = s /\ d = e

LEMMA OneChargeLone == OneCharge <=> Lone(queue, id)
  BY DEF OneCharge, Lone

LEMMA PendingClear == Pending <=> ~Clear(queue, id)
  BY DEF Pending, Clear

\* The queue of one process after a message was sent.
LEMMA PublishAt ==
  ASSUME NEW q, Queues(q), NEW p, NEW side, NEW m, NEW r \in Procs, NEW e \in Endpoints
  PROVE  Publish(q, p, side, <<m>>)[r][e] =
           IF peer[r][e] = p /\ e[2] = side THEN q[r][e] \o <<m>> ELSE q[r][e]
  BY DEF Publish

\* A message sent when nothing is charged is charged with one hearer at most.
LEMMA PublishOnce ==
  ASSUME NEW q, Queues(q), NEW p, NEW side, NEW m \in Message, Clear(q, id),
         \A r, s \in Procs, d, e \in Endpoints :
           /\ peer[r][d] = p /\ d[2] = side /\ Charged(id[r], m)
           /\ peer[s][e] = p /\ e[2] = side /\ Charged(id[s], m)
           => r = s /\ d = e
  PROVE  /\ Lone(Publish(q, p, side, <<m>>), id)
         /\ \A r \in Procs, e \in Endpoints : \A x \in Waiting(Publish(q, p, side, <<m>>), r, e) :
              Charged(id[r], x) => x = m /\ peer[r][e] = p /\ e[2] = side
<1> DEFINE Q == Publish(q, p, side, <<m>>)
<1>1. ASSUME NEW r \in Procs, NEW e \in Endpoints
      PROVE  /\ Once(id[r], Q[r][e])
             /\ Waiting(Q, r, e) = Waiting(q, r, e) \cup (IF peer[r][e] = p /\ e[2] = side THEN {m} ELSE {})
  <2> DEFINE s == q[r][e]
  <2>1. s \in Seq(Message)
    BY WaitingType
  <2>2. \A x \in {s[k] : k \in 1 .. Len(s)} : ~Charged(id[r], x)
    BY DEF Clear, Waiting
  <2>3. Q[r][e] = IF peer[r][e] = p /\ e[2] = side THEN s \o <<m>> ELSE s
    BY PublishAt
  <2> HIDE DEF s, Q
  <2>4. Once(id[r], s)
    BY <2>2 DEF Once
  <2>5. Once(id[r], s \o <<m>>)
    BY <2>1, <2>2, <2>4, OnceAppend
  <2>6. Once(id[r], Q[r][e])
    BY <2>3, <2>4, <2>5
  <2> QED  BY <2>6, PublishWaiting DEF Q
<1> HIDE DEF Q
<1>2. \A r \in Procs, e \in Endpoints : \A x \in Waiting(Q, r, e) :
        Charged(id[r], x) => x = m /\ peer[r][e] = p /\ e[2] = side
  BY <1>1 DEF Clear
<1>3. Lone(Q, id)
  BY <1>1, <1>2 DEF Lone
<1> QED  BY <1>2, <1>3 DEF Q

\* A message that charges nobody who hears it changes nothing.
LEMMA PublishIdle ==
  ASSUME NEW q, Queues(q), NEW p, NEW side, NEW m \in Message, Lone(q, id),
         \A r \in Procs, e \in Endpoints :
           peer[r][e] = p /\ e[2] = side => ~Charged(id[r], m)
  PROVE  /\ Lone(Publish(q, p, side, <<m>>), id)
         /\ \A r \in Procs, e \in Endpoints : \A x :
              Charged(id[r], x) =>
                (x \in Waiting(Publish(q, p, side, <<m>>), r, e) <=> x \in Waiting(q, r, e))
<1> DEFINE Q == Publish(q, p, side, <<m>>)
<1>1. ASSUME NEW r \in Procs, NEW e \in Endpoints
      PROVE  /\ Once(id[r], Q[r][e])
             /\ Waiting(Q, r, e) = Waiting(q, r, e) \cup (IF peer[r][e] = p /\ e[2] = side THEN {m} ELSE {})
  <2> DEFINE s == q[r][e]
  <2>1. s \in Seq(Message)
    BY WaitingType
  <2>2. Once(id[r], s)
    BY DEF Lone
  <2>3. Q[r][e] = IF peer[r][e] = p /\ e[2] = side THEN s \o <<m>> ELSE s
    BY PublishAt
  <2> HIDE DEF s, Q
  <2>4. peer[r][e] = p /\ e[2] = side => Once(id[r], s \o <<m>>)
    BY <2>1, <2>2, OnceAppend
  <2>5. Once(id[r], Q[r][e])
    BY <2>2, <2>3, <2>4
  <2> QED  BY <2>5, PublishWaiting DEF Q
<1> HIDE DEF Q
<1>2. \A r \in Procs, e \in Endpoints : \A x :
        Charged(id[r], x) => (x \in Waiting(Q, r, e) <=> x \in Waiting(q, r, e))
  BY <1>1
<1>3. Lone(Q, id)
  BY <1>1, <1>2 DEF Lone
<1> QED  BY <1>2, <1>3 DEF Q

LEMMA ReadLone ==
  ASSUME Queues(queue), NEW p \in Procs, NEW e \in Endpoints, queue[p][e] # <<>>,
         Lone(queue, id)
  PROVE  /\ Lone(Read(p, e), id)
         /\ Charged(id[p], Head(queue[p][e])) => Clear(Read(p, e), id)
<1> DEFINE q == Read(p, e)
           h == Head(queue[p][e])
<1>1. h \in Waiting(queue, p, e)
  BY ReadWaiting
<1>2. ASSUME NEW r \in Procs, NEW d \in Endpoints
      PROVE  /\ Waiting(q, r, d) \subseteq Waiting(queue, r, d)
             /\ Once(id[r], q[r][d])
             /\ r = p /\ d = e /\ Charged(id[p], h) => \A x \in Waiting(q, r, d) : ~Charged(id[r], x)
  <2>1. Waiting(q, r, d) \subseteq Waiting(queue, r, d)
    BY ReadWaiting
  <2>2. Once(id[r], queue[r][d]) /\ queue[r][d] \in Seq(Message)
    BY WaitingType DEF Lone
  <2>3. CASE r = p /\ d = e
    <3> DEFINE s == queue[p][e]
    <3>1. q[r][d] = Tail(s)
      BY <2>3 DEF Read, Queues
    <3>2. /\ Once(id[p], Tail(s))
          /\ Charged(id[p], Head(s)) =>
               \A x \in {Tail(s)[k] : k \in 1 .. Len(Tail(s))} : ~Charged(id[p], x)
      BY <2>2, <2>3, OnceTail
    <3> QED  BY <2>1, <2>3, <3>1, <3>2 DEF Waiting
  <2>4. CASE ~(r = p /\ d = e)
    <3>1. q[r][d] = queue[r][d]
      BY <2>4 DEF Read, Queues
    <3> QED  BY <2>1, <2>2, <2>4, <3>1
  <2> QED  BY <2>3, <2>4
<1> HIDE DEF q, h
<1>3. Lone(q, id)
  BY <1>2 DEF Lone
<1>4. Charged(id[p], h) => Clear(q, id)
  <2> SUFFICES ASSUME Charged(id[p], h), NEW r \in Procs, NEW d \in Endpoints,
                      NEW x \in Waiting(q, r, d), Charged(id[r], x)
               PROVE  FALSE
    BY DEF Clear
  <2>1. x \in Waiting(queue, r, d)
    BY <1>2
  <2>2. r = p /\ d = e
    BY <1>1, <2>1 DEF Lone
  <2> QED  BY <1>2, <2>2
<1> QED  BY <1>3, <1>4 DEF q, h

LEMMA HangUpLone ==
  ASSUME NEW q, Queues(q), NEW p \in Procs, HangUp(q, p), Lone(q, id)
  PROVE  Lone(queue', id)
<1>1. \A r \in Procs, e \in Endpoints :
        /\ Waiting(queue', r, e) \subseteq Waiting(q, r, e)
        /\ queue'[r][e] = <<>> \/ queue'[r][e] = q[r][e]
  BY HangUpWaiting
<1>2. Len(<<>>) = 0
  OBVIOUS
<1>3. \A i : Once(i, <<>>)
  BY <1>2 DEF Once
<1> QED  BY <1>1, <1>3 DEF Lone

-----------------------------------------------------------------------------------
\* Who is charged by what is sent.
Task(m) == m.type \in {"ping", "exec", "create"}

LEMMA OneWayDown ==
  ASSUME NetTypeOK, Shape, OneHome, NEW p \in Procs, NEW m, Task(m),
         NEW r \in Procs, NEW s \in Procs, NEW d \in Endpoints, NEW e \in Endpoints,
         peer[r][d] = p, d[2] = "children", Charged(id[r], m),
         peer[s][e] = p, e[2] = "children", Charged(id[s], m)
  PROVE  r = s /\ d = e
<1>1. /\ r \in Pids /\ Open(r) /\ d = Upward(r) /\ Home[id[r]] = id[p]
      /\ s \in Pids /\ Open(s) /\ e = Upward(s) /\ Home[id[s]] = id[p]
  BY HeardBelow
<1>2. Anc(id[r], m.to) /\ Anc(id[s], m.to)
  BY DEF Charged, Task, Answers
<1>3. id[r] = id[s]
  BY <1>1, <1>2, AncSibling
<1>4. r = s
  BY <1>1, <1>3, OneLive, OpenLive
<1> QED  BY <1>1, <1>4

LEMMA OneWayUp ==
  ASSUME NetTypeOK, Shape, NEW p \in Procs,
         NEW r \in Procs, NEW s \in Procs, NEW d \in Endpoints, NEW e \in Endpoints,
         peer[r][d] = p, d[2] = "parent", peer[s][e] = p, e[2] = "parent"
  PROVE  r = s /\ d = e
<1>1. /\ Open(r) /\ d = Downward(p) /\ Home[id[p]] = id[r]
      /\ Open(s) /\ e = Downward(p) /\ Home[id[p]] = id[s]
  BY HeardAbove
<1> QED  BY <1>1, OneLive, OpenLive

\* What cannot reach its destination from a node cannot from those below it.
LEMMA DeadEnd ==
  ASSUME NetTypeOK, Shape, NEW p \in Pids, id[p] \in Ids, NEW m, Task(m), ~Charged(id[p], m),
         NEW r \in Procs, NEW e \in Endpoints, peer[r][e] = p, e[2] = "children"
  PROVE  ~Charged(id[r], m)
<1>1. Home[id[r]] = id[p]
  BY IdFacts, HeardBelow
<1>2. ~Anc(id[p], m.to)
  BY DEF Charged, Task
<1>3. ~Anc(id[r], m.to)
  BY <1>1, <1>2, AncUp
<1> QED  BY <1>3 DEF Charged, Task, Answers

-----------------------------------------------------------------------------------
\* The tree of processes, step by step.
LEMMA ShapeSame ==
  ASSUME Shape, UNCHANGED <<st, id, ppid, subs, peer>> PROVE Shape'
  BY DEF Shape, Family, Anchored, Distinct, Subscribed, Linked, Live, Open, Upward, Downward

\* fork(), for an id that no live process has.
LEMMA ShapeFork ==
  ASSUME NetTypeOK, Shape, NEW p \in Procs, st[p] = "up", NEW c \in Ids, Home[c] = id[p],
         \A q \in Pids : Live(q) => id[q] # c,
         Fork(p, c), UNCHANGED peer
  PROVE  Shape'
<1> DEFINE f == FreshPid
<1>1. f \in Pids /\ st[f] = "free" /\ f # Server /\ f # p /\ f \in Procs /\ ppid[f] = None
      /\ \A q \in Procs : peer[q] \in [Endpoints -> Procs \cup {None}]
  BY FreshPidIsFree, IdFacts DEF Fork, Shape, Family, NetTypeOK
<1>2. /\ st'[f] = "forked" /\ id'[f] = c /\ ppid'[f] = p
      /\ subs' = [subs EXCEPT ![p] = @ \cup {<<c, "parent">>}]
      /\ \A q \in Procs : q # f => st'[q] = st[q] /\ id'[q] = id[q] /\ ppid'[q] = ppid[q]
  BY <1>1 DEF Fork, NetTypeOK
<1>3. /\ subs'[p] = subs[p] \cup {<<c, "parent">>}
      /\ \A q \in Procs : q # p => subs'[q] = subs[q]
  BY <1>2 DEF NetTypeOK
<1> HIDE DEF f
<1>4. \A q \in Procs : Open(q)' <=> Open(q)
  BY <1>1, <1>2 DEF Open
<1>5. \A q \in Procs : Open(q) => q # f
  BY <1>1 DEF Open
<1>6. ASSUME NEW r \in Pids, st[r] # "free" PROVE ppid[r] \in Procs /\ ppid[r] # f /\ r # f
  BY <1>1, <1>6 DEF Shape, Family
<1>7. ASSUME NEW r \in Pids, ppid'[r] \in Procs, r # f PROVE st[r] # "free"
  BY <1>2, <1>7, IdFacts DEF Shape, Family
<1>8. Family'
  <2> SUFFICES ASSUME NEW r \in Pids
               PROVE  /\ st'[r] \notin {"killed", "crashed"}
                      /\ st'[r] = "free" => ppid'[r] = None
                      /\ st'[r] # "free" => /\ id'[r] \in Ids /\ ppid'[r] \in Procs
                                            /\ id'[ppid'[r]] = Home[id'[r]]
                                            /\ st'[ppid'[r]] \notin {"free", "forked"}
    BY DEF Family
  <2>1. CASE r = f
    BY <1>1, <1>2, <2>1
  <2>2. CASE r # f
    <3>1. st'[r] = st[r] /\ id'[r] = id[r] /\ ppid'[r] = ppid[r]
      BY <1>2, <2>2, IdFacts
    <3>2. st[r] # "free" => ppid[r] \in Procs /\ ppid[r] # f
      BY <1>6
    <3> QED  BY <1>2, <3>1, <3>2 DEF Shape, Family
  <2> QED  BY <2>1, <2>2
<1>9. Anchored'
  <2> SUFFICES ASSUME NEW r \in Pids, st'[r] # "free", NEW S \in SUBSET Pids, r \in S,
                      \A x \in S : ppid'[x] \in Pids => ppid'[x] \in S
               PROVE  \E x \in S : ppid'[x] = Server
    BY DEF Anchored
  <2> DEFINE T == S \ {f}
  <2>1. \A x \in T : ppid'[x] = ppid[x]
    BY <1>2, IdFacts
  <2>2. ASSUME NEW x \in T, ppid[x] \in Pids PROVE ppid[x] \in T
    <3>1. st[x] # "free"
      BY <1>7, <2>1, <2>2, IdFacts
    <3> QED  BY <1>6, <2>1, <2>2, <3>1
  <2>3. ASSUME NEW x \in T, st[x] # "free" PROVE \E y \in S : ppid'[y] = Server
    <3>1. \E y \in T : ppid[y] = Server
      BY <2>2, <2>3 DEF Shape, Anchored
    <3> QED  BY <2>1, <3>1
  <2>4. CASE r # f
    BY <1>2, <2>3, <2>4, IdFacts
  <2>5. CASE r = f /\ p = Server
    BY <1>2, <2>5
  <2>6. CASE r = f /\ p # Server
    <3>1. p \in T
      BY <1>1, <1>2, <2>6, IdFacts
    <3> QED  BY <2>3, <3>1
  <2> QED  BY <2>4, <2>5, <2>6
<1>10. Distinct'
  BY <1>1, <1>2, IdFacts DEF Shape, Distinct, Live
<1>11. Subscribed'
  <2>1. ASSUME NEW q \in Procs, NEW e \in subs'[q]
        PROVE  /\ Open(q)'
               /\ \/ q # Server /\ e = Upward(q)'
                  \/ \E x \in Ids : Home[x] = id'[q] /\ e = <<x, "parent">>
    <3>1. CASE e \in subs[q]
      <4>1. Open(q) /\ q # f
        BY <1>5, <3>1 DEF Shape, Subscribed
      <4>2. id'[q] = id[q]
        BY <1>2, <4>1
      <4> QED  BY <1>4, <3>1, <4>1, <4>2 DEF Shape, Subscribed, Upward
    <3>2. CASE q = p /\ e = <<c, "parent">>
      BY <1>1, <1>2, <1>4, <3>2 DEF Open
    <3> QED  BY <1>3, <2>1, <3>1, <3>2
  <2>2. ASSUME NEW r \in Pids, Open(r)' PROVE Upward(r)' \in subs'[r]
    <3>1. Open(r) /\ r # f /\ id'[r] = id[r] /\ r \in Procs
      BY <1>2, <1>4, <1>5, <2>2, IdFacts
    <3> QED  BY <1>3, <3>1 DEF Shape, Subscribed, Upward
  <2>3. ASSUME NEW r \in Pids, st'[r] # "free", Open(ppid[r])' PROVE Downward(r)' \in subs'[ppid'[r]]
    <3>1. CASE r = f
      BY <1>2, <1>3, <3>1 DEF Downward
    <3>2. CASE r # f
      <4>1. st[r] # "free" /\ id'[r] = id[r] /\ ppid'[r] = ppid[r] /\ ppid[r] \in Procs
        BY <1>2, <1>6, <2>3, <3>2, IdFacts
      <4>2. Open(ppid[r])
        BY <1>4, <2>3, <4>1 DEF Open
      <4> QED  BY <1>3, <4>1, <4>2 DEF Shape, Subscribed, Downward
    <3> QED  BY <3>1, <3>2
  <2> QED  BY <2>1, <2>2, <2>3 DEF Subscribed
<1>12. Linked'
  <2> SUFFICES ASSUME NEW q \in Procs, NEW e \in Endpoints, peer[q][e] # None
               PROVE  e \in subs'[q] /\ peer[q][e] \in Procs /\ Open(peer[q][e])' /\ id'[peer[q][e]] = e[1]
    BY DEF Linked
  <2>0. PICK x : x = peer[q][e]
    OBVIOUS
  <2>1. e \in subs[q] /\ x \in Procs /\ Open(x) /\ id[x] = e[1]
    BY <2>0 DEF Shape, Linked
  <2>2. Open(x)' /\ id'[x] = id[x]
    BY <1>2, <1>4, <1>5, <2>1
  <2>3. e \in subs'[q]
    BY <1>3, <2>1
  <2> QED  BY <2>0, <2>1, <2>2, <2>3 DEF Open
<1> QED  BY <1>8, <1>9, <1>10, <1>11, <1>12 DEF Shape

\* A node binds its endpoints and subscribes to its parent's.
LEMMA ShapeInit ==
  ASSUME NetTypeOK, Shape, NEW p \in Pids, NodeInit(p)
  PROVE  Shape'
<1>1. /\ p \in Procs /\ st[p] = "forked" /\ id[ppid[p]] = Home[id[p]] /\ UNCHANGED <<id, ppid, peer>>
      /\ \A r \in Procs : st'[r] = IF r = p THEN "up" ELSE st[r]
  BY IdFacts DEF NodeInit, Shape, Family, NetTypeOK
<1>2. \A r \in Procs : subs'[r] = IF r = p THEN {Upward(p)} ELSE subs[r]
  BY <1>1 DEF NodeInit, NetTypeOK, Upward
<1>3. /\ \A r \in Procs : Open(r)' <=> (r = p \/ Open(r))
      /\ ~Open(p)
  BY <1>1 DEF Open
<1>4. subs[p] = {}
  BY <1>1, <1>3 DEF Shape, Subscribed
<1>5. \A r \in Procs : Live(r)' <=> Live(r)
  BY <1>1 DEF Live
<1>6. \A r \in Pids : st[r] # "free" => ppid[r] # p /\ ppid[r] \in Procs
  BY <1>1 DEF Shape, Family
<1>7. Family'
  BY <1>1, <1>6, IdFacts DEF Shape, Family
<1>8. Anchored' /\ Distinct'
  BY <1>1, <1>5, IdFacts DEF Shape, Anchored, Distinct
<1>9. Subscribed'
  <2>1. \A r \in Procs : Upward(r)' = Upward(r) /\ Downward(r)' = Downward(r)
    BY <1>1 DEF Upward, Downward
  <2>2. ASSUME NEW q \in Procs, NEW e \in subs'[q]
        PROVE  /\ Open(q)'
               /\ \/ q # Server /\ e = Upward(q)'
                  \/ \E c \in Ids : Home[c] = id'[q] /\ e = <<c, "parent">>
    <3>1. CASE q = p
      BY <1>2, <1>3, <2>1, <2>2, <3>1, IdFacts
    <3>2. CASE q # p
      BY <1>1, <1>2, <1>3, <2>1, <2>2, <3>2 DEF Shape, Subscribed
    <3> QED  BY <3>1, <3>2
  <2>3. \A r \in Pids : Open(r)' => Upward(r)' \in subs'[r]
    BY <1>2, <1>3, <2>1, IdFacts DEF Shape, Subscribed
  <2>4. ASSUME NEW r \in Pids, st'[r] # "free", Open(ppid[r])' PROVE Downward(r)' \in subs'[ppid'[r]]
    <3>1. st[r] # "free" /\ ppid[r] # p /\ ppid[r] \in Procs
      BY <1>1, <1>6, <2>4, IdFacts
    <3>2. Open(ppid[r])
      BY <1>1, <1>3, <2>4, <3>1 DEF Open
    <3>3. Downward(r) \in subs[ppid[r]] /\ Downward(r)' = Downward(r) /\ ppid'[r] = ppid[r]
      BY <1>1, <2>1, <3>1, <3>2, IdFacts DEF Shape, Subscribed
    <3> QED  BY <1>2, <3>1, <3>2, <3>3
  <2> QED  BY <2>2, <2>3, <2>4 DEF Subscribed
<1>10. Linked'
  <2> SUFFICES ASSUME NEW q \in Procs, NEW e \in Endpoints, peer[q][e] # None
               PROVE  /\ e \in subs'[q] /\ peer[q][e] \in Procs /\ id[peer[q][e]] = e[1]
                      /\ st'[peer[q][e]] \in {"up", "stopping"}
    BY <1>1 DEF Linked, Open
  <2>1. e \in subs[q] /\ peer[q][e] \in Procs /\ Open(peer[q][e]) /\ id[peer[q][e]] = e[1]
    BY DEF Shape, Linked
  <2>2. e \in subs'[q]
    BY <1>2, <1>4, <2>1
  <2> QED  BY <1>1, <2>1, <2>2 DEF Open
<1> QED  BY <1>7, <1>8, <1>9, <1>10 DEF Shape

\* A process closes its sockets and ends; only the server can end without a goodbye.
Ends(p) == /\ st[p] \in {"up", "stopping"} /\ UNCHANGED <<id, ppid>>
           /\ \/ st' = [st EXCEPT ![p] = "gone"]
              \/ p = Server /\ st' = [st EXCEPT ![p] = "crashed"]

LEMMA ShapeHangUp ==
  ASSUME NetTypeOK, Shape, NEW p \in Procs, Ends(p), NEW q, HangUp(q, p)
  PROVE  Shape' /\ (Joined => Joined')
<1> USE DEF Ends
<1>1. /\ \A r \in Procs : r # p => st'[r] = st[r]
      /\ st'[p] \in {"gone", "crashed"} /\ (p # Server => st'[p] = "gone")
      /\ UNCHANGED <<id, ppid>>
  BY DEF NetTypeOK
<1>2. \A r \in Procs : subs'[r] = IF r = p THEN {} ELSE subs[r]
  BY DEF HangUp, NetTypeOK
<1>3. \A r \in Procs, e \in Endpoints :
        peer'[r][e] = IF r = p \/ peer[r][e] = p THEN None ELSE peer[r][e]
  BY DEF HangUp, Unlinked
<1>4. \A r \in Procs : Open(r)' <=> (r # p /\ Open(r))
  BY <1>1 DEF Open
<1>5. \A r \in Procs : Live(r)' <=> (r # p /\ Live(r))
  BY <1>1 DEF Live
<1>6. Family'
  BY <1>1, IdFacts DEF Shape, Family
<1>7. \A r \in Pids : st'[r] # "free" => st[r] # "free"
  BY <1>1, IdFacts
<1>8. Anchored' /\ Distinct'
  BY <1>1, <1>5, <1>7, IdFacts DEF Shape, Anchored, Distinct
<1>9. Subscribed'
  <2>1. \A r \in Procs : Upward(r)' = Upward(r) /\ Downward(r)' = Downward(r)
    BY <1>1 DEF Upward, Downward
  <2>2. ASSUME NEW r \in Procs, NEW e \in subs'[r]
        PROVE  /\ Open(r)'
               /\ \/ r # Server /\ e = Upward(r)'
                  \/ \E c \in Ids : Home[c] = id'[r] /\ e = <<c, "parent">>
    BY <1>1, <1>2, <1>4, <2>1, <2>2 DEF Shape, Subscribed
  <2>3. \A r \in Pids : Open(r)' => Upward(r)' \in subs'[r]
    BY <1>2, <1>4, <2>1, IdFacts DEF Shape, Subscribed
  <2>4. ASSUME NEW r \in Pids, st'[r] # "free", Open(ppid[r])' PROVE Downward(r)' \in subs'[ppid'[r]]
    <3>1. st[r] # "free" /\ ppid[r] \in Procs
      BY <1>7, <2>4 DEF Shape, Family
    <3>2. Open(ppid[r]) /\ ppid[r] # p
      BY <1>1, <2>4, <3>1 DEF Open
    <3>3. Downward(r) \in subs[ppid[r]] /\ Downward(r)' = Downward(r) /\ ppid'[r] = ppid[r]
      BY <1>1, <2>1, <3>1, <3>2, IdFacts DEF Shape, Subscribed
    <3> QED  BY <1>2, <3>1, <3>2, <3>3
  <2> QED  BY <2>2, <2>3, <2>4 DEF Subscribed
<1>10. Linked'
  <2> SUFFICES ASSUME NEW r \in Procs, NEW e \in Endpoints, peer'[r][e] # None
               PROVE  /\ e \in subs'[r] /\ peer'[r][e] \in Procs /\ id[peer'[r][e]] = e[1]
                      /\ st'[peer'[r][e]] \in {"up", "stopping"}
    BY <1>1 DEF Linked, Open
  <2>1. r # p /\ peer[r][e] # p /\ peer'[r][e] = peer[r][e]
    BY <1>3
  <2>2. e \in subs[r] /\ peer[r][e] \in Procs /\ Open(peer[r][e]) /\ id[peer[r][e]] = e[1]
    BY <2>1 DEF Shape, Linked
  <2> QED  BY <1>1, <1>2, <2>1, <2>2 DEF Open
<1>11. ASSUME Joined PROVE Joined'
  <2>1. \A r \in Pids : st'[r] # "forked"
    BY <1>1, <1>11, IdFacts DEF Joined
  <2>2. ASSUME NEW r \in Procs, Open(r)', NEW e \in subs'[r], peer'[r][e] = None
        PROVE  Bound(e)' = {}
    <3>1. r # p /\ Open(r) /\ e \in subs[r] /\ e \in Endpoints
      BY <1>2, <1>4, <2>2 DEF NetTypeOK
    <3>2. \A x \in Procs : x \in Bound(e)' => x \in Bound(e) /\ x # p
      BY <1>1, <1>4 DEF Bound
    <3>3. Bound(e)' \subseteq Procs
      BY DEF Bound
    <3>4. CASE peer[r][e] = None
      BY <1>11, <3>1, <3>2, <3>3, <3>4 DEF Joined
    <3>5. CASE peer[r][e] = p
      <4>1. Open(p) /\ id[p] = e[1]
        BY <3>1, <3>5, IdFacts DEF Shape, Linked
      <4>2. \A x \in Bound(e) : x = p
        BY <4>1, OneLive, OpenLive DEF Bound
      <4> QED  BY <3>2, <3>3, <4>2
    <3> QED  BY <1>3, <2>2, <3>1, <3>4, <3>5
  <2> QED  BY <2>1, <2>2 DEF Joined
<1> QED  BY <1>6, <1>8, <1>9, <1>10, <1>11 DEF Shape

\* A node leaves its loop.
LEMMA ShapeStopping ==
  ASSUME NetTypeOK, Shape, NEW p \in Pids, st[p] = "up", st' = [st EXCEPT ![p] = "stopping"],
         UNCHANGED <<id, ppid, subs, peer>>
  PROVE  Shape' /\ (Joined => Joined')
<1>1. /\ p \in Procs /\ p # Server
      /\ \A r \in Procs : st'[r] = IF r = p THEN "stopping" ELSE st[r]
  BY IdFacts DEF NetTypeOK
<1>2. \A r \in Procs : (Open(r)' <=> Open(r)) /\ (Live(r)' <=> Live(r))
  BY <1>1 DEF Open, Live
<1>3. Family'
  BY <1>1, IdFacts DEF Shape, Family
<1>4. \A r \in Pids : st'[r] # "free" <=> st[r] # "free"
  BY <1>1, IdFacts
<1>5. Anchored' /\ Distinct'
  BY <1>1, <1>2, <1>4, IdFacts DEF Shape, Anchored, Distinct
<1>6. Subscribed'
  <2>1. ASSUME NEW r \in Pids, st'[r] # "free", Open(ppid[r])' PROVE Downward(r) \in subs[ppid[r]]
    <3>1. st[r] # "free" /\ ppid[r] \in Procs
      BY <1>4, <2>1 DEF Shape, Family
    <3>2. Open(ppid[r])
      BY <1>1, <2>1, <3>1 DEF Open
    <3> QED  BY <3>1, <3>2 DEF Shape, Subscribed
  <2> QED  BY <1>2, <2>1, IdFacts DEF Shape, Subscribed, Upward, Downward
<1>7. Linked'
  <2> SUFFICES ASSUME NEW r \in Procs, NEW e \in Endpoints, peer[r][e] # None
               PROVE  /\ e \in subs[r] /\ peer[r][e] \in Procs /\ id[peer[r][e]] = e[1]
                      /\ st'[peer[r][e]] \in {"up", "stopping"}
    BY DEF Linked, Open
  <2> QED  BY <1>1 DEF Shape, Linked, Open
<1>8. ASSUME Joined PROVE Joined'
  <2>1. \A r \in Pids : st'[r] # "forked"
    BY <1>1, <1>8, IdFacts DEF Joined
  <2>2. \A e : Bound(e)' = Bound(e)
    BY <1>2 DEF Bound
  <2> QED  BY <1>2, <1>8, <2>1, <2>2 DEF Joined
<1> QED  BY <1>3, <1>5, <1>6, <1>7, <1>8 DEF Shape

\* A connection is made.
LEMMA ShapeLink ==
  ASSUME NetTypeOK, Shape, NEW q \in Procs, NEW e \in Endpoints, Link(q, e)
  PROVE  Shape' /\ (Joined => Joined')
<1>1. PICK p \in Bound(e) : peer' = [peer EXCEPT ![q][e] = p]
  BY DEF Link
<1>2. UNCHANGED <<st, id, ppid, subs>> /\ Open(q) /\ e \in subs[q] /\ peer[q][e] = None
      /\ p \in Procs /\ Open(p) /\ id[p] = e[1]
  BY DEF Link, Bound
<1>3. \A r \in Procs, d \in Endpoints : peer'[r][d] = IF r = q /\ d = e THEN p ELSE peer[r][d]
  BY <1>1 DEF NetTypeOK
<1>4. Linked'
  <2> SUFFICES ASSUME NEW r \in Procs, NEW d \in Endpoints, peer'[r][d] # None
               PROVE  /\ d \in subs[r] /\ peer'[r][d] \in Procs /\ id[peer'[r][d]] = d[1]
                      /\ st[peer'[r][d]] \in {"up", "stopping"}
    BY <1>2 DEF Linked, Open
  <2> QED  BY <1>2, <1>3 DEF Shape, Linked, Open
<1>5. Family' /\ Anchored' /\ Distinct' /\ Subscribed'
  BY <1>2 DEF Shape, Family, Anchored, Distinct, Subscribed, Live, Open, Upward, Downward
<1>6. ~Joined
  BY <1>1, <1>2 DEF Joined
<1> QED  BY <1>4, <1>5, <1>6 DEF Shape
===================================================================================
