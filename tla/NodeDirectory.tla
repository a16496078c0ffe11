------------------------------- MODULE NodeDirectory ------------------------------
(***********************************************************************************)
(* What the message tree of os_exercise_06 promises its user: one directory of     *)
(* live nodes, on which commands act one at a time and are answered truly.  No     *)
(* messages, no processes, no timeouts.                                            *)
(***********************************************************************************)
CONSTANTS Ids, Root, Absent, Commands

VARIABLES
  tree,    \* the parent of each node, Absent for an id no live node has
  cmd,     \* the command being handled
  stage,   \* "idle", "asked", or "grown": the node is created and not yet announced
  out,     \* the last answer
  open     \* is the user node running

dvars == <<tree, cmd, stage, out, open>>

Nothing    == [i \in Ids |-> Absent]
Present(i) == tree[i] # Absent

\* The node i and all below it: the least set with i that holds its members' children.
Subtree(i) == {j \in Ids : \A S \in SUBSET Ids :
                 (i \in S /\ \A k \in Ids : tree[k] \in S => k \in S) => j \in S}

DirInit == /\ tree = Nothing /\ stage = "idle" /\ out = "none" /\ open = TRUE
           /\ cmd \notin Commands

Ask(c) == /\ open /\ stage = "idle"
          /\ cmd' = c /\ stage' = "asked"
          /\ UNCHANGED <<tree, out, open>>

Reply(o) == /\ open /\ stage' = "idle" /\ out' = o
            /\ UNCHANGED <<cmd, open>>

\* create: the parent must be there and the id must be free; fork() may fail.
MayCreate(c) == /\ c.op = "create" /\ stage = "asked"
                /\ (c.parent = Root \/ Present(c.parent)) /\ ~Present(c.id)
Grown(c)     == tree' = [tree EXCEPT ![c.id] = c.parent]

Refuse(c) == /\ c.op = "create" /\ stage = "asked" /\ UNCHANGED tree
             /\ \/ c.parent # Root /\ ~Present(c.parent) /\ Reply("no_parent")
                \/ (c.parent = Root \/ Present(c.parent)) /\ Present(c.id) /\ Reply("exists")
Fail(c)   == MayCreate(c) /\ UNCHANGED tree /\ Reply("error")
Create(c) == MayCreate(c) /\ c.parent = Root /\ Grown(c) /\ Reply("ok")
Grow(c)   == /\ MayCreate(c) /\ c.parent # Root /\ open
             /\ Grown(c) /\ stage' = "grown" /\ UNCHANGED <<cmd, out, open>>
Announce  == stage = "grown" /\ UNCHANGED tree /\ Reply("ok")

\* ping, exec and remove: the answer says whether the node is there.
Miss(c)   == /\ c.op # "create" /\ stage = "asked" /\ ~Present(c.id)
             /\ UNCHANGED tree /\ Reply("not_found")
Hit(c)    == /\ c.op # "create" /\ stage = "asked" /\ Present(c.id) /\ Reply("ok")
             /\ tree' = IF c.op = "remove"
                        THEN [j \in Ids |-> IF j \in Subtree(c.id) THEN Absent ELSE tree[j]]
                        ELSE tree

Close == /\ open /\ open' = FALSE
         /\ tree' = Nothing /\ stage' = "idle" /\ UNCHANGED <<cmd, out>>

DirNext ==
  \/ \E c \in Commands : Ask(c)
  \/ Refuse(cmd) \/ Fail(cmd) \/ Create(cmd) \/ Grow(cmd) \/ Announce
  \/ Miss(cmd) \/ Hit(cmd)
  \/ Close

DirSpec == DirInit /\ [][DirNext]_dvars
===================================================================================
