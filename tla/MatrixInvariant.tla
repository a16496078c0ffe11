------------------------------ MODULE MatrixInvariant -----------------------------
(***********************************************************************************)
(* Why os_exercise_03 needs no lock: how far each thread has come in its rows, and *)
(* with it each element of the result.  IInv is inductive.                         *)
(***********************************************************************************)
EXTENDS MatrixProduct

\* Who has been started and who has been waited for, ...
Phases ==
  /\ \A t \in ThreadIds : tpc[t] = "none" <=> made =< t
  /\ pc = "call" => made = 0 /\ joined = 0 /\ mem = "none" /\ ret = "none" /\ buf = Fresh
  /\ mem = "none" => pc = "call" \/ ret = "NULL"
  /\ pc \in {"create", "join"} => /\ A.n > 0 /\ B.m > 0 /\ ret = "none"
                                 /\ mem \in {"live", "null"}
  /\ pc = "create" => made < Threads /\ joined = 0
  /\ pc = "join" => made = Threads /\ joined < Threads
  /\ \A t \in ThreadIds : t < joined => tpc[t] = "done"
  /\ NoneLeftBehind
  /\ ret = "C" => mem = "live" \/ pc = "done"
  /\ ret = "C" => (A.n > 0 /\ B.m > 0 => \A t \in ThreadIds : tpc[t] = "done")
\* ... each thread within its rows, to their end unless there is nothing to add, ...
Place(t) ==
  tpc[t] # "none" =>
    /\ Start(t) =< at[t][1] /\ at[t][1] =< End(t) /\ at[t][2] < B.m
    /\ at[t][3] < B.n \/ (B.n = 0 /\ at[t][3] = 0)
    /\ at[t][1] = End(t) => at[t][2] = 0 /\ at[t][3] = 0
    /\ tpc[t] = "add" => at[t][1] < End(t) /\ B.n > 0
    /\ mem = "null" => tpc[t] = "run" /\ at[t][1] = Start(t)
    /\ tpc[t] = "done" /\ mem = "live" => at[t][1] = End(t) \/ B.n = 0
Places == \A t \in ThreadIds : Place(t)
\* ... and each element as far as the one thread that has its row has come.
Added(t, e) ==
  IF tpc[t] = "none" THEN 0
  ELSE IF e[1] < at[t][1] \/ (e[1] = at[t][1] /\ e[2] < at[t][2]) THEN B.n
  ELSE IF e = Element(t) THEN at[t][3] ELSE 0
FilledBy(t) ==
  \A e \in Elements :
    Start(t) =< e[1] /\ e[1] < End(t) => buf[e] = Terms(Added(t, e))
Filled == mem = "live" => \A t \in ThreadIds : FilledBy(t)
IInv == TypeOK /\ Phases /\ Places /\ Filled /\ NoLostUpdate
===================================================================================
