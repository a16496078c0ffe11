------------------------------- MODULE MatrixProduct ------------------------------
(***********************************************************************************)
(* os_exercise_03: m_product shares the rows of the result out among threads that  *)
(* all write to it without a lock (matrix.c); main prints what it returns.         *)
(***********************************************************************************)
EXTENDS Integers, Sequences

CONSTANTS Sizes,        \* the numbers of rows and columns to consider
          MaxThreads,   \* the values of max_threads to consider; main does not check it
          MayFail       \* may malloc or pthread_create fail

ASSUME MatrixAssumption == /\ Sizes \subseteq Nat
                           /\ MaxThreads \subseteq Nat \ {0}
                           /\ MayFail \in BOOLEAN

(***********************************************************************************)
(* An element of the result is the sequence of the terms added to it so far: the   *)
(* k-th term of element (i, j) is A[i,k] * B[k,j].  += is a load and a store.      *)
(***********************************************************************************)
VARIABLES
  A, B,            \* the sizes of the operands: n rows, m columns
  max_threads,
  pc,              \* main, and m_product within it
  mem,             \* C: not yet there, in use, not to be had, freed
  ret,             \* what m_product returned
  made, joined,    \* the loops over the threads
  buf,             \* the elements of C
  tpc, at, z       \* the threads: i, j and k, and the element that += has loaded

sizes   == <<A, B, max_threads>>
main    == <<pc, mem, ret, made, joined>>
threads == <<tpc, at, z>>
vars    == <<sizes, main, buf, threads>>

\* A slip: as many threads as there are full blocks of rows.
FullBlocks(n, rows) == n \div rows

\* row_pre_thread and threads, both rounded up.  The int A->n + max_threads - 1 overflows, which
\* C leaves undefined, when the two are near INT_MAX: such sizes are left out.
RowsPerThread == (A.n + max_threads - 1) \div max_threads
Blocks(n, rows) == (n + rows - 1) \div rows
Threads   == Blocks(A.n, RowsPerThread)
ThreadIds == IF A.n = 0 THEN {} ELSE 0 .. Threads - 1

\* i_start and i_end; slips: a row too many, and no look at the number of rows.
EndWithNext(t) == LET e == (t + 1) * RowsPerThread + 1 IN IF e > A.n THEN A.n ELSE e
Start(t) == t * RowsPerThread
End(t)   == LET e == (t + 1) * RowsPerThread IN IF e > A.n THEN A.n ELSE e

Elements == (0 .. A.n - 1) \X (0 .. B.m - 1)
Fresh    == [e \in Elements |-> <<>>]

TypeOK ==
  /\ A \in [n : Sizes, m : Sizes] /\ B \in [n : Sizes, m : Sizes]
  /\ max_threads \in MaxThreads
  /\ pc \in {"call", "create", "join", "print", "done", "crashed"}
  /\ mem \in {"none", "live", "null", "freed"} /\ ret \in {"none", "C", "NULL"}
  /\ made \in Nat /\ joined \in Nat
  /\ buf \in [Elements -> Seq(Nat)]
  /\ tpc \in [ThreadIds -> {"none", "run", "add", "done"}]
  /\ at \in [ThreadIds -> (0 .. A.n) \X Nat \X Nat]
  /\ \A t \in ThreadIds : tpc[t] \in {"run", "add"} => at[t][2] < B.m
  /\ z \in [ThreadIds -> Seq(Nat)]

Init ==
  /\ A \in [n : Sizes, m : Sizes] /\ B \in [n : Sizes, m : Sizes]
  /\ max_threads \in MaxThreads
  /\ pc = "call" /\ mem = "none" /\ ret = "none" /\ made = 0 /\ joined = 0
  /\ buf = Fresh
  /\ tpc = [t \in ThreadIds |-> "none"]
  /\ at = [t \in ThreadIds |-> <<0, 0, 0>>] /\ z = [t \in ThreadIds |-> <<>>]

Running == pc \notin {"done", "crashed"}
-----------------------------------------------------------------------------------
\* m_product up to its loops: the sizes must fit, and C is allocated.
Mismatch ==
  /\ pc = "call" /\ A.m # B.n
  /\ pc' = "print" /\ ret' = "NULL"
  /\ UNCHANGED <<sizes, mem, made, joined, buf, threads>>

Allocate ==
  /\ pc = "call" /\ A.m = B.n
  /\ \/ mem' = "live"
     \/ MayFail /\ mem' = "null"
  /\ \/ /\ A.n = 0 \/ B.m = 0
        /\ pc' = "print" /\ ret' = IF mem' = "live" THEN "C" ELSE "NULL"
     \/ A.n # 0 /\ B.m # 0 /\ pc' = "create" /\ UNCHANGED ret
  /\ UNCHANGED <<sizes, made, joined, buf, threads>>

Create ==
  /\ pc = "create" /\ made < Threads
  /\ tpc' = [tpc EXCEPT ![made] = "run"]
  /\ at' = [at EXCEPT ![made] = <<Start(made), 0, 0>>]
  /\ made' = made + 1
  /\ pc' = IF made' = Threads THEN "join" ELSE "create"
  /\ UNCHANGED <<sizes, mem, ret, joined, buf, z>>

\* pthread_create fails: C is destroyed, whatever the threads already made do with it.
CreateFails ==
  /\ MayFail /\ pc = "create" /\ made < Threads
  /\ mem' = IF mem = "live" THEN "freed" ELSE mem
  /\ pc' = "print" /\ ret' = "NULL"
  /\ UNCHANGED <<sizes, made, joined, buf, threads>>

\* Slips: nobody is waited for; one thread too many is waited for.
JoinNobody ==
  /\ pc = "join" /\ pc' = "print" /\ ret' = "C"
  /\ UNCHANGED <<sizes, mem, made, joined, buf, threads>>
JoinOneMore ==
  /\ pc = "join" /\ joined < Threads /\ tpc[joined] = "done"
  /\ joined' = joined + 1
  /\ UNCHANGED <<sizes, pc, ret, mem, made, buf, threads>>

Join ==
  /\ pc = "join" /\ joined < Threads /\ tpc[joined] = "done"
  /\ joined' = joined + 1
  /\ IF joined' = Threads THEN pc' = "print" /\ ret' = "C" ELSE UNCHANGED <<pc, ret>>
  /\ UNCHANGED <<sizes, mem, made, buf, threads>>

\* main: printMatrix reads the size of what m_product returned without a look at it.
ShowResult ==
  /\ pc = "print"
  /\ \/ ret = "NULL" /\ pc' = "crashed" /\ UNCHANGED mem
     \/ ret = "C" /\ pc' = "done" /\ mem' = "freed"
  /\ UNCHANGED <<sizes, ret, made, joined, buf, threads>>

-----------------------------------------------------------------------------------
\* A slip: <= for < in the loop over the columns.
AdvanceLate(p) ==
  IF p[3] + 1 < B.n THEN <<p[1], p[2], p[3] + 1>>
  ELSE IF p[2] + 1 =< B.m THEN <<p[1], p[2] + 1, 0>>
  ELSE <<p[1] + 1, 0, 0>>

\* m_product_thread's three loops.
Advance(p) ==
  IF p[3] + 1 < B.n THEN <<p[1], p[2], p[3] + 1>>
  ELSE IF p[2] + 1 < B.m THEN <<p[1], p[2] + 1, 0>>
  ELSE <<p[1] + 1, 0, 0>>

Element(t) == <<at[t][1], at[t][2]>>

Load(t) ==
  /\ Running /\ mem = "live"
  /\ tpc[t] = "run" /\ at[t][1] < End(t) /\ B.n > 0
  /\ z' = [z EXCEPT ![t] = buf[Element(t)]]
  /\ tpc' = [tpc EXCEPT ![t] = "add"]
  /\ UNCHANGED <<sizes, main, buf, at>>

AddAndStore(t) ==
  /\ Running /\ mem = "live"
  /\ tpc[t] = "add"
  /\ buf' = [buf EXCEPT ![Element(t)] = Append(z[t], at[t][3])]
  /\ at' = [at EXCEPT ![t] = Advance(@)]
  /\ tpc' = [tpc EXCEPT ![t] = "run"]
  /\ UNCHANGED <<sizes, main, z>>

Return(t) ==
  /\ Running /\ tpc[t] = "run"
  /\ at[t][1] = End(t) \/ (B.n = 0 /\ mem = "live")
  /\ tpc' = [tpc EXCEPT ![t] = "done"]
  /\ UNCHANGED <<sizes, main, buf, at, z>>

\* C->m through NULL ends the process; C, and the thread's arguments, in memory that is
\* freed may do so or let the thread come to an end of its own.
Stray(t) ==
  /\ Running /\ mem \in {"null", "freed"}
  /\ tpc[t] = "add" \/ (tpc[t] = "run" /\ at[t][1] < End(t))
  /\ \/ pc' = "crashed" /\ UNCHANGED tpc
     \/ mem = "freed" /\ tpc' = [tpc EXCEPT ![t] = "done"] /\ UNCHANGED pc
  /\ UNCHANGED <<sizes, mem, ret, made, joined, buf, at, z>>

MainNext == Mismatch \/ Allocate \/ Create \/ CreateFails \/ Join \/ ShowResult
ThreadNext(t) == Load(t) \/ AddAndStore(t) \/ Return(t) \/ Stray(t)

Next == MainNext \/ \E t \in ThreadIds : ThreadNext(t)
Spec == Init /\ [][Next]_vars

\* The processor goes to main when it can go on, and to some thread when one can.
FairSpec == Spec /\ WF_vars(MainNext) /\ WF_vars(\E t \in ThreadIds : ThreadNext(t))

-----------------------------------------------------------------------------------
\* The rows are shared out: at most max_threads threads, each with at least one row, every
\* row of the result with exactly one of them, and none beyond the last row.
SharedOut ==
  /\ A.n > 0 => Threads =< max_threads
  /\ \A t \in ThreadIds : 0 =< Start(t) /\ Start(t) < End(t) /\ End(t) =< A.n
  /\ \A i \in 0 .. A.n - 1 : \E t \in ThreadIds :
       /\ Start(t) =< i /\ i < End(t)
       /\ \A u \in ThreadIds : Start(u) =< i /\ i < End(u) => u = t

\* No update is lost: what a thread is about to store back is what is there.
NoLostUpdate ==
  mem = "live" => \A t \in ThreadIds : tpc[t] = "add" => z[t] = buf[Element(t)]

\* The first n terms, in order.
Terms(n) == [k \in 1 .. n |-> k - 1]

\* A matrix that m_product returns is the product: in every element every term, once, and in
\* order, although nobody but pthread_join synchronises the threads.
Complete ==
  ret = "C" /\ pc = "print" =>
    \A e \in Elements : buf[e] = Terms(B.n)

\* No thread outlives the call that made it, with its arguments and then C gone under its
\* hands, when that call returns a matrix.  (When a later pthread_create fails it returns
\* NULL at once, and threads may be left behind: matrix.c:106.)
NoneLeftBehind == ret = "C" => \A t \in ThreadIds : tpc[t] \in {"none", "done"}

\* The program ends, whatever the sizes and the number of threads: no join is for ever.
Terminates == <>(pc \in {"done", "crashed"})
===================================================================================
