--------------------------- MODULE MatrixProductProofs ---------------------------
(*********************************************************************************)
(* For matrices of any size and any number of threads: the rows are shared out    *)
(* without a gap or an overlap, no update is lost although nothing is locked, and *)
(* what m_product returns is the whole product, whatever malloc and               *)
(* pthread_create do.                                                             *)
(*********************************************************************************)
EXTENDS MatrixInvariant, TLAPS

USE MatrixAssumption

\* Division: what \div and the products of the shares obey.
LEMMA DivLemma ==
  ASSUME NEW a \in Nat, NEW b \in Nat \ {0}
  PROVE  /\ a \div b \in Nat
         /\ (a \div b) * b =< a
         /\ a < (a \div b) * b + b
OBVIOUS

LEMMA ProductLemma ==
  ASSUME NEW r \in Nat, NEW s \in Int, NEW t \in Int
  PROVE  /\ s * r \in Int /\ (s + 1) * r = s * r + r /\ (s - 1) * r = s * r - r
         /\ s =< t => s * r =< t * r
         /\ s * r < t * r => s < t
         /\ s * r = r * s
OBVIOUS

\* Rounding up: with r rows to a thread, so many blocks hold all n rows and one less does
\* not; and there are no more than q of them.
LEMMA BlocksLemma ==
  ASSUME NEW n \in Nat \ {0}, NEW r \in Nat \ {0}
  PROVE  /\ Blocks(n, r) \in Nat \ {0}
         /\ n =< Blocks(n, r) * r
         /\ (Blocks(n, r) - 1) * r < n
<1> DEFINE k == Blocks(n, r)
<1>1. k \in Nat /\ k * r =< n + r - 1 /\ n + r - 1 < k * r + r
  BY DivLemma DEF Blocks
<1>2. k * r \in Int /\ (k - 1) * r = k * r - r
  BY <1>1, ProductLemma
<1>3. k # 0
  <2> SUFFICES ASSUME k = 0 PROVE FALSE
    OBVIOUS
  <2>1. k * r = 0  OBVIOUS
  <2> QED  BY <1>1, <2>1
<1> HIDE DEF k
<1> QED  BY <1>1, <1>2, <1>3 DEF k

LEMMA RowsLemma ==
  ASSUME NEW n \in Nat \ {0}, NEW q \in Nat \ {0}
  PROVE  LET r == Blocks(n, q) IN Blocks(n, r) =< q
<1> DEFINE r == Blocks(n, q)  k == Blocks(n, r)
<1>1. r \in Nat \ {0} /\ n =< r * q
  BY BlocksLemma
<1>2. k \in Nat \ {0} /\ (k - 1) * r < n
  BY <1>1, BlocksLemma
<1> HIDE DEF r, k
<1>3. (k - 1) * r < q * r
  BY <1>1, <1>2, ProductLemma
<1>4. k - 1 < q
  BY <1>1, <1>2, <1>3, ProductLemma
<1> QED  BY <1>2, <1>4 DEF r, k

\* What the rest needs to know of the shares.
Shares ==
  /\ A.n \in Nat /\ A.m \in Nat /\ B.n \in Nat /\ B.m \in Nat
  /\ ThreadIds \subseteq Nat
  /\ A.n > 0 => Threads \in Nat \ {0} /\ ThreadIds = 0 .. Threads - 1
  /\ A.n = 0 => ThreadIds = {}
  /\ \A t \in ThreadIds : Start(t) \in Nat /\ End(t) \in Nat

LEMMA SharesLemma ==
  ASSUME A \in [n : Sizes, m : Sizes], B \in [n : Sizes, m : Sizes],
         max_threads \in MaxThreads
  PROVE  Shares /\ SharedOut
<1>1. A.n \in Nat /\ A.m \in Nat /\ B.n \in Nat /\ B.m \in Nat /\ max_threads \in Nat \ {0}
  OBVIOUS
<1>2. CASE A.n = 0
  BY <1>1, <1>2 DEF Shares, SharedOut, ThreadIds
<1>3. CASE A.n # 0
  <2> DEFINE n == A.n  r == RowsPerThread  k == Threads
  <2>1. r \in Nat \ {0} /\ r = Blocks(n, max_threads) /\ k = Blocks(n, r)
    BY <1>1, <1>3, BlocksLemma DEF RowsPerThread, Blocks, Threads
  <2>2. k \in Nat \ {0} /\ n =< k * r /\ (k - 1) * r < n
    BY <1>1, <1>3, <2>1, BlocksLemma
  <2>3. k =< max_threads
    BY <1>1, <1>3, <2>1, RowsLemma
  <2>4. ThreadIds = 0 .. k - 1
    BY <1>3 DEF ThreadIds
  <2> HIDE DEF r, k
  <2>5. \A t \in ThreadIds : /\ Start(t) = t * r
                             /\ End(t) = IF t * r + r > n THEN n ELSE t * r + r
                             /\ t * r \in Nat /\ t * r < n
    <3> SUFFICES ASSUME NEW t \in ThreadIds
                 PROVE  /\ Start(t) = t * r
                        /\ End(t) = IF t * r + r > n THEN n ELSE t * r + r
                        /\ t * r \in Nat /\ t * r < n
      OBVIOUS
    <3>1. t \in 0 .. k - 1  BY <2>4
    <3>2. (t + 1) * r = t * r + r /\ t * r =< (k - 1) * r /\ t * r \in Int /\ 0 * r =< t * r
      BY <2>1, <2>2, <3>1, ProductLemma
    <3>3. (k - 1) * r \in Int /\ 0 * r = 0
      BY <2>1, <2>2, ProductLemma
    <3>4. t * r \in Nat /\ t * r < n
      BY <1>1, <2>2, <3>2, <3>3
    <3> QED  BY <3>2, <3>4 DEF Start, End, r
  <2>6. \A t \in ThreadIds : Start(t) \in Nat /\ End(t) \in Nat
                             /\ Start(t) < End(t) /\ End(t) =< n
    BY <1>1, <2>1, <2>5
  <2>7. ASSUME NEW i \in 0 .. n - 1
        PROVE  \E t \in ThreadIds : Start(t) =< i /\ i < End(t)
    <3> DEFINE t == i \div r
    <3>1. t \in Nat /\ t * r =< i /\ i < t * r + r
      BY <1>1, <2>1, DivLemma
    <3> HIDE DEF t
    <3>2. t * r < k * r
      BY <1>1, <2>1, <2>2, <3>1, ProductLemma
    <3>3. t < k
      BY <2>1, <2>2, <3>1, <3>2, ProductLemma
    <3>4. t \in ThreadIds
      BY <2>2, <2>4, <3>1, <3>3
    <3> QED  BY <1>1, <2>5, <3>1, <3>4
  <2>8. ASSUME NEW t \in ThreadIds, NEW u \in ThreadIds, t < u
        PROVE  End(t) =< Start(u)
    <3>0. t \in Int /\ u \in Int
      BY <2>2, <2>4
    <3>1. t \in Int /\ u \in Int /\ t + 1 =< u
      BY <3>0, <2>8
    <3>2. (t + 1) * r =< u * r /\ (t + 1) * r = t * r + r
      BY <2>1, <3>1, ProductLemma
    <3> QED  BY <1>1, <2>1, <2>5, <3>2
  <2>9. Shares
    BY <1>1, <1>3, <2>2, <2>4, <2>6 DEF Shares, k
  <2>10. SharedOut
    <3>1. \A t \in ThreadIds : t \in Int  BY <2>2, <2>4
    <3>2. \A i \in 0 .. n - 1 : \A t, u \in ThreadIds :
            Start(t) =< i /\ i < End(t) /\ Start(u) =< i /\ i < End(u) => u = t
      BY <1>1, <2>6, <2>8, <3>1
    <3> QED  BY <1>1, <1>3, <2>3, <2>6, <2>7, <3>2 DEF SharedOut, k
  <2> QED  BY <2>9, <2>10
<1> QED  BY <1>2, <1>3

\* The sizes, and with them the shares, never change.
LEMMA SizesStep ==
  ASSUME [Next]_vars
  PROVE  /\ A' = A /\ B' = B /\ max_threads' = max_threads
         /\ ThreadIds' = ThreadIds /\ Elements' = Elements /\ Threads' = Threads
         /\ \A t : Start(t)' = Start(t) /\ End(t)' = End(t)
         /\ Shares' = Shares
<1>1. A' = A /\ B' = B /\ max_threads' = max_threads
  BY DEF Next, vars, sizes, MainNext, ThreadNext, Mismatch, Allocate, Create, CreateFails,
         Join, ShowResult, Load, AddAndStore, Return, Stray
<1> QED
  BY <1>1 DEF ThreadIds, Elements, Threads, Blocks, RowsPerThread, Start, End, Shares

LEMMA TermsLemma ==
  /\ Terms(0) = <<>>
  /\ \A n \in Nat : Append(Terms(n), n) = Terms(n + 1) /\ Terms(n) \in Seq(Nat)
<1>1. Terms(0) = <<>>
  BY DEF Terms
<1>2. ASSUME NEW n \in Nat
      PROVE  Append(Terms(n), n) = Terms(n + 1) /\ Terms(n) \in Seq(Nat)
  <2>1. Terms(n) \in Seq(Nat) /\ Len(Terms(n)) = n
    BY DEF Terms
  <2>2. Append(Terms(n), n) \in Seq(Nat) /\ Len(Append(Terms(n), n)) = n + 1
    BY <2>1
  <2>3. Terms(n + 1) \in Seq(Nat) /\ Len(Terms(n + 1)) = n + 1
    BY DEF Terms
  <2>4. \A k \in 1 .. n + 1 : Append(Terms(n), n)[k] = Terms(n + 1)[k]
    BY <2>1 DEF Terms
  <2> QED  BY <2>1, <2>2, <2>3, <2>4
<1> QED  BY <1>1, <1>2

LEMMA InitHolds == Init => IInv /\ Shares
<1> SUFFICES ASSUME Init PROVE IInv /\ Shares
  OBVIOUS
<1>1. Shares /\ SharedOut
  BY SharesLemma DEF Init
<1>2. TypeOK
  <2>1. buf \in [Elements -> Seq(Nat)]
    BY DEF Init, Fresh
  <2>2. at \in [ThreadIds -> (0 .. A.n) \X Nat \X Nat]
    BY <1>1 DEF Init, Shares
  <2> QED  BY <2>1, <2>2 DEF Init, TypeOK
<1>3. Phases /\ Places /\ Filled /\ NoLostUpdate
  BY <1>1 DEF Init, Phases, Places, Place, Filled, NoLostUpdate, NoneLeftBehind, Shares
<1> QED  BY <1>1, <1>2, <1>3 DEF IInv

LEMMA InvShares == TypeOK => Shares /\ SharedOut
BY SharesLemma DEF TypeOK

\* main's steps.
LEMMA MainStep == ASSUME IInv, MainNext PROVE IInv'
<1> USE DEF NoneLeftBehind
<1>0. TypeOK /\ Shares /\ SharedOut /\ Phases /\ Places /\ Filled /\ NoLostUpdate
  BY InvShares DEF IInv
<1>s. /\ A' = A /\ B' = B /\ max_threads' = max_threads
      /\ ThreadIds' = ThreadIds /\ Elements' = Elements /\ Threads' = Threads
      /\ \A t : Start(t)' = Start(t) /\ End(t)' = End(t)
  BY SizesStep DEF Next
<1>1. CASE Mismatch
  <2> USE <1>0, <1>s, <1>1 DEF Mismatch, threads, sizes
  <2>1. TypeOK'  BY DEF TypeOK
  <2>2. Phases'  BY DEF Phases
  <2>3. Places'  BY DEF Places, Place, Phases
  <2>4. Filled' /\ NoLostUpdate'  BY DEF Filled, NoLostUpdate, Phases
  <2> QED  BY <2>1, <2>2, <2>3, <2>4 DEF IInv
<1>2. CASE Allocate
  <2> USE <1>0, <1>s, <1>2 DEF Allocate, threads, sizes
  <2>0. /\ \A t \in ThreadIds : t \in Nat /\ tpc[t] = "none" /\ tpc' = tpc
        /\ buf' = Fresh /\ made' = 0 /\ joined' = 0
    BY DEF Phases, Shares
  <2>1. TypeOK'  BY DEF TypeOK
  <2>2. Phases'
    <3>1. CASE pc' = "print"
      BY <2>0, <3>1 DEF Phases, Shares, TypeOK
    <3>2. CASE pc' # "print"
      BY <2>0, <3>2 DEF Phases, Shares, TypeOK
    <3> QED  BY <3>1, <3>2
  <2>3. Places'  BY <2>0 DEF Places, Place
  <2>4. Filled'
    <3>1. \A e \in Elements : buf'[e] = Terms(0)
      BY <2>0, TermsLemma DEF Fresh
    <3> QED  BY <2>0, <3>1 DEF Filled, FilledBy, Added
  <2>5. NoLostUpdate'  BY <2>0 DEF NoLostUpdate
  <2> QED  BY <2>1, <2>2, <2>3, <2>4, <2>5 DEF IInv
<1>3. CASE Create
  <2>0. /\ made \in ThreadIds /\ made \in Nat /\ Threads \in Nat
        /\ tpc[made] = "none" /\ Start(made) \in 0 .. A.n /\ Start(made) < End(made)
        /\ A.n > 0 /\ B.m > 0 /\ ThreadIds \subseteq Nat /\ B.n \in Nat
    <3>1. /\ made \in Nat /\ made < Threads /\ A.n > 0 /\ B.m > 0
      BY <1>0, <1>3 DEF Create, Phases, TypeOK
    <3>2. /\ ThreadIds = 0 .. Threads - 1 /\ Threads \in Nat /\ B.n \in Nat /\ A.n \in Nat
      BY <1>0, <3>1 DEF Shares
    <3>3. made \in ThreadIds
      BY <3>1, <3>2
    <3>4. tpc[made] = "none"
      BY <1>0, <3>1, <3>3 DEF Phases
    <3>5. Start(made) \in Nat /\ End(made) \in Nat /\ Start(made) < End(made)
          /\ End(made) =< A.n
      BY <1>0, <3>3 DEF Shares, SharedOut
    <3> QED  BY <3>1, <3>2, <3>3, <3>4, <3>5
  <2>1. /\ \A t \in ThreadIds \ {made} : tpc'[t] = tpc[t] /\ at'[t] = at[t]
        /\ tpc'[made] = "run" /\ at'[made] = <<Start(made), 0, 0>>
    BY <1>0, <1>3, <2>0 DEF Create, TypeOK
  <2>2. /\ mem' = mem /\ mem \in {"live", "null"} /\ ret' = ret /\ ret = "none"
        /\ joined' = joined /\ joined = 0 /\ buf' = buf /\ z' = z
        /\ made' = made + 1 /\ made < Threads /\ pc = "create"
        /\ pc' = IF made' = Threads THEN "join" ELSE "create"
    BY <1>0, <1>3 DEF Create, Phases
  <2>3. TypeOK'
    <3>1. at' \in [ThreadIds -> (0 .. A.n) \X Nat \X Nat]
      BY <1>0, <1>3, <2>0 DEF Create, TypeOK
    <3>2. tpc' \in [ThreadIds -> {"none", "run", "add", "done"}]
      BY <1>0, <1>3 DEF Create, TypeOK
    <3>3. \A t \in ThreadIds : tpc'[t] \in {"run", "add"} => at'[t][2] < B.m
      BY <1>0, <2>0, <2>1 DEF TypeOK
    <3> QED  BY <1>0, <1>s, <2>2, <3>1, <3>2, <3>3 DEF TypeOK
  <2>4. Phases'
    <3>1. ASSUME NEW t \in ThreadIds PROVE tpc'[t] = "none" <=> made' =< t
      <4>1. t \in Nat /\ made \in Nat /\ made' = made + 1
        BY <2>0, <2>2
      <4>2. CASE t = made
        BY <2>1, <4>1, <4>2
      <4>3. CASE t # made
        <5>1. tpc[t] = "none" <=> made =< t
          BY <1>0 DEF Phases
        <5> QED  BY <2>1, <4>1, <4>3, <5>1
      <4> QED  BY <4>2, <4>3
    <3>2. \A t \in ThreadIds : ~(t < joined')
      BY <2>0, <2>2
    <3>3. /\ pc' = "create" => made' < Threads
          /\ pc' = "join" => made' = Threads /\ joined' < Threads
          /\ pc' \in {"create", "join"}
      BY <2>0, <2>2
    <3> QED  BY <1>s, <2>0, <2>2, <3>1, <3>2, <3>3 DEF Phases
  <2>5. Places'
    <3>1. ASSUME NEW t \in ThreadIds \ {made} PROVE Place(t)'
      BY <1>0, <1>s, <2>1, <2>2, <3>1 DEF Places, Place
    <3>2. ASSUME NEW t \in ThreadIds, t = made PROVE Place(t)'
      <4>1. Start(t) \in Nat /\ End(t) \in Nat /\ B.m \in Nat /\ B.n \in Nat
        BY <1>0 DEF Shares
      <4> QED  BY <1>s, <2>0, <2>1, <2>2, <3>2, <4>1 DEF Place
    <3> QED  BY <1>s, <3>1, <3>2 DEF Places
  <2>6. Filled'
    <3>1. ASSUME NEW t \in ThreadIds \ {made}, mem = "live" PROVE FilledBy(t)'
      BY <1>0, <1>s, <2>1, <2>2, <3>1 DEF Filled, FilledBy, Added, Element
    <3>2. ASSUME NEW t \in ThreadIds, t = made, mem = "live" PROVE FilledBy(t)'
      <4>1. \A e \in Elements : e[1] \in Nat /\ e[2] \in Nat
        BY DEF Elements
      <4>2. \A e \in Elements : Start(t) =< e[1] /\ e[1] < End(t) => buf[e] = Terms(0)
        BY <1>0, <2>0, <3>2 DEF Filled, FilledBy, Added
      <4>3. \A e \in Elements : Start(t) =< e[1] => Added(t, e)' = 0
        BY <1>s, <2>0, <2>1, <3>2, <4>1 DEF Added, Element
      <4> QED  BY <1>s, <2>2, <3>2, <4>2, <4>3 DEF FilledBy
    <3> QED  BY <1>s, <2>2, <3>1, <3>2 DEF Filled
  <2>7. NoLostUpdate'
    BY <1>0, <1>s, <2>1, <2>2 DEF NoLostUpdate, Element
  <2> QED  BY <2>3, <2>4, <2>5, <2>6, <2>7 DEF IInv
<1>4. ASSUME CreateFails \/ Join \/ ShowResult PROVE IInv'
  <2>1. /\ tpc' = tpc /\ at' = at /\ z' = z /\ buf' = buf /\ made' = made
        /\ mem' = mem \/ mem' = "freed"
    BY <1>4 DEF CreateFails, Join, ShowResult, threads
  <2>2. TypeOK'
    BY <1>0, <1>s, <1>4, <2>1 DEF TypeOK, CreateFails, Join, ShowResult
  <2>3. Phases'
    <3>1. CASE CreateFails
      BY <1>0, <1>s, <2>1, <3>1 DEF CreateFails, Phases
    <3>2. CASE Join
      <4>1. joined \in Nat /\ \A t \in ThreadIds : t \in Nat
        BY <1>0 DEF TypeOK, Shares
      <4>2. \A t \in ThreadIds : t < joined' => tpc[t] = "done"
        BY <1>0, <3>2, <4>1 DEF Join, Phases
      <4>3. joined' = Threads => \A t \in ThreadIds : tpc[t] = "done"
        BY <1>0, <3>2, <4>1, <4>2 DEF Phases, Join, Shares
      <4>4. joined \in ThreadIds
        BY <1>0, <3>2, <4>1 DEF Phases, Join, Shares
      <4>5. mem = "live"
        BY <1>0, <3>2, <4>4 DEF Phases, Join, Places, Place
      <4> QED  BY <1>0, <1>s, <2>1, <3>2, <4>1, <4>2, <4>3, <4>5 DEF Join, Phases, Shares
    <3>3. CASE ShowResult
      BY <1>0, <1>s, <2>1, <3>3 DEF ShowResult, Phases
    <3> QED  BY <1>4, <3>1, <3>2, <3>3
  <2>4. Places'
    BY <1>0, <1>s, <2>1 DEF Places, Place
  <2>5. Filled' /\ NoLostUpdate'
    BY <1>0, <1>s, <2>1 DEF Filled, FilledBy, Added, Element, NoLostUpdate
  <2> QED  BY <2>2, <2>3, <2>4, <2>5 DEF IInv
<1> QED  BY <1>1, <1>2, <1>3, <1>4 DEF MainNext

\* What a thread that is in its loops may rely on.
LEMMA AtWork ==
  ASSUME IInv, NEW t \in ThreadIds, tpc[t] \in {"run", "add"}
  PROVE  /\ at[t] \in Nat \X Nat \X Nat /\ B.n \in Nat /\ B.m \in Nat /\ t \in Nat
         /\ A.n \in Nat /\ Start(t) \in Nat /\ End(t) \in Nat /\ End(t) =< A.n
         /\ Start(t) =< at[t][1] /\ at[t][1] =< End(t) /\ at[t][2] < B.m
         /\ ret = "C" => FALSE
         /\ at[t][1] < End(t) => Element(t) \in Elements /\ buf[Element(t)] \in Seq(Nat)
<1> USE DEF IInv
<1>1. Shares /\ SharedOut
  BY InvShares
<1>2. at[t] \in Nat \X Nat \X Nat
  BY <1>1 DEF TypeOK, Shares
<1>3. Start(t) =< at[t][1] /\ at[t][1] =< End(t) /\ at[t][2] < B.m
  BY DEF Places, Place
<1>4. ret # "C"
  BY DEF Phases, NoneLeftBehind
<1>5. End(t) =< A.n /\ Start(t) \in Nat /\ End(t) \in Nat /\ A.n \in Nat /\ B.n \in Nat
      /\ B.m \in Nat /\ t \in Nat
  BY <1>1 DEF Shares, SharedOut
<1>6. at[t][1] < End(t) => Element(t) \in Elements
  BY <1>2, <1>3, <1>5 DEF Element, Elements
<1> QED  BY <1>2, <1>3, <1>4, <1>5, <1>6 DEF TypeOK

\* Two threads at work are in different rows, so at different elements.
LEMMA Apart ==
  ASSUME IInv, NEW t \in ThreadIds, NEW u \in ThreadIds, t # u,
         NEW i \in Nat, Start(t) =< i, i < End(t), Start(u) =< i, i < End(u)
  PROVE  FALSE
<1>1. Shares /\ SharedOut
  BY InvShares DEF IInv
<1>2. i \in 0 .. A.n - 1
  BY <1>1 DEF Shares, SharedOut
<1> QED  BY <1>1, <1>2 DEF SharedOut

\* One term is added: of the elements of the thread's rows only the one it is at changes.
LEMMA OneMore ==
  ASSUME IInv, NEW t \in ThreadIds, AddAndStore(t), NEW e \in Elements,
         Start(t) =< e[1], e[1] < End(t)
  PROVE  buf'[e] = Terms(Added(t, e)')
<1> DEFINE i == at[t][1]  j == at[t][2]  k == at[t][3]
<1>1. /\ TypeOK /\ tpc[t] = "add" /\ mem = "live"
      /\ z[t] = buf[Element(t)] /\ i < End(t) /\ B.n > 0 /\ k < B.n
  BY DEF IInv, AddAndStore, NoLostUpdate, Places, Place
<1>2. /\ i \in Nat /\ j \in Nat /\ k \in Nat /\ B.n \in Nat /\ B.m \in Nat /\ j < B.m
      /\ at[t] = <<i, j, k>> /\ Start(t) =< i /\ Element(t) \in Elements
      /\ Element(t) = <<i, j>>
  BY <1>1, AtWork DEF Element
<1>3. e[1] \in Nat /\ e[2] \in Nat /\ e[2] < B.m /\ e = <<e[1], e[2]>>
  BY <1>2 DEF Elements
<1>4. buf[e] = Terms(Added(t, e))
  BY <1>1 DEF IInv, Filled, FilledBy
<1>5. /\ buf' = [buf EXCEPT ![Element(t)] = Append(z[t], k)]
      /\ at'[t] = Advance(at[t]) /\ tpc'[t] = "run" /\ B' = B
  BY <1>1 DEF AddAndStore, TypeOK, sizes
<1> HIDE DEF i, j, k
<1>6. Added(t, e) = IF e[1] < i \/ (e[1] = i /\ e[2] < j) THEN B.n
                    ELSE IF e = <<i, j>> THEN k ELSE 0
  BY <1>1, <1>2 DEF Added
<1>7. CASE e = <<i, j>>
  <2>1. buf'[e] = Terms(k + 1)
    <3>1. Added(t, e) = k
      BY <1>2, <1>6, <1>7
    <3>2. buf'[e] = Append(Terms(k), k)
      BY <1>1, <1>2, <1>4, <1>5, <1>7, <3>1 DEF TypeOK
    <3> QED  BY <1>2, <3>2, TermsLemma
  <2>2. Added(t, e)' = k + 1
    <3>1. CASE k + 1 < B.n
      <4>1. at'[t] = <<i, j, k + 1>>
        BY <1>2, <1>5, <3>1 DEF Advance
      <4> QED  BY <1>2, <1>5, <1>7, <4>1 DEF Added, Element
    <3>2. CASE k + 1 >= B.n /\ j + 1 < B.m
      <4>1. at'[t] = <<i, j + 1, 0>>
        BY <1>2, <1>5, <3>2 DEF Advance
      <4> QED  BY <1>1, <1>2, <1>5, <1>7, <3>2, <4>1 DEF Added, Element
    <3>3. CASE k + 1 >= B.n /\ j + 1 >= B.m
      <4>1. at'[t] = <<i + 1, 0, 0>>
        BY <1>2, <1>5, <3>3 DEF Advance
      <4> QED  BY <1>1, <1>2, <1>5, <1>7, <3>3, <4>1 DEF Added, Element
    <3> QED  BY <1>2, <3>1, <3>2, <3>3
  <2> QED  BY <2>1, <2>2
<1>8. CASE e # <<i, j>>
  <2>1. buf'[e] = buf[e]
    BY <1>1, <1>2, <1>5, <1>8 DEF TypeOK
  <2>2. Added(t, e)' = Added(t, e)
    <3>1. CASE k + 1 < B.n
      <4>1. at'[t] = <<i, j, k + 1>>
        BY <1>2, <1>5, <3>1 DEF Advance
      <4>2. Added(t, e)' = IF e[1] < i \/ (e[1] = i /\ e[2] < j) THEN B.n
                           ELSE IF e = <<i, j>> THEN k + 1 ELSE 0
        BY <1>5, <4>1 DEF Added, Element
      <4> QED  BY <1>6, <1>8, <4>2
    <3>2. CASE k + 1 >= B.n /\ j + 1 < B.m
      <4>1. at'[t] = <<i, j + 1, 0>>
        BY <1>2, <1>5, <3>2 DEF Advance
      <4>2. Added(t, e)' = IF e[1] < i \/ (e[1] = i /\ e[2] < j + 1) THEN B.n ELSE 0
        BY <1>5, <4>1 DEF Added, Element
      <4>3. e[1] = i => e[2] # j
        BY <1>3, <1>8
      <4> QED  BY <1>2, <1>3, <1>6, <1>8, <4>2, <4>3
    <3>3. CASE k + 1 >= B.n /\ j + 1 >= B.m
      <4>1. at'[t] = <<i + 1, 0, 0>>
        BY <1>2, <1>5, <3>3 DEF Advance
      <4>2. Added(t, e)' = IF e[1] < i + 1 \/ (e[1] = i + 1 /\ e[2] < 0) THEN B.n ELSE 0
        BY <1>5, <4>1 DEF Added, Element
      <4>3. e[1] = i => e[2] < j
        BY <1>2, <1>3, <1>8, <3>3
      <4> QED  BY <1>2, <1>3, <1>6, <1>8, <4>2, <4>3
    <3> QED  BY <1>2, <3>1, <3>2, <3>3
  <2> QED  BY <1>4, <2>1, <2>2
<1> QED  BY <1>7, <1>8

\* A step of thread t changes nothing of another thread.
Others(t) == \A u \in ThreadIds \ {t} : tpc'[u] = tpc[u] /\ at'[u] = at[u] /\ z'[u] = z[u]

LEMMA ThreadStep == ASSUME IInv, NEW t \in ThreadIds, ThreadNext(t) PROVE IInv'
<1>0. TypeOK /\ Shares /\ SharedOut /\ Phases /\ Places /\ Filled /\ NoLostUpdate
  BY InvShares DEF IInv
<1>s. /\ A' = A /\ B' = B /\ max_threads' = max_threads
      /\ ThreadIds' = ThreadIds /\ Elements' = Elements /\ Threads' = Threads
      /\ \A u : Start(u)' = Start(u) /\ End(u)' = End(u)
  BY SizesStep DEF Next
<1>a. /\ tpc[t] \in {"run", "add"} /\ pc \notin {"done", "crashed"} /\ ret # "C"
      /\ mem' = mem /\ ret' = ret /\ made' = made /\ joined' = joined
      /\ Others(t) /\ tpc'[t] # "none"
  <2>1. tpc[t] \in {"run", "add"}
    BY DEF ThreadNext, Load, AddAndStore, Return, Stray
  <2>2. ret # "C"
    BY <2>1, AtWork
  <2>3. Others(t) /\ tpc'[t] # "none"
    BY <1>0, <2>1 DEF ThreadNext, Load, AddAndStore, Return, Stray, Others, TypeOK, main, threads
  <2> QED
    BY <2>1, <2>2, <2>3 DEF ThreadNext, Load, AddAndStore, Return, Stray, Running, main
<1>b. pc' = pc \/ pc' = "crashed"
  BY DEF ThreadNext, Load, AddAndStore, Return, Stray, main
<1>c. Phases'
  <2>1. tpc[t] # "none" /\ (t < joined => FALSE) /\ pc # "call"
    <3>1. pc # "call"
      BY <1>0, <1>a DEF Phases, Shares
    <3> QED  BY <1>0, <1>a, <3>1 DEF Phases
  <2>2. /\ \A u \in ThreadIds : tpc'[u] = "none" <=> made' =< u
        /\ \A u \in ThreadIds : u < joined' => tpc'[u] = "done"
    BY <1>0, <1>a, <2>1 DEF Phases, Others
  <2> QED  BY <1>0, <1>s, <1>a, <1>b, <2>1, <2>2 DEF Phases, NoneLeftBehind
<1>d. \A u \in ThreadIds \ {t} : Place(u)'
  BY <1>0, <1>s, <1>a DEF Places, Place, Others
<1>1. CASE Load(t)
  <2>1. /\ at' = at /\ buf' = buf /\ z' = [z EXCEPT ![t] = buf[Element(t)]]
        /\ tpc' = [tpc EXCEPT ![t] = "add"] /\ mem = "live" /\ tpc[t] = "run"
        /\ at[t][1] < End(t) /\ B.n > 0 /\ pc' = pc
    BY <1>1 DEF Load, main
  <2>2. TypeOK'
    BY <1>0, <1>s, <1>a, <2>1, AtWork DEF TypeOK
  <2>3. Places'
    <3>1. Place(t)'
      BY <1>0, <1>s, <1>a, <2>1 DEF Places, Place, TypeOK
    <3> QED  BY <1>s, <1>d, <3>1 DEF Places
  <2>4. Filled'
    <3>1. \A u \in ThreadIds, e \in Elements : Added(u, e)' = Added(u, e)
      BY <1>0, <1>s, <2>1 DEF Added, Element, TypeOK
    <3> QED  BY <1>0, <1>s, <2>1, <3>1 DEF Filled, FilledBy
  <2>5. NoLostUpdate'
    <3>1. \A u \in ThreadIds : Element(u)' = Element(u)
      BY <2>1 DEF Element
    <3>2. z'[t] = buf[Element(t)]
      BY <1>0, <2>1 DEF TypeOK
    <3> QED  BY <1>0, <1>s, <1>a, <2>1, <3>1, <3>2 DEF NoLostUpdate, Others
  <2> QED  BY <1>c, <2>2, <2>3, <2>4, <2>5 DEF IInv
<1>2. CASE AddAndStore(t)
  <2>1. /\ buf' = [buf EXCEPT ![Element(t)] = Append(z[t], at[t][3])]
        /\ at' = [at EXCEPT ![t] = Advance(at[t])] /\ tpc' = [tpc EXCEPT ![t] = "run"]
        /\ mem = "live" /\ tpc[t] = "add" /\ z' = z /\ pc' = pc
    BY <1>0, <1>2 DEF AddAndStore, main, TypeOK
  <2>2. at[t][1] < End(t) /\ B.n > 0 /\ at[t][3] < B.n
    BY <1>0, <2>1 DEF Places, Place
  <2> DEFINE i == at[t][1]  j == at[t][2]  k == at[t][3]  p == Advance(at[t])
  <2>3. /\ i \in Nat /\ j \in Nat /\ k \in Nat /\ B.n \in Nat /\ B.m \in Nat /\ j < B.m
        /\ A.n \in Nat /\ Start(t) \in Nat /\ End(t) \in Nat /\ End(t) =< A.n
        /\ Start(t) =< i /\ Element(t) = <<i, j>> /\ Element(t) \in Elements
    BY <2>1, <2>2, AtWork DEF Element
  <2>4. /\ p \in (0 .. A.n) \X Nat \X Nat
        /\ Start(t) =< p[1] /\ p[1] =< End(t) /\ p[2] < B.m /\ p[3] < B.n
        /\ p[1] = End(t) => p[2] = 0 /\ p[3] = 0
    BY <2>2, <2>3 DEF Advance
  <2> HIDE DEF i, j, k, p
  <2>5. at'[t] = p /\ tpc'[t] = "run"
    BY <1>0, <2>1 DEF TypeOK, p
  <2>6. TypeOK'
    <3>1. at' \in [ThreadIds -> (0 .. A.n) \X Nat \X Nat]
      BY <1>0, <2>1, <2>4 DEF TypeOK, p
    <3>2. buf' \in [Elements -> Seq(Nat)]
      <4>1. z[t] \in Seq(Nat)
        BY <1>0 DEF TypeOK
      <4>2. Append(z[t], k) \in Seq(Nat)
        BY <2>3, <4>1
      <4> QED  BY <1>0, <2>1, <2>3, <4>2 DEF TypeOK, k
    <3>3. tpc' \in [ThreadIds -> {"none", "run", "add", "done"}]
      BY <1>0, <2>1 DEF TypeOK
    <3>4. \A u \in ThreadIds : tpc'[u] \in {"run", "add"} => at'[u][2] < B.m
      BY <1>0, <1>a, <2>4, <2>5 DEF TypeOK, Others
    <3> QED  BY <1>0, <1>s, <1>a, <2>1, <3>1, <3>2, <3>3, <3>4 DEF TypeOK
  <2>7. Places'
    <3>1. Place(t)'
      BY <1>s, <1>a, <2>1, <2>4, <2>5 DEF Place
    <3> QED  BY <1>s, <1>d, <3>1 DEF Places
  <2>8. ASSUME NEW u \in ThreadIds \ {t}, NEW e \in Elements, Start(u) =< e[1], e[1] < End(u)
        PROVE  e # Element(t)
    <3> SUFFICES ASSUME e = <<i, j>> PROVE FALSE
      BY <2>3
    <3> QED  BY <2>2, <2>3, <2>8, Apart DEF i
  <2>9. Filled'
    <3>1. ASSUME NEW u \in ThreadIds \ {t} PROVE FilledBy(u)'
      <4>1. \A e \in Elements : Added(u, e)' = Added(u, e)
        BY <1>s, <1>a DEF Added, Element, Others
      <4>2. \A e \in Elements : Start(u) =< e[1] /\ e[1] < End(u) => buf'[e] = buf[e]
        BY <1>0, <2>1, <2>8, <3>1 DEF TypeOK
      <4> QED  BY <1>0, <1>s, <2>1, <4>1, <4>2 DEF Filled, FilledBy
    <3>2. FilledBy(t)'
      BY <1>2, <1>s, OneMore DEF FilledBy
    <3> QED  BY <1>s, <3>1, <3>2 DEF Filled
  <2>10. NoLostUpdate'
    <3>1. ASSUME NEW u \in ThreadIds \ {t}, tpc[u] = "add"
          PROVE  buf'[Element(u)] = buf[Element(u)]
      <4>1. at[u][1] < End(u)
        BY <1>0, <3>1 DEF Places, Place
      <4>2. /\ Element(u) \in Elements /\ Start(u) =< at[u][1]
            /\ Element(u)[1] = at[u][1]
        BY <3>1, <4>1, AtWork DEF Element
      <4> QED  BY <1>0, <2>1, <2>8, <4>1, <4>2 DEF TypeOK
    <3>2. \A u \in ThreadIds \ {t} : Element(u)' = Element(u)
      BY <1>a DEF Element, Others
    <3> QED  BY <1>0, <1>s, <1>a, <2>1, <2>5, <3>1, <3>2 DEF NoLostUpdate, Others
  <2> QED  BY <1>c, <2>6, <2>7, <2>9, <2>10 DEF IInv
<1>3. CASE Return(t) \/ Stray(t)
  <2>1. /\ at' = at /\ buf' = buf /\ z' = z
        /\ tpc'[t] # "none" /\ (tpc'[t] = "add" => tpc[t] = "add")
    BY <1>0, <1>3, <1>a DEF Return, Stray, threads, main, TypeOK
  <2>2. TypeOK'
    <3>1. tpc' \in [ThreadIds -> {"none", "run", "add", "done"}]
      BY <1>0, <1>3 DEF Return, Stray, threads, TypeOK
    <3>2. \A u \in ThreadIds : tpc'[u] \in {"run", "add"} => at'[u][2] < B.m
      BY <1>0, <1>a, <2>1 DEF TypeOK, Others
    <3> QED  BY <1>0, <1>s, <1>a, <1>b, <2>1, <3>1, <3>2 DEF TypeOK
  <2>3. Places'
    <3>1. Place(t)'
      <4>1. CASE Return(t)
        <5>1. tpc'[t] = "done" /\ tpc[t] = "run"
          BY <1>0, <4>1 DEF Return, TypeOK
        <5>2. mem # "null"
          <6>1. Start(t) < End(t) /\ Start(t) \in Nat /\ End(t) \in Nat
            BY <1>0 DEF SharedOut, Shares
          <6>2. mem = "null" => at[t][1] = End(t) /\ at[t][1] = Start(t)
            BY <1>0, <4>1, <5>1 DEF Return, Places, Place
          <6> QED  BY <6>1, <6>2
        <5> QED  BY <1>0, <1>s, <1>a, <2>1, <4>1, <5>1, <5>2 DEF Return, Places, Place
      <4>2. CASE Stray(t)
        <5>1. tpc'[t] = tpc[t] \/ (mem = "freed" /\ tpc'[t] = "done")
          BY <1>0, <4>2 DEF Stray, TypeOK
        <5> QED  BY <1>0, <1>s, <1>a, <2>1, <5>1 DEF Places, Place
      <4> QED  BY <1>3, <4>1, <4>2
    <3> QED  BY <1>s, <1>d, <3>1 DEF Places
  <2>4. Filled'
    <3>1. \A u \in ThreadIds, e \in Elements : Added(u, e)' = Added(u, e)
      BY <1>s, <1>a, <2>1 DEF Added, Element, Others
    <3> QED  BY <1>0, <1>s, <1>a, <2>1, <3>1 DEF Filled, FilledBy
  <2>5. NoLostUpdate'
    <3>1. \A u \in ThreadIds : Element(u)' = Element(u)
      BY <2>1 DEF Element
    <3> QED  BY <1>0, <1>s, <1>a, <2>1, <3>1 DEF NoLostUpdate, Others
  <2> QED  BY <1>c, <2>2, <2>3, <2>4, <2>5 DEF IInv
<1> QED  BY <1>1, <1>2, <1>3 DEF ThreadNext

\* The inductive invariant, with the types in it: whatever the sizes, the number of threads
\* and the calls that fail.
THEOREM Invariance == Spec => []IInv
<1>1. IInv /\ [Next]_vars => IInv'
  <2> SUFFICES ASSUME IInv, [Next]_vars PROVE IInv'
    OBVIOUS
  <2>1. CASE MainNext  BY <2>1, MainStep
  <2>2. CASE \E t \in ThreadIds : ThreadNext(t)  BY <2>2, ThreadStep
  <2>3. CASE UNCHANGED vars
    BY <2>3, SizesStep DEF vars, sizes, main, threads, IInv, TypeOK, Phases, NoneLeftBehind,
       Places, Place, Filled, FilledBy, Added, Element, NoLostUpdate, Fresh
  <2> QED  BY <2>1, <2>2, <2>3 DEF Next
<1> QED  BY <1>1, InitHolds, PTL DEF Spec

\* Every row of the result goes to one thread, and there are no more threads than asked for.
THEOREM RowsSharedOut == Spec => []SharedOut
<1>1. IInv => SharedOut
  BY InvShares DEF IInv
<1> QED  BY <1>1, Invariance, PTL

\* No thread overwrites what another has added.
THEOREM NothingLost == Spec => []NoLostUpdate
BY Invariance, PTL DEF IInv

\* A matrix that m_product returns has every term of every element, for all sizes and any
\* number of threads.
THEOREM ProductComplete == Spec => []Complete
<1>1. IInv => Complete
  <2> SUFFICES ASSUME IInv, ret = "C", pc = "print", NEW e \in Elements
               PROVE  buf[e] = Terms(B.n)
    BY DEF Complete
  <2>1. Shares /\ SharedOut /\ TypeOK
    BY InvShares DEF IInv
  <2>2. e[1] \in 0 .. A.n - 1 /\ e[2] \in 0 .. B.m - 1
    BY DEF Elements
  <2>3. A.n > 0 /\ B.m > 0
    BY <2>1, <2>2 DEF Shares
  <2>4. PICK t \in ThreadIds : Start(t) =< e[1] /\ e[1] < End(t)
    BY <2>1, <2>2 DEF SharedOut
  <2>5. tpc[t] = "done" /\ mem = "live"
    BY <2>3 DEF IInv, Phases
  <2>6. at[t][1] = End(t) \/ B.n = 0
    BY <2>5 DEF IInv, Places, Place
  <2>7. at[t][3] \in Nat /\ (B.n = 0 => at[t][3] = 0)
    <3>1. at[t] \in (0 .. A.n) \X Nat \X Nat
      BY <2>1 DEF TypeOK
    <3>2. B.n = 0 => at[t][3] = 0
      <4>1. at[t][3] < B.n \/ (B.n = 0 /\ at[t][3] = 0)
        BY <2>5 DEF IInv, Places, Place
      <4> QED  BY <3>1, <4>1
    <3> QED  BY <3>1, <3>2
  <2>8. Added(t, e) = B.n
    BY <2>1, <2>4, <2>5, <2>6, <2>7 DEF Added, Shares
  <2> QED  BY <2>4, <2>5, <2>8 DEF IInv, Filled, FilledBy
<1> QED  BY <1>1, Invariance, PTL

\* ... and no thread is still at work on it when it is returned, or ever after.
THEOREM ThreadsJoined == Spec => []NoneLeftBehind
<1>1. IInv => NoneLeftBehind
  BY DEF IInv, Phases
<1> QED  BY <1>1, Invariance, PTL
=================================================================================
