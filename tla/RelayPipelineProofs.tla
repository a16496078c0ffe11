--------------------------- MODULE RelayPipelineProofs ---------------------------
(*********************************************************************************)
(* For every input, pipe size and stdout buffer, whatever fails and whoever is    *)
(* killed: os_cp shows its lines one at a time and in order and prints no two     *)
(* lengths of different lines.  Whose failure it takes for a process to meet a    *)
(* pipe without its other end is proved, too.                                     *)
(*********************************************************************************)
EXTENDS RelayInvariant, TLAPS

USE RelayAssumption

\* What Append and Tail do, element by element.
LEMMA AppendLemma ==
  ASSUME NEW S, NEW s \in Seq(S), NEW x \in S
  PROVE  /\ Append(s, x) \in Seq(S) /\ Len(s) \in Nat /\ Len(Append(s, x)) = Len(s) + 1
         /\ \A k \in 1 .. Len(s) : Append(s, x)[k] = s[k]
         /\ Append(s, x)[Len(s) + 1] = x
OBVIOUS

LEMMA ConcatLemma ==
  ASSUME NEW S, NEW s \in Seq(S), NEW t \in Seq(S)
  PROVE  /\ s \o t \in Seq(S) /\ Len(s) \in Nat /\ Len(t) \in Nat
         /\ Len(s \o t) = Len(s) + Len(t)
         /\ \A k \in 1 .. Len(s) : (s \o t)[k] = s[k]
         /\ \A k \in 1 .. Len(t) : (s \o t)[Len(s) + k] = t[k]
OBVIOUS

LEMMA TailLemma ==
  ASSUME NEW S, NEW s \in Seq(S), s # <<>>
  PROVE  /\ Tail(s) \in Seq(S) /\ Len(s) \in Nat \ {0} /\ Len(Tail(s)) = Len(s) - 1
         /\ Head(s) = s[1] /\ Head(s) \in S
         /\ \A k \in 1 .. Len(s) - 1 : Tail(s)[k] = s[k + 1]
OBVIOUS

\* What there is to know of a line: it is not empty, and a message is made of numbers.
LEMMA SameElements ==
  ASSUME NEW S, NEW s \in Seq(S), NEW t \in Seq(S), Len(s) = Len(t),
         \A k \in 1 .. Len(s) : s[k] = t[k]
  PROVE  s = t
OBVIOUS

LEMMA LineLemma ==
  ASSUME input \in Seq(Lines), NEW k \in 1 .. Len(input)
  PROVE  /\ input[k] \in Seq(Nat) /\ Len(input[k]) \in Nat \ {0}
         /\ Size(k) \in Nat /\ Size(k) = Len(input[k]) + 2
         /\ Unit(k, 0) = Len(input[k])
         /\ \A j \in Nat : Unit(k, j) \in Nat
         /\ \A j \in 1 .. Len(input[k]) : Unit(k, j) = input[k][j]
<1>1. input[k] \in Seq(Chars) /\ input[k] # <<>>
  BY DEF Lines
<1>2. /\ Len(input[k]) \in Nat \ {0}
      /\ \A j \in 1 .. Len(input[k]) : input[k][j] \in Nat
  BY <1>1 DEF Chars
<1>3. input[k] \in Seq(Nat)
  BY <1>1 DEF Chars
<1>4. \A j \in Nat : Unit(k, j) \in Nat
  BY <1>2 DEF Unit
<1>5. \A j \in 1 .. Len(input[k]) : Unit(k, j) = input[k][j]
  BY <1>2 DEF Unit
<1> QED  BY <1>2, <1>3, <1>4, <1>5 DEF Unit, Size

LEMMA InitHolds == Init => IInv
<1> SUFFICES ASSUME Init PROVE IInv
  OBVIOUS
<1>1. input \in Seq(Lines) /\ Len(input) \in Nat
  BY DEF Init
<1>2. \A p \in Pipes : pipe[p] = <<>>
  BY DEF Init
<1>3. TypeOK
  BY <1>1 DEF Init, TypeOK, Procs, Ends
<1>4. UnderWay
  BY <1>2 DEF Init, UnderWay, Pipes
<1>5. Acknowledged
  BY <1>2 DEF Init, Acknowledged, Pipes
<1>6. Lengths
  BY <1>2 DEF Init, Lengths, Pipes, Printed, ReadOfA, ReadOfC
<1>7. Descriptors
  BY DEF Init, Descriptors, Keeps, Procs
<1>8. Counts
  BY <1>2 DEF Init, Counts, Pipes, Printed, ReadOfA, ReadOfC
<1> QED  BY <1>3, <1>4, <1>5, <1>6, <1>7, <1>8 DEF IInv

\* The two ways a pipe changes.
LEMMA PipeStep ==
  ASSUME TypeOK, NEW p \in Pipes
  PROVE  /\ \A n \in Nat : Write(p, n) =>
              /\ pipe' \in [Pipes -> Seq(Nat)] /\ pipe'[p] = Append(pipe[p], n)
              /\ \A q \in Pipes \ {p} : pipe'[q] = pipe[q]
         /\ Read(p) =>
              /\ pipe' \in [Pipes -> Seq(Nat)] /\ pipe'[p] = Tail(pipe[p])
              /\ pipe[p] # <<>> /\ Head(pipe[p]) \in Nat
              /\ \A q \in Pipes \ {p} : pipe'[q] = pipe[q]
<1>1. pipe \in [Pipes -> Seq(Nat)] /\ pipe[p] \in Seq(Nat)
  BY DEF TypeOK
<1>2. ASSUME NEW n \in Nat, Write(p, n)
      PROVE  /\ pipe' \in [Pipes -> Seq(Nat)] /\ pipe'[p] = Append(pipe[p], n)
             /\ \A q \in Pipes \ {p} : pipe'[q] = pipe[q]
  <2>1. Append(pipe[p], n) \in Seq(Nat)
    BY <1>1, AppendLemma
  <2> QED  BY <1>1, <1>2, <2>1 DEF Write
<1>3. ASSUME Read(p)
      PROVE  /\ pipe' \in [Pipes -> Seq(Nat)] /\ pipe'[p] = Tail(pipe[p])
             /\ pipe[p] # <<>> /\ Head(pipe[p]) \in Nat
             /\ \A q \in Pipes \ {p} : pipe'[q] = pipe[q]
  <2>1. pipe[p] # <<>>
    BY <1>3 DEF Read
  <2>2. Tail(pipe[p]) \in Seq(Nat) /\ Head(pipe[p]) \in Nat
    BY <1>1, <2>1, TailLemma
  <2> QED  BY <1>1, <1>3, <2>1, <2>2 DEF Read
<1> QED  BY <1>2, <1>3

\* What C shows is the beginning of what it has read.
LEMMA ShowsText ==
  ASSUME TypeOK, UnderWay, CShow
  PROVE  shown' = Append(shown, SubSeq(str, 1, len)) /\ SubSeq(str, 1, len) \in Seq(Nat)
<1>1. cpc = "show" /\ shown' = Append(shown, SubSeq(str, 1, len))
  BY DEF CShow
<1>2. str \in Seq(Nat) /\ len \in Nat
  BY DEF TypeOK
<1>3. len =< Len(str)
  BY <1>1, <1>2 DEF UnderWay
<1>4. SubSeq(str, 1, len) \in Seq(Nat)
  BY <1>2, <1>3
<1> QED  BY <1>1, <1>4

\* Every action, taken from a state of the invariant, keeps the types.
LEMMA TypeStep == ASSUME IInv, [Next]_vars PROVE TypeOK'
<1>0. TypeOK /\ UnderWay /\ Acknowledged
  BY DEF IInv
<1>p. "AB" \in Pipes /\ "AC" \in Pipes /\ "CA" \in Pipes /\ "CB" \in Pipes /\ 0 \in Nat
  BY DEF Pipes
<1> USE <1>0
<1>1. CASE ForkB \/ ForkC \/ ForkFails \/ KillC \/ KillB \/ AKilled \/ ASigpipe
  <2>1. fds' \in [Procs -> SUBSET Ends]
    BY <1>1 DEF ForkB, ForkC, ForkFails, KillC, KillB, AKilled, ASigpipe, Terminate,
                ForkChild, CloseAll,
                TypeOK, Procs
  <2>2. doomed' \in SUBSET {"B", "C"}
    BY <1>1 DEF ForkB, ForkC, ForkFails, KillC, KillB, AKilled, ASigpipe, Terminate, TypeOK
  <2> QED
    BY <1>1, <2>1, <2>2 DEF ForkB, ForkC, ForkFails, KillC, KillB, AKilled, ASigpipe,
                            Terminate, TypeOK,
                            a, b, c
<1>2. CASE GetLine \/ GetNoLine
  <2>1. CASE GetLine
    <3>1. next' \in 0 .. Len(input) /\ sent' = 0 /\ input' = input /\ apc' = "send"
      BY <2>1 DEF GetLine, TypeOK
    <3>2. UNCHANGED <<b, c, pipe, fds, doomed>>
      BY <2>1 DEF GetLine
    <3> QED  BY <3>1, <3>2 DEF TypeOK, b, c
  <2>2. CASE GetNoLine
    BY <2>2 DEF GetNoLine, TypeOK, b, c
  <2> QED  BY <1>2, <2>1, <2>2
<1>3. CASE SendLine \/ SendLength
  <2>1. next \in 1 .. Len(input) /\ sent \in Nat
    BY <1>3 DEF SendLine, SendLength, TypeOK, Acknowledged
  <2>2. Unit(next, sent) \in Nat /\ Len(input[next]) \in Nat
    BY <2>1, LineLemma DEF TypeOK
  <2>3. pipe' \in [Pipes -> Seq(Nat)]
    BY <1>3, <1>p, <2>2, PipeStep DEF SendLine, SendLength
  <2>4. /\ sent' \in Nat /\ apc' \in {"send", "len_b", "ack"}
        /\ UNCHANGED <<input, next, b, c, fds, doomed>>
    BY <1>3, <2>1 DEF SendLine, SendLength
  <2> QED  BY <2>3, <2>4 DEF TypeOK, b, c
<1>4. CASE AwaitAck \/ CAck \/ CSendLength
  <2>1. len \in Nat  BY DEF TypeOK
  <2>2. pipe' \in [Pipes -> Seq(Nat)]
    BY <1>4, <1>p, <2>1, PipeStep DEF AwaitAck, CAck, CSendLength
  <2>3. /\ apc' \in {apc, "read"} /\ cpc' \in {cpc, "ack", "len"}
        /\ UNCHANGED <<input, next, sent, b, len, str, shown, fds, doomed>>
    BY <1>4 DEF AwaitAck, CAck, CSendLength, a, c
  <2> QED  BY <2>2, <2>3 DEF TypeOK, b
<1>5. CASE BInit \/ BFails \/ BDies \/ CInit \/ CSigpipe \/ CFails \/ CDies
  <2>1. fds' \in [Procs -> SUBSET Ends]
    BY <1>5 DEF BInit, BFails, BDies, CInit, CSigpipe, CFails, CDies, Close, CloseAll,
                TypeOK, Procs
  <2> QED  BY <1>5, <2>1 DEF BInit, BFails, BDies, CInit, CSigpipe, CFails, CDies, TypeOK,
                             a, b, c
<1>6. CASE BReadA \/ BReadC
  <2>1. pipe' \in [Pipes -> Seq(Nat)] /\ len_a' \in Nat /\ len_c' \in Nat
    <3>1. CASE BReadA  BY <1>p, <3>1, PipeStep DEF BReadA, TypeOK
    <3>2. CASE BReadC  BY <1>p, <3>2, PipeStep DEF BReadC, TypeOK
    <3> QED  BY <1>6, <3>1, <3>2
  <2> QED  BY <1>6, <2>1 DEF BReadA, BReadC, TypeOK, a, c
<1>7. CASE BPrint
  <2>1. <<len_a, len_c>> \in Nat \X Nat /\ held \in Seq(Nat \X Nat)
        /\ report \in Seq(Nat \X Nat)
    BY DEF TypeOK
  <2>2. Append(held, <<len_a, len_c>>) \in Seq(Nat \X Nat)
    BY <2>1, AppendLemma
  <2>3. report \o Append(held, <<len_a, len_c>>) \in Seq(Nat \X Nat)
    BY <2>1, <2>2
  <2>4. held' \in Seq(Nat \X Nat) /\ report' \in Seq(Nat \X Nat)
    <3> DEFINE out == Append(held, <<len_a, len_c>>)
    <3>1. \/ report' = report \o out /\ held' = <<>>
          \/ held' = out /\ report' = report
      BY <1>7 DEF BPrint
    <3> HIDE DEF out
    <3>2. out \in Seq(Nat \X Nat) /\ report \o out \in Seq(Nat \X Nat)
      BY <2>2, <2>3 DEF out
    <3>3. <<>> \in Seq(Nat \X Nat)
      OBVIOUS
    <3> QED  BY <2>1, <3>1, <3>2, <3>3
  <2> QED  BY <1>7, <2>4 DEF BPrint, TypeOK, a, c
<1>8. CASE CReadLength
  <2>1. pipe' \in [Pipes -> Seq(Nat)] /\ len' \in Nat
    BY <1>8, <1>p, PipeStep DEF CReadLength
  <2> QED  BY <1>8, <2>1 DEF CReadLength, TypeOK, a, b
<1>9. CASE CReadString
  <2>1. pipe' \in [Pipes -> Seq(Nat)] /\ Head(pipe["AC"]) \in Nat
    BY <1>9, <1>p, PipeStep DEF CReadString
  <2>2. str' \in Seq(Nat)
    BY <1>9, <2>1, AppendLemma DEF CReadString, TypeOK
  <2> QED  BY <1>9, <2>1, <2>2 DEF CReadString, TypeOK, a, b
<1>10. CASE CShow
  <2>1. shown' = Append(shown, SubSeq(str, 1, len)) /\ SubSeq(str, 1, len) \in Seq(Nat)
    BY <1>10, ShowsText
  <2>2. shown' \in Seq(Seq(Nat))
    BY <2>1, AppendLemma DEF TypeOK
  <2> QED  BY <1>10, <2>2 DEF CShow, TypeOK, a, b
<1>11. CASE UNCHANGED vars
  BY <1>11 DEF vars, a, b, c, TypeOK
<1> QED
  BY <1>1, <1>2, <1>3, <1>4, <1>5, <1>6, <1>7, <1>8, <1>9, <1>10, <1>11
  DEF Next, ANext, BNext, CNext

\* Who holds which ends: only forks, the children's first steps and deaths change it.
LEMMA DescriptorsStep == ASSUME IInv, [Next]_vars PROVE Descriptors'
<1>0. TypeOK /\ Descriptors
  BY DEF IInv
<1>p. "A" \in Procs /\ "B" \in Procs /\ "C" \in Procs
  BY DEF Procs
<1>f. fds \in [Procs -> SUBSET Ends]
  BY <1>0 DEF TypeOK
<1>1. CASE ForkB
  <2>1. fds'["B"] = fds["A"] /\ fds'["C"] = fds["C"]
        /\ fds'["A"] = fds["A"] \ {<<"AB", "r">>, <<"CB", "r">>}
    BY <1>p, <1>f, <1>1 DEF ForkB, ForkChild
  <2> QED  BY <1>0, <1>1, <2>1 DEF ForkB, Descriptors, Keeps, c
<1>2. CASE ForkC
  <2>1. fds'["C"] = fds["A"] /\ fds'["B"] = fds["B"]
        /\ fds'["A"] = fds["A"] \ {<<"AC", "r">>, <<"CA", "w">>, <<"CB", "w">>}
    BY <1>p, <1>f, <1>2 DEF ForkC, ForkChild
  <2>2. /\ apc = "fork_c" /\ apc' = "read" /\ cpc' = "forked" /\ cpc = "none"
        /\ bpc' = bpc /\ bpc # "none" /\ doomed' = doomed /\ "B" \notin doomed
        /\ fds["A"] = Ends \ {<<"AB", "r">>, <<"CB", "r">>}
    BY <1>0, <1>2 DEF ForkC, Descriptors, b
  <2>3. fds'["A"] = {<<"AB", "w">>, <<"AC", "w">>, <<"CA", "r">>}
    BY <2>1, <2>2 DEF Ends, Pipes
  <2>4. Keeps("B", bpc, Ends, Ends \ {<<"AB", "w">>, <<"CB", "w">>})'
    BY <1>0, <2>1, <2>2 DEF Descriptors, Keeps
  <2>5. Keeps("C", cpc, Ends \ {<<"AB", "r">>, <<"CB", "r">>},
                     {<<"AB", "w">>, <<"AC", "r">>, <<"CA", "w">>, <<"CB", "w">>})'
    BY <2>1, <2>2 DEF Keeps
  <2> QED  BY <1>0, <2>2, <2>3, <2>4, <2>5 DEF Descriptors
<1>3. CASE ForkFails \/ KillB \/ AKilled \/ ASigpipe
  <2>1. fds'["A"] = {} /\ fds'["B"] = fds["B"] /\ fds'["C"] = fds["C"]
    BY <1>p, <1>f, <1>3 DEF ForkFails, KillB, AKilled, ASigpipe, CloseAll, Terminate
  <2>2. /\ bpc' = bpc /\ cpc' = cpc /\ apc' \in {"exit", "killed"}
        /\ apc \notin {"exit", "killed"}
        /\ doomed' = doomed \/ (doomed' = doomed \cup {"B"} /\ apc = "kill_b" /\ apc' = "exit")
    BY <1>3 DEF ForkFails, KillB, AKilled, ASigpipe, Terminate, b, c
  <2>3. apc = "kill_b" => "C" \in doomed
    BY <1>0 DEF Descriptors
  <2>4. apc' = "exit" /\ apc # "kill_b" => cpc = "none"
    BY <1>0, <1>3 DEF ForkFails, KillB, AKilled, ASigpipe, Terminate, Descriptors
  <2> QED  BY <1>0, <2>1, <2>2, <2>3, <2>4 DEF Descriptors, Keeps
<1>4. CASE GetLine \/ GetNoLine \/ SendLine \/ SendLength \/ AwaitAck \/ KillC
  <2>1. /\ bpc' = bpc /\ cpc' = cpc /\ fds' = fds
        /\ \/ doomed' = doomed /\ apc \notin {"kill_c", "kill_b"} /\ apc' # "kill_b"
           \/ apc = "kill_c" /\ apc' = "kill_b" /\ doomed' = doomed \cup {"C"}
        /\ apc \notin {"fork_b", "fork_c", "exit", "killed"}
        /\ apc' \notin {"fork_b", "fork_c", "exit", "killed"}
    BY <1>4 DEF GetLine, GetNoLine, SendLine, SendLength, AwaitAck, KillC, Terminate, b, c
  <2> QED  BY <1>0, <2>1 DEF Descriptors, Keeps
<1>5. CASE BInit \/ BFails \/ BDies
  <2>1. /\ fds'["A"] = fds["A"] /\ fds'["C"] = fds["C"]
        /\ apc' = apc /\ cpc' = cpc /\ doomed' = doomed
    BY <1>p, <1>f, <1>5 DEF BInit, BFails, BDies, Close, CloseAll, a, c
  <2>2. Keeps("B", bpc, Ends, Ends \ {<<"AB", "w">>, <<"CB", "w">>})'
    BY <1>0, <1>p, <1>f, <1>5 DEF BInit, BFails, BDies, Close, CloseAll, Descriptors, Keeps
  <2>3. bpc' # "none" /\ bpc # "none" /\ (bpc' = "gone" => "B" \in doomed \/ MayFail)
    BY <1>0, <1>5 DEF BInit, BFails, BDies, Descriptors
  <2> QED  BY <1>0, <2>1, <2>2, <2>3 DEF Descriptors, Keeps
<1>6. CASE CInit \/ CSigpipe \/ CFails \/ CDies
  <2>1. /\ fds'["A"] = fds["A"] /\ fds'["B"] = fds["B"]
        /\ apc' = apc /\ bpc' = bpc /\ doomed' = doomed
    BY <1>p, <1>f, <1>6 DEF CInit, CSigpipe, CFails, CDies, Close, CloseAll, a, b
  <2>2. CASE CInit
    <3>1. fds'["C"] = (Ends \ {<<"AB", "r">>, <<"CB", "r">>}) \ {<<"AC", "w">>, <<"CA", "r">>}
      BY <1>0, <1>p, <1>f, <2>2 DEF CInit, Close, Descriptors, Keeps
    <3>2. fds'["C"] = {<<"AB", "w">>, <<"AC", "r">>, <<"CA", "w">>, <<"CB", "w">>}
      BY <3>1 DEF Ends, Pipes
    <3> QED  BY <1>0, <2>1, <2>2, <3>2 DEF CInit, Descriptors, Keeps
  <2>3. CASE CSigpipe \/ CFails \/ CDies
    <3>1. fds'["C"] = {} /\ cpc' = "gone" /\ cpc # "none"
      BY <1>0, <1>p, <1>f, <2>3 DEF CSigpipe, CFails, CDies, CloseAll, Descriptors
    <3> QED  BY <1>0, <2>1, <3>1 DEF Descriptors, Keeps
  <2> QED  BY <1>6, <2>2, <2>3
<1>7. CASE BReadA \/ BReadC \/ BPrint
  <2>1. /\ apc' = apc /\ cpc' = cpc /\ fds' = fds /\ doomed' = doomed
        /\ bpc \notin {"none", "forked", "gone"} /\ bpc' \notin {"none", "forked", "gone"}
    BY <1>7 DEF BReadA, BReadC, BPrint, a, c
  <2> QED  BY <1>0, <2>1 DEF Descriptors, Keeps
<1>8. CASE CReadLength \/ CReadString \/ CShow \/ CSendLength \/ CAck
  <2>1. /\ apc' = apc /\ bpc' = bpc /\ fds' = fds /\ doomed' = doomed
        /\ cpc \notin {"none", "forked", "gone"} /\ cpc' \notin {"none", "forked", "gone"}
    BY <1>8 DEF CReadLength, CReadString, CShow, CSendLength, CAck, a, b
  <2> QED  BY <1>0, <2>1 DEF Descriptors, Keeps
<1>9. CASE UNCHANGED vars
  BY <1>0, <1>9 DEF vars, a, b, c, Descriptors, Keeps
<1> QED
  BY <1>1, <1>2, <1>3, <1>4, <1>5, <1>6, <1>7, <1>8, <1>9 DEF Next, ANext, BNext, CNext

\* What CShow shows: the line's message without its length and its 0.
LEMMA ShownLine ==
  ASSUME input \in Seq(Lines), NEW n \in 1 .. Len(input), str \in Seq(Nat),
         len = Len(input[n]), Len(str) = len + 1, \A k \in 1 .. Len(str) : str[k] = Unit(n, k)
  PROVE  SubSeq(str, 1, len) = input[n]
<1>1. input[n] \in Seq(Nat) /\ len \in Nat /\ \A k \in 1 .. len : Unit(n, k) = input[n][k]
  BY LineLemma
<1>2. SubSeq(str, 1, len) \in Seq(Nat) /\ Len(SubSeq(str, 1, len)) = len
      /\ \A k \in 1 .. len : SubSeq(str, 1, len)[k] = str[k]
  BY <1>1
<1>3. \A k \in 1 .. len : k \in 1 .. Len(str)
  BY <1>1
<1>4. \A k \in 1 .. Len(SubSeq(str, 1, len)) : SubSeq(str, 1, len)[k] = input[n][k]
  BY <1>1, <1>2, <1>3
<1> QED  BY <1>1, <1>2, <1>4, SameElements

\* The line under way.
LEMMA UnderWayStep == ASSUME IInv, [Next]_vars PROVE UnderWay'
<1>0. TypeOK /\ UnderWay /\ Acknowledged
  BY DEF IInv
<1>p. "AB" \in Pipes /\ "AC" \in Pipes /\ "CA" \in Pipes /\ "CB" \in Pipes /\ 0 \in Nat
  BY DEF Pipes
<1>t. /\ next \in Nat /\ next =< Len(input) /\ Len(input) \in Nat /\ sent \in Nat
      /\ pipe["AC"] \in Seq(Nat) /\ Len(pipe["AC"]) \in Nat
      /\ shown \in Seq(Seq(Nat)) /\ Len(shown) \in Nat /\ str \in Seq(Nat)
      /\ Len(str) \in Nat /\ len \in Nat
  BY <1>0, <1>p DEF TypeOK
<1>n. next > 0 => /\ input[next] \in Seq(Nat) /\ Len(input[next]) \in Nat \ {0}
                  /\ Size(next) \in Nat /\ Size(next) = Len(input[next]) + 2
                  /\ Unit(next, 0) = Len(input[next])
                  /\ \A j \in Nat : Unit(next, j) \in Nat
                  /\ \A j \in 1 .. Len(input[next]) : Unit(next, j) = input[next][j]
  <2> SUFFICES ASSUME next > 0
               PROVE  /\ input[next] \in Seq(Nat) /\ Len(input[next]) \in Nat \ {0}
                      /\ Size(next) \in Nat /\ Size(next) = Len(input[next]) + 2
                      /\ Unit(next, 0) = Len(input[next])
                      /\ \A j \in Nat : Unit(next, j) \in Nat
                      /\ \A j \in 1 .. Len(input[next]) : Unit(next, j) = input[next][j]
    OBVIOUS
  <2>1. next \in 1 .. Len(input) /\ input \in Seq(Lines)
    BY <1>0, <1>t DEF TypeOK
  <2> QED  BY <2>1, LineLemma
<1>1. CASE /\ UNCHANGED <<input, next, sent, shown, len, str>> /\ pipe'["AC"] = pipe["AC"]
           /\ \/ cpc' = cpc
              \/ cpc' = "gone"
              \/ cpc = "none" /\ cpc' = "forked"
              \/ cpc = "forked" /\ cpc' = "len"
              \/ cpc = "len_b" /\ cpc' = "ack"
              \/ cpc = "ack" /\ cpc' = "len"
  <2>1. /\ Len(shown) = next => Len(shown) # next - 1
        /\ \A k \in Nat : Unit(next, k)' = Unit(next, k) /\ Size(next)' = Size(next)
    BY <1>1, <1>t DEF Unit, Size
  <2>2. Len(shown) = next - 1 /\ cpc' # "gone" => Got' = Got /\ cpc # "gone"
    BY <1>0, <1>1, <2>1 DEF UnderWay, Got
  <2>3. /\ Len(shown') \in {next' - 1, next'}
        /\ \A k \in 1 .. Len(shown') : shown'[k] = input'[k]
        /\ next' > 0 => sent' =< Size(next)'
        /\ Len(shown') = next' => pipe'["AC"] = <<>> /\ (next' > 0 => sent' = Size(next)')
    BY <1>0, <1>1, <2>1 DEF UnderWay
  <2>4. Len(shown') = next' - 1 /\ cpc' # "gone" =>
          /\ Len(pipe'["AC"]) = sent' - Got'
          /\ \A k \in 1 .. Len(pipe'["AC"]) : pipe'["AC"][k] = Unit(next, Got + k - 1)'
    BY <1>0, <1>1, <2>2 DEF UnderWay, Unit
  <2>5. cpc' \in {"str", "show"} =>
          /\ Len(shown') = next' - 1 /\ len' = Len(input'[next'])
          /\ \A k \in 1 .. Len(str') : str'[k] = Unit(next, k)'
          /\ Len(str') =< len' + 1 /\ (cpc' = "str" <=> Len(str') =< len')
    BY <1>0, <1>1 DEF UnderWay, Unit
  <2>6. cpc' \in {"len_b", "ack"} =>
          Len(shown') = next' /\ next' > 0 /\ len' = Len(input'[next'])
    BY <1>0, <1>1 DEF UnderWay
  <2> QED  BY <2>3, <2>4, <2>5, <2>6 DEF UnderWay
<1>2. CASE GetLine
  <2>1. /\ next' = next + 1 /\ sent' = 0 /\ input' = input /\ shown' = shown
        /\ pipe' = pipe /\ cpc' = cpc /\ len' = len /\ str' = str /\ next < Len(input)
    BY <1>2 DEF GetLine, c
  <2>2. Len(shown) = next /\ pipe["AC"] = <<>> /\ cpc \notin {"len_b", "ack", "str", "show"}
    BY <1>0, <1>2, <1>t DEF GetLine, Acknowledged, UnderWay
  <2>3. Size(next)' \in Nat
    <3>1. Size(next + 1) \in Nat
      <4>1. next + 1 \in 1 .. Len(input) /\ input \in Seq(Lines)
        BY <1>0, <1>t, <2>1 DEF TypeOK
      <4> QED  BY <4>1, LineLemma
    <3> QED  BY <2>1, <3>1 DEF Size
  <2>4. Got' = 0
    BY <2>1, <2>2 DEF Got
  <2> QED  BY <1>0, <1>t, <2>1, <2>2, <2>3, <2>4 DEF UnderWay
<1>3. CASE SendLine
  <2>1. /\ next > 0 /\ sent < Size(next) /\ sent' = sent + 1
        /\ UNCHANGED <<input, next, shown, cpc, len, str>>
    BY <1>0, <1>3 DEF SendLine, Acknowledged, c
  <2>2. Len(shown) = next - 1
    BY <1>0, <1>n, <1>t, <2>1 DEF UnderWay
  <2>3. Unit(next, sent) \in Nat /\ pipe'["AC"] = Append(pipe["AC"], Unit(next, sent))
    BY <1>0, <1>p, <1>t, <1>n, <1>3, <2>1, PipeStep DEF SendLine
  <2>4. /\ Len(pipe'["AC"]) = Len(pipe["AC"]) + 1
        /\ \A k \in 1 .. Len(pipe["AC"]) : pipe'["AC"][k] = pipe["AC"][k]
        /\ pipe'["AC"][Len(pipe["AC"]) + 1] = Unit(next, sent)
    BY <1>t, <2>3, AppendLemma
  <2>5. Got' = Got /\ Got \in Nat /\ Size(next)' = Size(next)
        /\ \A k \in Nat : Unit(next, k)' = Unit(next, k)
    BY <1>n, <1>t, <2>1 DEF Got, Size, Unit
  <2>6. ASSUME cpc # "gone"
        PROVE  /\ Len(pipe'["AC"]) = sent' - Got
               /\ \A k \in 1 .. Len(pipe'["AC"]) : pipe'["AC"][k] = Unit(next, Got + k - 1)
    <3>1. /\ Len(pipe["AC"]) = sent - Got
          /\ \A k \in 1 .. Len(pipe["AC"]) : pipe["AC"][k] = Unit(next, Got + k - 1)
      BY <1>0, <2>2, <2>6 DEF UnderWay
    <3>2. Got + (Len(pipe["AC"]) + 1) - 1 = sent
      BY <1>t, <2>5, <3>1
    <3>3. ASSUME NEW k \in 1 .. Len(pipe'["AC"])
          PROVE  pipe'["AC"][k] = Unit(next, Got + k - 1)
      <4>1. CASE k \in 1 .. Len(pipe["AC"])  BY <2>4, <3>1, <4>1
      <4>2. CASE k = Len(pipe["AC"]) + 1  BY <2>4, <3>2, <4>2
      <4> QED  BY <1>t, <2>4, <4>1, <4>2
    <3> QED  BY <1>t, <2>1, <2>4, <2>5, <3>1, <3>3
  <2>7. Len(shown') = next' - 1 /\ cpc' # "gone" =>
          /\ Len(pipe'["AC"]) = sent' - Got'
          /\ \A k \in 1 .. Len(pipe'["AC"]) : pipe'["AC"][k] = Unit(next, Got + k - 1)'
    <3>1. \A k \in Int : Unit(next, Got + k - 1)' = Unit(next, Got + k - 1)
      BY <2>1, <2>5 DEF Unit
    <3> QED  BY <1>t, <2>1, <2>4, <2>5, <2>6, <3>1
  <2>8. /\ next' > 0 => sent' =< Size(next)'
        /\ Len(shown') # next'
    BY <1>n, <1>t, <2>1, <2>2, <2>5
  <2>9. cpc' \in {"str", "show"} =>
          /\ Len(shown') = next' - 1 /\ len' = Len(input'[next'])
          /\ \A k \in 1 .. Len(str') : str'[k] = Unit(next, k)'
          /\ Len(str') =< len' + 1 /\ (cpc' = "str" <=> Len(str') =< len')
    BY <1>0, <1>t, <2>1, <2>5 DEF UnderWay
  <2> QED  BY <1>0, <1>t, <2>1, <2>2, <2>7, <2>8, <2>9 DEF UnderWay
\* C takes the next number of the line: it is the length, a character or the 0.
<1>r. ASSUME Read("AC"), cpc \in {"len", "str"}
      PROVE  /\ Len(shown) = next - 1 /\ next > 0 /\ Head(pipe["AC"]) = Unit(next, Got)
             /\ pipe'["AC"] \in Seq(Nat) /\ Len(pipe'["AC"]) = sent - (Got + 1)
             /\ \A k \in 1 .. Len(pipe'["AC"]) : pipe'["AC"][k] = Unit(next, (Got + 1) + k - 1)
  <2>1. pipe["AC"] # <<>> /\ pipe'["AC"] = Tail(pipe["AC"])
    BY <1>0, <1>p, <1>r, PipeStep
  <2>2. Len(shown) = next - 1 /\ next > 0
    BY <1>0, <1>t, <2>1 DEF UnderWay
  <2>3. /\ Len(pipe["AC"]) = sent - Got /\ Got \in Nat
        /\ \A k \in 1 .. Len(pipe["AC"]) : pipe["AC"][k] = Unit(next, Got + k - 1)
    BY <1>0, <1>t, <1>r, <2>2 DEF UnderWay, Got
  <2>4. /\ pipe'["AC"] \in Seq(Nat) /\ Len(pipe["AC"]) > 0
        /\ Len(pipe'["AC"]) = Len(pipe["AC"]) - 1 /\ Head(pipe["AC"]) = pipe["AC"][1]
        /\ \A k \in 1 .. Len(pipe["AC"]) - 1 : pipe'["AC"][k] = pipe["AC"][k + 1]
    BY <1>t, <2>1, TailLemma
  <2>5. ASSUME NEW k \in 1 .. Len(pipe'["AC"])
        PROVE  pipe'["AC"][k] = Unit(next, (Got + 1) + k - 1)
    <3>1. k + 1 \in 1 .. Len(pipe["AC"]) /\ Got + (k + 1) - 1 = (Got + 1) + k - 1
      BY <1>t, <2>3, <2>4
    <3> QED  BY <1>t, <2>3, <2>4, <3>1
  <2>6. Head(pipe["AC"]) = Unit(next, Got)
    <3>1. Got + 1 - 1 = Got /\ 1 \in 1 .. Len(pipe["AC"])
      BY <1>t, <2>3, <2>4
    <3> QED  BY <2>3, <2>4, <3>1
  <2>7. Len(pipe'["AC"]) = sent - (Got + 1)
    BY <1>t, <2>3, <2>4
  <2> QED  BY <2>2, <2>4, <2>5, <2>6, <2>7
\* While C reads a line, this is what UnderWay asks for.
<1>u. ASSUME next > 0, Len(shown) = next - 1, UNCHANGED <<input, next, sent, shown>>,
             cpc' \in {"str", "show"}, sent' =< Size(next)', len' = Len(input[next]),
             Len(pipe'["AC"]) = sent' - Got',
             \A k \in 1 .. Len(pipe'["AC"]) : pipe'["AC"][k] = Unit(next, Got + k - 1)',
             \A k \in 1 .. Len(str') : str'[k] = Unit(next, k)',
             Len(str') =< len' + 1, cpc' = "str" <=> Len(str') =< len'
      PROVE  UnderWay'
  <2>1. /\ Len(shown') = next' - 1 /\ Len(shown') # next'
        /\ \A k \in 1 .. Len(shown') : shown'[k] = input'[k]
    BY <1>0, <1>t, <1>u DEF UnderWay
  <2> QED  BY <1>u, <2>1 DEF UnderWay
<1>4. CASE CReadLength
  <2>1. /\ cpc = "len" /\ Read("AC") /\ len' = Head(pipe["AC"]) /\ str' = <<>> /\ cpc' = "str"
        /\ UNCHANGED <<input, next, sent, shown>>
    BY <1>4 DEF CReadLength, a
  <2>2. Got = 0 /\ Got' = 1
    BY <2>1 DEF Got
  <2>3. len' = Len(input[next]) /\ next > 0 /\ Len(shown) = next - 1
    BY <1>n, <1>r, <2>1, <2>2
  <2>4. \A k \in Int : Unit(next, k)' = Unit(next, k)
    BY <2>1 DEF Unit
  <2>5. /\ Len(pipe'["AC"]) = sent' - Got'
        /\ \A k \in 1 .. Len(pipe'["AC"]) : pipe'["AC"][k] = Unit(next, Got + k - 1)'
    <3>1. /\ pipe'["AC"] \in Seq(Nat) /\ Len(pipe'["AC"]) = sent - (Got + 1)
          /\ \A k \in 1 .. Len(pipe'["AC"]) : pipe'["AC"][k] = Unit(next, (Got + 1) + k - 1)
      BY <1>r, <2>1
    <3>2. \A k \in Int : Unit(next, Got + k - 1)' = Unit(next, (Got + 1) + k - 1)
      BY <2>1, <2>2 DEF Unit
    <3>3. Len(pipe'["AC"]) = sent' - Got'
      BY <1>t, <2>1, <2>2, <3>1
    <3>4. \A k \in 1 .. Len(pipe'["AC"]) : k \in Int
      OBVIOUS
    <3> QED  BY <3>1, <3>2, <3>3, <3>4
  <2>6. Size(next)' = Size(next) /\ Len(shown') # next'
    BY <1>t, <2>1, <2>3 DEF Size
  <2>7. /\ Len(str') = 0 /\ len' \in Nat /\ sent' =< Size(next)'
        /\ \A k \in 1 .. Len(str') : str'[k] = Unit(next, k)'
    <3>1. len' \in Nat
      BY <1>n, <2>3
    <3>2. Len(<<>>) = 0 /\ \A k \in 1 .. 0 : FALSE
      OBVIOUS
    <3>3. sent =< Size(next)
      BY <1>0, <2>3 DEF UnderWay
    <3> QED  BY <2>1, <2>6, <3>1, <3>2, <3>3
  <2> QED  BY <1>0, <1>t, <2>1, <2>3, <2>5, <2>6, <2>7, <1>u
<1>5. CASE CReadString
  <2>1. /\ cpc = "str" /\ Read("AC") /\ str' = Append(str, Head(pipe["AC"]))
        /\ cpc' = IF Len(str') = len + 1 THEN "show" ELSE "str"
        /\ UNCHANGED <<input, next, sent, shown, len>>
    BY <1>5 DEF CReadString, a
  <2>2. /\ Got = Len(str) + 1 /\ len = Len(input[next]) /\ Len(str) =< len
        /\ \A k \in 1 .. Len(str) : str[k] = Unit(next, k)
    BY <1>0, <2>1 DEF UnderWay, Got
  <2>3. Head(pipe["AC"]) = Unit(next, Got) /\ next > 0 /\ Len(shown) = next - 1
    BY <1>r, <2>1
  <2>4. /\ Len(str') = Len(str) + 1 /\ str'[Len(str) + 1] = Unit(next, Got)
        /\ \A k \in 1 .. Len(str) : str'[k] = str[k]
    BY <1>n, <1>t, <2>1, <2>2, <2>3, AppendLemma
  <2>5. \A k \in 1 .. Len(str') : str'[k] = Unit(next, k)
    <3> SUFFICES ASSUME NEW k \in 1 .. Len(str') PROVE str'[k] = Unit(next, k)
      OBVIOUS
    <3>1. CASE k \in 1 .. Len(str)  BY <2>2, <2>4, <3>1
    <3>2. CASE k = Len(str) + 1  BY <2>2, <2>4, <3>2
    <3> QED  BY <1>t, <2>4, <3>1, <3>2
  <2>6. Got' = Got + 1
    <3>1. Size(next)' = len + 2 /\ Got' = IF cpc' = "str" THEN Len(str') + 1 ELSE Size(next)'
      BY <2>1, <2>2 DEF Got, Size
    <3> QED  BY <1>t, <2>1, <2>2, <2>4, <3>1
  <2>7. \A k \in Int : Unit(next, k)' = Unit(next, k)
    BY <2>1 DEF Unit
  <2>8. /\ Len(pipe'["AC"]) = sent' - Got'
        /\ \A k \in 1 .. Len(pipe'["AC"]) : pipe'["AC"][k] = Unit(next, Got + k - 1)'
    <3>1. /\ Len(pipe'["AC"]) = sent - (Got + 1)
          /\ \A k \in 1 .. Len(pipe'["AC"]) : pipe'["AC"][k] = Unit(next, (Got + 1) + k - 1)
      BY <1>r, <2>1
    <3>2. \A k \in Int : Unit(next, Got + k - 1)' = Unit(next, (Got + 1) + k - 1)
      BY <2>1, <2>6 DEF Unit
    <3>3. Len(pipe'["AC"]) = sent' - Got' /\ \A k \in 1 .. Len(pipe'["AC"]) : k \in Int
      BY <2>1, <2>6, <3>1
    <3> QED  BY <3>1, <3>2, <3>3
  <2>9. Size(next)' = Size(next) /\ Len(shown') # next' /\ cpc' \in {"str", "show"}
    BY <1>t, <2>1, <2>3 DEF Size
  <2>10. /\ Len(str') =< len' + 1 /\ (cpc' = "str" <=> Len(str') =< len')
         /\ sent' =< Size(next)'
    <3>1. Len(str') \in Nat /\ Len(str') =< len + 1 /\ len' = len
      BY <1>t, <2>1, <2>2, <2>4
    <3>2. cpc' = "str" <=> Len(str') # len + 1
      BY <2>1
    <3>3. sent =< Size(next)
      BY <1>0, <2>3 DEF UnderWay
    <3>4. sent' =< Size(next)'
      BY <2>1, <2>9, <3>3
    <3>5. Len(str') # len + 1 <=> Len(str') =< len
      BY <1>t, <3>1
    <3> QED  BY <3>1, <3>2, <3>4, <3>5
  <2>11. \A k \in 1 .. Len(str') : str'[k] = Unit(next, k)'
    BY <2>5, <2>7
  <2> QED  BY <1>0, <1>t, <2>1, <2>2, <2>3, <2>8, <2>9, <2>10, <2>11, <1>u
<1>6. CASE CShow
  <2>1. /\ cpc = "show" /\ cpc' = "len_b" /\ shown' = Append(shown, SubSeq(str, 1, len))
        /\ UNCHANGED <<input, next, sent, len, str, pipe>>
    BY <1>6 DEF CShow, a
  <2>2. /\ Len(shown) = next - 1 /\ next > 0 /\ len = Len(input[next]) /\ Len(str) = len + 1
        /\ \A k \in 1 .. Len(str) : str[k] = Unit(next, k)
    BY <1>0, <1>t, <2>1 DEF UnderWay
  <2>3. SubSeq(str, 1, len) = input[next]
    <3>1. next \in 1 .. Len(input) /\ input \in Seq(Lines)
      BY <1>0, <1>t, <2>2 DEF TypeOK
    <3> QED  BY <1>t, <2>2, <3>1, ShownLine
  <2>4. /\ Len(shown') = next /\ shown'[next] = input[next]
        /\ \A k \in 1 .. next - 1 : shown'[k] = shown[k]
    <3>1. input[next] \in Seq(Nat)
      BY <1>n, <2>2
    <3>2. /\ Len(shown') = Len(shown) + 1 /\ shown'[Len(shown) + 1] = input[next]
          /\ \A k \in 1 .. Len(shown) : shown'[k] = shown[k]
      <4>1. shown' = Append(shown, input[next])
        BY <2>1, <2>3
      <4>2. shown \in Seq(Seq(Nat))
        BY <1>t
      <4> QED  BY <3>1, <4>1, <4>2, AppendLemma
    <3> QED  BY <1>t, <2>2, <3>2
  <2>5. \A k \in 1 .. next : shown'[k] = input[k]
    <3> SUFFICES ASSUME NEW k \in 1 .. next PROVE shown'[k] = input[k]
      OBVIOUS
    <3>1. CASE k \in 1 .. next - 1
      BY <1>0, <2>2, <2>4, <3>1 DEF UnderWay
    <3>2. CASE k = next
      BY <2>4, <3>2
    <3> QED  BY <1>t, <3>1, <3>2
  <2>6. pipe["AC"] = <<>> /\ sent = Size(next)
    <3>1. Len(pipe["AC"]) = sent - Size(next) /\ sent =< Size(next)
      BY <1>0, <2>1, <2>2 DEF UnderWay, Got
    <3>2. Len(pipe["AC"]) = 0 /\ sent = Size(next)
      BY <1>n, <1>t, <2>2, <3>1
    <3> QED  BY <1>t, <3>2
  <2>7. Size(next)' = Size(next)
    BY <2>1 DEF Size
  <2> QED  BY <1>t, <2>1, <2>2, <2>4, <2>5, <2>6, <2>7 DEF UnderWay
\* The other steps leave the line under way alone.
<1>7. CASE BReadA \/ BReadC \/ SendLength \/ AwaitAck \/ CSendLength \/ CAck
  <2>1. pipe'["AC"] = pipe["AC"]
    <3>1. len \in Nat /\ (SendLength => Len(input[next]) \in Nat)
      BY <1>0, <1>n, <1>t DEF SendLength, Acknowledged
    <3>2. \/ Read("AB") \/ Read("CB") \/ Read("CA") \/ Write("CB", len) \/ Write("CA", 0)
          \/ SendLength /\ Write("AB", Len(input[next]))
      BY <1>7 DEF BReadA, BReadC, SendLength, AwaitAck, CSendLength, CAck
    <3>3. "AC" \in Pipes \ {"AB"} /\ "AC" \in Pipes \ {"CB"} /\ "AC" \in Pipes \ {"CA"}
      BY <1>p
    <3> QED  BY <1>0, <1>p, <3>1, <3>2, <3>3, PipeStep
  <2> QED
    BY <1>1, <1>7, <2>1 DEF BReadA, BReadC, SendLength, AwaitAck, CSendLength, CAck, a, b, c
<1>8. CASE \/ ForkB \/ ForkC \/ ForkFails \/ GetNoLine \/ KillC \/ KillB \/ AKilled
           \/ ASigpipe
           \/ BInit \/ BPrint \/ BFails \/ BDies \/ CInit \/ CSigpipe \/ CFails \/ CDies
           \/ UNCHANGED vars
  <2>1. UNCHANGED <<input, next, sent, shown, len, str>> /\ pipe' = pipe
    BY <1>8 DEF ForkB, ForkC, ForkFails, GetNoLine, KillC, KillB, AKilled, ASigpipe,
                Terminate, BInit,
                BPrint, BFails, BDies, CInit, CSigpipe, CFails, CDies, vars, a, b, c
  <2>2. \/ cpc' = cpc \/ cpc' = "gone" \/ (cpc = "none" /\ cpc' = "forked")
        \/ cpc = "forked" /\ cpc' = "len"
    <3>1. ForkC => cpc = "none"
      BY DEF ForkC, IInv, Descriptors
    <3> QED
      BY <1>8, <3>1 DEF ForkB, ForkC, ForkFails, GetNoLine, KillC, KillB, AKilled, ASigpipe,
                        Terminate,
                        BInit, BPrint, BFails, BDies, CInit, CSigpipe, CFails, CDies, vars,
                        a, b, c
  <2> QED  BY <1>1, <2>1, <2>2
<1> QED
  BY <1>2, <1>3, <1>4, <1>5, <1>6, <1>7, <1>8 DEF Next, ANext, BNext, CNext

\* Who waits for the acknowledgement, and where it is.
LEMMA AcknowledgedStep == ASSUME IInv, [Next]_vars PROVE Acknowledged'
<1>0. TypeOK /\ UnderWay /\ Acknowledged /\ Descriptors
  BY DEF IInv
<1>p. "AB" \in Pipes /\ "AC" \in Pipes /\ "CA" \in Pipes /\ "CB" \in Pipes /\ 0 \in Nat
  BY DEF Pipes
<1>t. /\ next \in Nat /\ next =< Len(input) /\ sent \in Nat
      /\ pipe["CA"] \in Seq(Nat) /\ Len(pipe["CA"]) \in Nat
      /\ shown \in Seq(Seq(Nat)) /\ Len(shown) \in Nat /\ str \in Seq(Nat) /\ len \in Nat
  BY <1>0, <1>p DEF TypeOK
<1>1. CASE GetLine
  <2>1. /\ apc = "read" /\ apc' = "send" /\ next' = next + 1 /\ sent' = 0
        /\ UNCHANGED <<input, cpc, shown, pipe>> /\ next < Len(input)
    BY <1>1 DEF GetLine, c
  <2>2. pipe["CA"] = <<>> /\ cpc \notin {"len_b", "ack"}
    BY <1>0, <2>1 DEF Acknowledged
  <2>3. next' > 0 /\ sent' < Size(next)'
    <3>1. next' \in 1 .. Len(input) /\ input \in Seq(Lines)
      BY <1>0, <1>t, <2>1 DEF TypeOK
    <3>2. Len(input[next']) \in Nat
      BY <3>1, LineLemma
    <3> QED  BY <1>t, <2>1, <3>2 DEF Size
  <2> QED  BY <2>1, <2>2, <2>3 DEF Acknowledged
<1>2. CASE SendLine
  <2>1. /\ apc = "send" /\ sent < Size(next) /\ sent' = sent + 1 /\ next' = next
        /\ apc' = IF sent' = Size(next) THEN "len_b" ELSE "send"
        /\ UNCHANGED <<input, cpc, shown>>
    BY <1>2 DEF SendLine, c
  <2>2. next \in 1 .. Len(input) /\ pipe["CA"] = <<>>
    BY <1>0, <1>t, <2>1 DEF Acknowledged
  <2>3. Unit(next, sent) \in Nat /\ Size(next) \in Nat /\ Size(next)' = Size(next)
    <3>1. input \in Seq(Lines)
      BY <1>0 DEF TypeOK
    <3>2. Unit(next, sent) \in Nat /\ Size(next) \in Nat
      BY <1>t, <2>2, <3>1, LineLemma
    <3> QED  BY <2>1, <3>2 DEF Size
  <2>4. pipe'["CA"] = pipe["CA"]
    <3>1. Write("AC", Unit(next, sent)) /\ "CA" \in Pipes \ {"AC"}
      BY <1>p, <1>2 DEF SendLine
    <3> QED  BY <1>0, <1>p, <2>3, <3>1, PipeStep
  <2>5. CASE sent' = Size(next)
    BY <1>t, <2>1, <2>2, <2>3, <2>4, <2>5 DEF Acknowledged
  <2>6. CASE sent' # Size(next)
    <3>1. sent' < Size(next)'
      BY <1>t, <2>1, <2>3, <2>6
    <3> QED  BY <1>t, <2>1, <2>2, <2>4, <2>6, <3>1 DEF Acknowledged
  <2> QED  BY <2>5, <2>6
<1>3. CASE AwaitAck
  <2>1. /\ apc = "ack" /\ apc' = "read" /\ Read("CA")
        /\ UNCHANGED <<input, next, sent, cpc, shown>>
    BY <1>3 DEF AwaitAck, c
  <2>2. pipe["CA"] # <<>> /\ pipe'["CA"] = Tail(pipe["CA"])
    BY <1>0, <1>p, <2>1, PipeStep
  <2>3. Len(pipe["CA"]) = 1 /\ Len(shown) = next /\ cpc \in {"len", "gone"}
    BY <1>0, <2>2 DEF Acknowledged
  <2>4. pipe'["CA"] = <<>>
    <3>1. pipe'["CA"] \in Seq(Nat) /\ Len(pipe'["CA"]) = 0
      BY <1>t, <2>2, <2>3, TailLemma
    <3> QED  BY <3>1
  <2> QED  BY <2>1, <2>3, <2>4 DEF Acknowledged
<1>4. CASE CAck
  <2>1. /\ cpc = "ack" /\ cpc' = "len" /\ Write("CA", 0)
        /\ UNCHANGED <<input, next, sent, apc, shown>>
    BY <1>4 DEF CAck, a
  <2>2. Len(shown) = next /\ next > 0 /\ sent = Size(next)
    BY <1>0, <2>1 DEF UnderWay
  <2>3. pipe["CA"] = <<>>
    BY <1>0, <2>1 DEF Acknowledged
  <2>4. apc \in {"len_b", "ack", "killed"}
    <3>1. apc # "send"
      BY <1>0, <1>t, <2>2 DEF Acknowledged
    <3>2. apc \notin {"fork_b", "fork_c", "read", "kill_c", "kill_b", "exit"}
      BY <1>0, <2>1 DEF Acknowledged
    <3> QED  BY <1>0, <3>1, <3>2 DEF TypeOK
  <2>5. Len(pipe'["CA"]) = 1
    <3>1. pipe'["CA"] = Append(pipe["CA"], 0)
      BY <1>0, <1>p, <2>1, PipeStep
    <3>2. Len(pipe["CA"]) = 0
      BY <2>3
    <3> QED  BY <1>t, <1>p, <3>1, <3>2, AppendLemma
  <2>6. Size(next)' = Size(next)
    BY <2>1 DEF Size
  <2> QED  BY <2>1, <2>2, <2>4, <2>5, <2>6 DEF Acknowledged
<1>5. CASE CShow
  <2>1. /\ cpc = "show" /\ cpc' = "len_b" /\ shown' = Append(shown, SubSeq(str, 1, len))
        /\ UNCHANGED <<input, next, sent, apc, pipe>>
    BY <1>5 DEF CShow, a
  <2>2. Len(shown) = next - 1 /\ pipe["CA"] = <<>>
    BY <1>0, <2>1 DEF UnderWay, Acknowledged
  <2>3. apc \notin {"fork_b", "fork_c", "read", "kill_c", "kill_b", "exit"}
    BY <1>0, <1>t, <2>2 DEF Acknowledged
  <2>4. Size(next)' = Size(next)
    BY <2>1 DEF Size
  <2> QED  BY <1>0, <2>1, <2>2, <2>3, <2>4 DEF Acknowledged
<1>6. CASE CReadLength \/ CReadString
  <2>1. /\ Read("AC") /\ cpc' \in {"str", "show"}
        /\ UNCHANGED <<input, next, sent, apc, shown>>
    BY <1>6 DEF CReadLength, CReadString, a
  <2>2. pipe["AC"] # <<>> /\ pipe'["CA"] = pipe["CA"]
    <3>1. "CA" \in Pipes \ {"AC"}
      BY <1>p
    <3> QED  BY <1>0, <1>p, <2>1, <3>1, PipeStep
  <2>3. Len(shown) # next
    BY <1>0, <2>2 DEF UnderWay
  <2>4. Size(next)' = Size(next)
    BY <2>1 DEF Size
  <2> QED  BY <1>0, <2>1, <2>2, <2>3, <2>4 DEF Acknowledged
\* Where neither the acknowledgement nor the line is touched.
<1>f. ASSUME UNCHANGED <<input, next, sent, shown>>, pipe'["CA"] = pipe["CA"],
             \/ cpc' = cpc \/ cpc' = "gone" \/ (cpc = "none" /\ cpc' = "forked")
             \/ (cpc = "forked" /\ cpc' = "len") \/ (cpc = "len_b" /\ cpc' = "ack"),
             \/ apc' = apc \/ apc' = "killed" \/ (apc = "len_b" /\ apc' = "ack")
             \/ /\ apc \in {"fork_b", "fork_c"}
                /\ apc' \in {"fork_c", "read", "exit"}
             \/ apc = "read" /\ apc' = "kill_c" /\ (next = Len(input) \/ MayFail)
             \/ apc = "kill_c" /\ apc' = "kill_b"
             \/ apc = "kill_b" /\ apc' = "exit"
      PROVE  Acknowledged'
  <2>1. Size(next)' = Size(next)
    BY <1>f DEF Size
  <2>2. /\ pipe["CA"] # <<>> => apc \in {"len_b", "ack", "killed"} /\ cpc \in {"len", "gone"}
        /\ cpc' \in {"len_b", "ack"} => cpc \in {"len_b", "ack"}
    BY <1>0, <1>f DEF Acknowledged
  <2> QED  BY <1>0, <1>f, <2>1, <2>2 DEF Acknowledged
<1>7. CASE BReadA \/ BReadC \/ SendLength \/ CSendLength
  <2>1. pipe'["CA"] = pipe["CA"]
    <3>1. SendLength => Len(input[next]) \in Nat
      <4>1. SendLength => next \in 1 .. Len(input) /\ input \in Seq(Lines)
        BY <1>0, <1>t DEF SendLength, Acknowledged, TypeOK
      <4> QED  BY <4>1, LineLemma
    <3>2. \/ Read("AB") \/ Read("CB") \/ Write("CB", len)
          \/ SendLength /\ Write("AB", Len(input[next]))
      BY <1>7 DEF BReadA, BReadC, SendLength, CSendLength
    <3>3. "CA" \in Pipes \ {"AB"} /\ "CA" \in Pipes \ {"CB"}
      BY <1>p
    <3> QED  BY <1>0, <1>p, <1>t, <3>1, <3>2, <3>3, PipeStep
  <2> QED  BY <1>7, <1>f, <2>1 DEF BReadA, BReadC, SendLength, CSendLength, a, c
<1>8. CASE \/ ForkB \/ ForkC \/ ForkFails \/ GetNoLine \/ KillC \/ KillB \/ AKilled
           \/ ASigpipe
           \/ BInit \/ BPrint \/ BFails \/ BDies \/ CInit \/ CSigpipe \/ CFails \/ CDies
           \/ UNCHANGED vars
  <2>1. ForkC => cpc = "none"
    BY <1>0 DEF ForkC, Descriptors
  <2>2. UNCHANGED <<input, next, sent, shown>> /\ pipe' = pipe
    BY <1>8 DEF ForkB, ForkC, ForkFails, GetNoLine, KillC, KillB, AKilled, ASigpipe,
                Terminate, BInit,
                BPrint, BFails, BDies, CInit, CSigpipe, CFails, CDies, vars, a, b, c
  <2> QED
    BY <1>8, <1>f, <2>1, <2>2 DEF ForkB, ForkC, ForkFails, GetNoLine, KillC, KillB, AKilled,
                                  ASigpipe,
       Terminate, BInit, BPrint, BFails, BDies, CInit, CSigpipe, CFails, CDies, vars, a, b, c
<1> QED
  BY <1>1, <1>2, <1>3, <1>4, <1>5, <1>6, <1>7, <1>8 DEF Next, ANext, BNext, CNext

\* The types of what B's pipes hold and of what B has read and printed.
LEMMA CountTypes ==
  ASSUME TypeOK
  PROVE  /\ pipe["AB"] \in Seq(Nat) /\ Len(pipe["AB"]) \in Nat
         /\ pipe["CB"] \in Seq(Nat) /\ Len(pipe["CB"]) \in Nat
         /\ report \in Seq(Nat \X Nat) /\ Len(report) \in Nat
         /\ held \in Seq(Nat \X Nat) /\ Len(held) \in Nat
         /\ Printed \in Nat /\ ReadOfA \in Nat /\ ReadOfC \in Nat
         /\ next \in Nat /\ next =< Len(input) /\ shown \in Seq(Seq(Nat))
         /\ Len(shown) \in Nat /\ len \in Nat
<1>1. /\ pipe["AB"] \in Seq(Nat) /\ pipe["CB"] \in Seq(Nat)
      /\ report \in Seq(Nat \X Nat) /\ held \in Seq(Nat \X Nat)
  BY DEF TypeOK, Pipes
<1>2. Len(report) \in Nat /\ Len(held) \in Nat
  BY <1>1
<1> QED  BY <1>1, <1>2 DEF TypeOK, Printed, ReadOfA, ReadOfC

\* A line's length, once A has read the line.
LEMMA SentLength == ASSUME TypeOK, next > 0 PROVE Len(input[next]) \in Nat
<1>1. next \in 1 .. Len(input) /\ input \in Seq(Lines)
  BY DEF TypeOK
<1> QED  BY <1>1, LineLemma

\* What the steps of A and C do to B's pipes, and B's printing to its counts.
LEMMA PipesOfB ==
  ASSUME IInv
  PROVE  /\ SendLine \/ AwaitAck \/ CReadLength \/ CReadString \/ CAck =>
              pipe'["AB"] = pipe["AB"] /\ pipe'["CB"] = pipe["CB"]
         /\ SendLength => /\ next > 0 /\ pipe'["AB"] = Append(pipe["AB"], Len(input[next]))
                         /\ Len(pipe'["AB"]) = Len(pipe["AB"]) + 1
                         /\ pipe'["CB"] = pipe["CB"]
         /\ CSendLength => /\ pipe'["CB"] = Append(pipe["CB"], len)
                          /\ Len(pipe'["CB"]) = Len(pipe["CB"]) + 1
                          /\ pipe'["AB"] = pipe["AB"]
         /\ Read("AB") => /\ pipe["AB"] # <<>> /\ pipe'["AB"] = Tail(pipe["AB"])
                         /\ Len(pipe'["AB"]) = Len(pipe["AB"]) - 1
                         /\ pipe'["CB"] = pipe["CB"]
         /\ Read("CB") => /\ pipe["CB"] # <<>> /\ pipe'["CB"] = Tail(pipe["CB"])
                         /\ Len(pipe'["CB"]) = Len(pipe["CB"]) - 1
                         /\ pipe'["AB"] = pipe["AB"]
<1>0. TypeOK /\ Acknowledged
  BY DEF IInv
<1>p. /\ "AB" \in Pipes /\ "AC" \in Pipes /\ "CA" \in Pipes /\ "CB" \in Pipes /\ 0 \in Nat
      /\ \A p \in {"AC", "CA", "CB"} : "AB" \in Pipes \ {p}
      /\ \A p \in {"AC", "CA", "AB"} : "CB" \in Pipes \ {p}
  BY DEF Pipes
<1>t. pipe["AB"] \in Seq(Nat) /\ pipe["CB"] \in Seq(Nat) /\ len \in Nat
  BY <1>0, CountTypes
<1>1. ASSUME SendLine \/ AwaitAck \/ CReadLength \/ CReadString \/ CAck
      PROVE  pipe'["AB"] = pipe["AB"] /\ pipe'["CB"] = pipe["CB"]
  <2>1. CASE SendLine
    <3>1. next \in 1 .. Len(input) /\ sent \in Nat /\ input \in Seq(Lines)
      BY <1>0, <2>1 DEF SendLine, Acknowledged, TypeOK
    <3>2. Unit(next, sent) \in Nat
      BY <3>1, LineLemma
    <3>3. Write("AC", Unit(next, sent))
      BY <2>1 DEF SendLine
    <3> QED  BY <1>0, <1>p, <3>2, <3>3, PipeStep
  <2>2. CASE AwaitAck \/ CReadLength \/ CReadString \/ CAck
    <3>1. Read("CA") \/ Read("AC") \/ Write("CA", 0)
      BY <2>2 DEF AwaitAck, CReadLength, CReadString, CAck
    <3> QED  BY <1>0, <1>p, <3>1, PipeStep
  <2> QED  BY <1>1, <2>1, <2>2
<1>2. ASSUME SendLength
      PROVE  /\ next > 0 /\ pipe'["AB"] = Append(pipe["AB"], Len(input[next]))
             /\ Len(pipe'["AB"]) = Len(pipe["AB"]) + 1
             /\ pipe'["CB"] = pipe["CB"]
  <2>1. next > 0 /\ Write("AB", Len(input[next]))
    BY <1>0, <1>2 DEF SendLength, Acknowledged
  <2>2. Len(input[next]) \in Nat
    BY <1>0, <2>1, SentLength
  <2>3. pipe'["AB"] = Append(pipe["AB"], Len(input[next])) /\ pipe'["CB"] = pipe["CB"]
    BY <1>0, <1>p, <2>1, <2>2, PipeStep
  <2>4. Len(pipe'["AB"]) = Len(pipe["AB"]) + 1
    BY <1>t, <2>2, <2>3, AppendLemma
  <2> QED  BY <2>1, <2>3, <2>4
<1>3. ASSUME CSendLength
      PROVE  /\ pipe'["CB"] = Append(pipe["CB"], len)
             /\ Len(pipe'["CB"]) = Len(pipe["CB"]) + 1
             /\ pipe'["AB"] = pipe["AB"]
  <2>1. pipe'["CB"] = Append(pipe["CB"], len) /\ pipe'["AB"] = pipe["AB"]
    BY <1>0, <1>p, <1>t, <1>3, PipeStep DEF CSendLength
  <2>2. Len(pipe'["CB"]) = Len(pipe["CB"]) + 1
    BY <1>t, <2>1, AppendLemma
  <2> QED  BY <2>1, <2>2
<1>4. ASSUME Read("AB")
      PROVE  /\ pipe["AB"] # <<>> /\ pipe'["AB"] = Tail(pipe["AB"])
             /\ Len(pipe'["AB"]) = Len(pipe["AB"]) - 1 /\ pipe'["CB"] = pipe["CB"]
  <2>1. pipe["AB"] # <<>> /\ pipe'["AB"] = Tail(pipe["AB"]) /\ pipe'["CB"] = pipe["CB"]
    BY <1>0, <1>p, <1>4, PipeStep
  <2>2. Len(pipe'["AB"]) = Len(pipe["AB"]) - 1
    BY <1>t, <2>1, TailLemma
  <2> QED  BY <2>1, <2>2
<1>5. ASSUME Read("CB")
      PROVE  /\ pipe["CB"] # <<>> /\ pipe'["CB"] = Tail(pipe["CB"])
             /\ Len(pipe'["CB"]) = Len(pipe["CB"]) - 1 /\ pipe'["AB"] = pipe["AB"]
  <2>1. pipe["CB"] # <<>> /\ pipe'["CB"] = Tail(pipe["CB"]) /\ pipe'["AB"] = pipe["AB"]
    BY <1>0, <1>p, <1>5, PipeStep
  <2>2. Len(pipe'["CB"]) = Len(pipe["CB"]) - 1
    BY <1>t, <2>1, TailLemma
  <2> QED  BY <2>1, <2>2
<1> QED  BY <1>1, <1>2, <1>3, <1>4, <1>5

\* Printing a pair moves it from what B knows to what B holds or has written.
LEMMA PrintStep ==
  ASSUME IInv, BPrint
  PROVE  /\ bpc = "print" /\ bpc' = "len_a"
         /\ Printed' = Printed + 1 /\ ReadOfA' = ReadOfA /\ ReadOfC' = ReadOfC
         /\ \/ /\ report' = report
               /\ held' = Append(held, <<len_a, len_c>>)
            \/ /\ report' = report \o Append(held, <<len_a, len_c>>)
               /\ held' = <<>>
<1>0. TypeOK
  BY DEF IInv
<1> DEFINE out == Append(held, <<len_a, len_c>>)
<1>1. held \in Seq(Nat \X Nat) /\ report \in Seq(Nat \X Nat) /\ <<len_a, len_c>> \in Nat \X Nat
  BY <1>0 DEF TypeOK
<1>2. out \in Seq(Nat \X Nat) /\ Len(held) \in Nat /\ Len(out) = Len(held) + 1
  BY <1>1, AppendLemma
<1>3. /\ bpc = "print" /\ bpc' = "len_a"
      /\ \/ report' = report /\ held' = out
         \/ report' = report \o out /\ held' = <<>>
  BY DEF BPrint
<1>4. Len(report) \in Nat /\ Len(report \o out) = Len(report) + Len(held) + 1
  <2> HIDE DEF out
  <2>1. Len(report) \in Nat /\ Len(report \o out) = Len(report) + Len(out)
    <3>1. report \in Seq(Nat \X Nat) /\ out \in Seq(Nat \X Nat)
      BY <1>1, <1>2
    <3> QED  BY <3>1, ConcatLemma
  <2> QED  BY <1>2, <2>1
<1>5. Printed' = Printed + 1
  <2> HIDE DEF out
  <2>1. CASE report' = report /\ held' = out
    BY <1>2, <1>4, <2>1 DEF Printed
  <2>2. CASE report' = report \o out /\ held' = <<>>
    <3>1. Len(held') = 0
      BY <2>2
    <3> QED  BY <1>2, <1>4, <2>2, <3>1 DEF Printed
  <2> QED  BY <1>3, <2>1, <2>2
<1>6. Printed \in Nat
  BY <1>0, CountTypes
<1> QED  BY <1>3, <1>5, <1>6 DEF ReadOfA, ReadOfC

\* B's pipes are in step with the lines A has sent and C has shown.
LEMMA CountsStep == ASSUME IInv, [Next]_vars PROVE Counts'
<1>0. TypeOK /\ UnderWay /\ Acknowledged /\ Counts
  BY DEF IInv
<1>t. /\ Len(pipe["AB"]) \in Nat /\ Len(pipe["CB"]) \in Nat
      /\ Printed \in Nat /\ ReadOfA \in Nat /\ ReadOfC \in Nat
      /\ next \in Nat /\ Len(shown) \in Nat
  BY <1>0, CountTypes
<1>a. UNCHANGED b => Printed' = Printed /\ ReadOfA' = ReadOfA /\ ReadOfC' = ReadOfC
  BY DEF b, Printed, ReadOfA, ReadOfC
<1>1. CASE GetLine
  <2>1. /\ apc = "read" /\ apc' = "send" /\ next' = next + 1
        /\ UNCHANGED <<b, c, pipe>>
    BY <1>1 DEF GetLine
  <2>2. bpc # "gone" => ReadOfA + Len(pipe["AB"]) = next
    BY <1>0, <2>1 DEF Counts
  <2> QED  BY <1>0, <1>t, <1>a, <2>1, <2>2 DEF Counts, b, c
<1>2. CASE SendLine \/ AwaitAck \/ CReadLength \/ CReadString \/ CAck
  <2>1. /\ pipe'["AB"] = pipe["AB"] /\ pipe'["CB"] = pipe["CB"]
    BY <1>2, PipesOfB
  <2>2. /\ UNCHANGED <<next, shown, b>>
        /\ \/ apc' = apc
           \/ (apc = "send" /\ apc' \in {"send", "len_b"}) \/ (apc = "ack" /\ apc' = "read")
        /\ \/ cpc' = cpc
           \/ cpc \notin {"len_b", "gone"} /\ cpc' \notin {"len_b", "gone"}
    BY <1>2 DEF SendLine, AwaitAck, CReadLength, CReadString, CAck, a, c
  <2> QED  BY <1>0, <1>t, <1>a, <2>1, <2>2 DEF Counts, b
<1>3. CASE SendLength
  <2>1. /\ apc = "len_b" /\ apc' = "ack" /\ UNCHANGED <<next, b, c>>
    BY <1>3 DEF SendLength
  <2>2. Len(pipe'["AB"]) = Len(pipe["AB"]) + 1 /\ pipe'["CB"] = pipe["CB"]
    BY <1>3, PipesOfB
  <2>3. bpc # "gone" => ReadOfA' + Len(pipe'["AB"]) = next'
    BY <1>0, <1>t, <1>a, <2>1, <2>2 DEF Counts
  <2> QED  BY <1>0, <1>t, <1>a, <2>1, <2>2, <2>3 DEF Counts, b, c
<1>4. CASE CSendLength
  <2>1. /\ cpc = "len_b" /\ cpc' = "ack" /\ UNCHANGED <<a, b, shown>>
    BY <1>4 DEF CSendLength
  <2>2. Len(pipe'["CB"]) = Len(pipe["CB"]) + 1 /\ pipe'["AB"] = pipe["AB"]
    BY <1>4, PipesOfB
  <2>3. bpc # "gone" => ReadOfC' + Len(pipe'["CB"]) = Len(shown')
    BY <1>0, <1>t, <1>a, <2>1, <2>2 DEF Counts
  <2> QED  BY <1>0, <1>t, <1>a, <2>1, <2>2, <2>3 DEF Counts, a, b
<1>5. CASE CShow
  <2>1. /\ cpc = "show" /\ cpc' = "len_b" /\ UNCHANGED <<a, b, pipe>>
    BY <1>5 DEF CShow
  <2>2. Len(shown') = Len(shown) + 1
    <3>1. shown' = Append(shown, SubSeq(str, 1, len)) /\ SubSeq(str, 1, len) \in Seq(Nat)
      BY <1>0, <1>5, ShowsText
    <3>2. shown \in Seq(Seq(Nat))
      BY <1>0 DEF TypeOK
    <3> QED  BY <3>1, <3>2, AppendLemma
  <2>3. bpc # "gone" => ReadOfC + Len(pipe["CB"]) = Len(shown)
    BY <1>0, <2>1 DEF Counts
  <2> QED  BY <1>0, <1>t, <1>a, <2>1, <2>2, <2>3 DEF Counts, a, b
<1>6. CASE BReadA
  <2>1. /\ bpc = "len_a" /\ bpc' = "len_c" /\ Read("AB") /\ UNCHANGED <<a, c, held, report>>
    BY <1>6 DEF BReadA
  <2>2. Len(pipe'["AB"]) = Len(pipe["AB"]) - 1 /\ pipe'["CB"] = pipe["CB"]
    BY <2>1, PipesOfB
  <2>3. Printed' = Printed /\ ReadOfA' = ReadOfA + 1 /\ ReadOfC' = ReadOfC
    BY <1>t, <2>1 DEF Printed, ReadOfA, ReadOfC
  <2>4. ReadOfA' + Len(pipe'["AB"]) = ReadOfA + Len(pipe["AB"])
    <3>1. \A i, j \in Nat : (i + 1) + (j - 1) = i + j
      OBVIOUS
    <3>2. (ReadOfA + 1) + (Len(pipe["AB"]) - 1) = ReadOfA + Len(pipe["AB"])
      BY <1>t, <3>1
    <3> QED  BY <2>2, <2>3, <3>2
  <2> QED  BY <1>0, <2>1, <2>2, <2>3, <2>4 DEF Counts, a, c
<1>7. CASE BReadC
  <2>1. /\ bpc = "len_c" /\ bpc' = "print" /\ Read("CB") /\ UNCHANGED <<a, c, held, report>>
    BY <1>7 DEF BReadC
  <2>2. Len(pipe'["CB"]) = Len(pipe["CB"]) - 1 /\ pipe'["AB"] = pipe["AB"]
    BY <2>1, PipesOfB
  <2>3. Printed' = Printed /\ ReadOfA' = ReadOfA /\ ReadOfC' = ReadOfC + 1
    BY <1>t, <2>1 DEF Printed, ReadOfA, ReadOfC
  <2>4. ReadOfC' + Len(pipe'["CB"]) = ReadOfC + Len(pipe["CB"])
    <3>1. \A i, j \in Nat : (i + 1) + (j - 1) = i + j
      OBVIOUS
    <3>2. (ReadOfC + 1) + (Len(pipe["CB"]) - 1) = ReadOfC + Len(pipe["CB"])
      BY <1>t, <3>1
    <3> QED  BY <2>2, <2>3, <3>2
  <2> QED  BY <1>0, <2>1, <2>2, <2>3, <2>4 DEF Counts, a, c
<1>8. CASE BPrint
  <2>1. /\ ReadOfA' = ReadOfA /\ ReadOfC' = ReadOfC /\ bpc # "gone"
    BY <1>8, PrintStep
  <2> QED  BY <1>0, <1>8, <2>1 DEF Counts, BPrint, a, c
<1>9. CASE BFails \/ BDies
  BY <1>9 DEF BFails, BDies, Counts
<1>10. CASE BInit
  <2>1. Printed' = Printed /\ ReadOfA' = ReadOfA /\ ReadOfC' = ReadOfC
    BY <1>10 DEF BInit, Printed, ReadOfA, ReadOfC
  <2> QED  BY <1>0, <1>10, <2>1 DEF Counts, BInit, a, c
<1>11. CASE ForkB
  <2>1. bpc = "none"
    BY <1>11 DEF ForkB, IInv, Descriptors
  <2>2. Printed' = Printed /\ ReadOfA' = ReadOfA /\ ReadOfC' = ReadOfC
    BY <1>11, <2>1 DEF ForkB, Printed, ReadOfA, ReadOfC
  <2> QED  BY <1>0, <1>11, <2>1, <2>2 DEF Counts, ForkB, c
<1>12. CASE \/ ForkC \/ ForkFails \/ GetNoLine \/ KillC \/ KillB \/ AKilled \/ ASigpipe
            \/ CInit \/ CSigpipe \/ CFails \/ CDies \/ UNCHANGED vars
  <2>1. ForkC => cpc = "none"
    BY DEF ForkC, IInv, Descriptors
  <2>2. /\ UNCHANGED <<b, next, shown, pipe>>
        /\ \/ apc' = apc
           \/ /\ apc \notin {"send", "len_b", "killed"}
              /\ apc' \notin {"send", "len_b", "killed"}
           \/ apc' = "killed"
        /\ cpc' = cpc \/ cpc' = "gone" \/ (cpc \in {"none", "forked"} /\ cpc' \in {"forked", "len"})
    BY <1>12, <2>1 DEF ForkC, ForkFails, GetNoLine, KillC, KillB, AKilled, ASigpipe,
                       Terminate, CInit,
                       CSigpipe, CFails, CDies, vars, a, b, c
  <2> QED  BY <1>0, <1>t, <1>a, <2>2 DEF Counts, b
<1> QED
  BY <1>1, <1>2, <1>3, <1>4, <1>5, <1>6, <1>7, <1>8, <1>9, <1>10, <1>11, <1>12
  DEF Next, ANext, BNext, CNext

\* What is in B's pipes, what B has read and what it has printed are lengths of the right lines.
LEMMA LengthsStep == ASSUME IInv, [Next]_vars PROVE Lengths'
<1>0. TypeOK /\ UnderWay /\ Acknowledged /\ Counts /\ Lengths
  BY DEF IInv
<1>t. /\ pipe["AB"] \in Seq(Nat) /\ Len(pipe["AB"]) \in Nat
      /\ pipe["CB"] \in Seq(Nat) /\ Len(pipe["CB"]) \in Nat
      /\ report \in Seq(Nat \X Nat) /\ Len(report) \in Nat
      /\ held \in Seq(Nat \X Nat) /\ Len(held) \in Nat
      /\ Printed \in Nat /\ ReadOfA \in Nat /\ ReadOfC \in Nat
      /\ next \in Nat /\ Len(shown) \in Nat
  BY <1>0, CountTypes
<1>a. UNCHANGED b => Printed' = Printed /\ ReadOfA' = ReadOfA /\ ReadOfC' = ReadOfC
  BY DEF b, Printed, ReadOfA, ReadOfC
<1>1. CASE BReadA
  <2>1. /\ bpc = "len_a" /\ bpc' = "len_c" /\ Read("AB") /\ len_a' = Head(pipe["AB"])
        /\ UNCHANGED <<input, held, report, len_c>>
    BY <1>1 DEF BReadA, a
  <2>2. /\ pipe["AB"] # <<>> /\ pipe'["AB"] = Tail(pipe["AB"])
        /\ Len(pipe'["AB"]) = Len(pipe["AB"]) - 1 /\ pipe'["CB"] = pipe["CB"]
    BY <2>1, PipesOfB
  <2>3. /\ Printed' = Printed /\ ReadOfA' = ReadOfA + 1 /\ ReadOfC' = ReadOfC
        /\ ReadOfA = Printed
    BY <1>t, <2>1 DEF Printed, ReadOfA, ReadOfC
  <2>4. /\ Head(pipe["AB"]) = pipe["AB"][1] /\ Len(pipe["AB"]) > 0
        /\ \A k \in 1 .. Len(pipe["AB"]) - 1 : pipe'["AB"][k] = pipe["AB"][k + 1]
    BY <1>t, <2>2, TailLemma
  <2>5. \A k \in 1 .. Len(pipe["AB"]) : pipe["AB"][k] = Len(input[ReadOfA + k])
    BY <1>0, <2>1 DEF Lengths
  <2>6. len_a' = Len(input'[Printed' + 1])
    <3>1. 1 \in 1 .. Len(pipe["AB"])
      BY <1>t, <2>4
    <3> QED  BY <2>1, <2>3, <2>4, <2>5, <3>1
  <2>7. \A k \in 1 .. Len(pipe'["AB"]) : pipe'["AB"][k] = Len(input'[ReadOfA' + k])
    <3> SUFFICES ASSUME NEW k \in 1 .. Len(pipe["AB"]) - 1
                 PROVE  pipe'["AB"][k] = Len(input[(ReadOfA + 1) + k])
      BY <2>1, <2>2, <2>3
    <3>1. k + 1 \in 1 .. Len(pipe["AB"]) /\ ReadOfA + (k + 1) = (ReadOfA + 1) + k
      BY <1>t
    <3> QED  BY <2>4, <2>5, <3>1
  <2> QED  BY <1>0, <2>1, <2>2, <2>3, <2>6, <2>7 DEF Lengths, SameLine
<1>2. CASE BReadC
  <2>1. /\ bpc = "len_c" /\ bpc' = "print" /\ Read("CB") /\ len_c' = Head(pipe["CB"])
        /\ UNCHANGED <<input, held, report, len_a>>
    BY <1>2 DEF BReadC, a
  <2>2. /\ pipe["CB"] # <<>> /\ pipe'["CB"] = Tail(pipe["CB"])
        /\ Len(pipe'["CB"]) = Len(pipe["CB"]) - 1 /\ pipe'["AB"] = pipe["AB"]
    BY <2>1, PipesOfB
  <2>3. /\ Printed' = Printed /\ ReadOfC' = ReadOfC + 1 /\ ReadOfA' = ReadOfA
        /\ ReadOfC = Printed
    BY <1>t, <2>1 DEF Printed, ReadOfA, ReadOfC
  <2>4. /\ Head(pipe["CB"]) = pipe["CB"][1] /\ Len(pipe["CB"]) > 0
        /\ \A k \in 1 .. Len(pipe["CB"]) - 1 : pipe'["CB"][k] = pipe["CB"][k + 1]
    BY <1>t, <2>2, TailLemma
  <2>5. \A k \in 1 .. Len(pipe["CB"]) : pipe["CB"][k] = Len(input[ReadOfC + k])
    BY <1>0, <2>1 DEF Lengths
  <2>6. len_c' = Len(input'[Printed' + 1])
    <3>1. 1 \in 1 .. Len(pipe["CB"])
      BY <1>t, <2>4
    <3> QED  BY <2>1, <2>3, <2>4, <2>5, <3>1
  <2>7. \A k \in 1 .. Len(pipe'["CB"]) : pipe'["CB"][k] = Len(input'[ReadOfC' + k])
    <3> SUFFICES ASSUME NEW k \in 1 .. Len(pipe["CB"]) - 1
                 PROVE  pipe'["CB"][k] = Len(input[(ReadOfC + 1) + k])
      BY <2>1, <2>2, <2>3
    <3>1. k + 1 \in 1 .. Len(pipe["CB"]) /\ ReadOfC + (k + 1) = (ReadOfC + 1) + k
      BY <1>t
    <3> QED  BY <2>4, <2>5, <3>1
  <2> QED  BY <1>0, <2>1, <2>2, <2>3, <2>6, <2>7 DEF Lengths, SameLine
<1>3. CASE SendLength
  <2>1. /\ apc = "len_b" /\ next > 0 /\ UNCHANGED <<input, b>>
    BY <1>0, <1>3 DEF SendLength, Acknowledged
  <2>2. pipe'["AB"] = Append(pipe["AB"], Len(input[next])) /\ pipe'["CB"] = pipe["CB"]
    BY <1>3, <2>1, PipesOfB
  <2>3. Len(input[next]) \in Nat
    BY <1>0, <2>1, SentLength
  <2>4. /\ Len(pipe'["AB"]) = Len(pipe["AB"]) + 1
        /\ \A k \in 1 .. Len(pipe["AB"]) : pipe'["AB"][k] = pipe["AB"][k]
        /\ pipe'["AB"][Len(pipe["AB"]) + 1] = Len(input[next])
    BY <1>t, <2>2, <2>3, AppendLemma
  <2>5. ASSUME bpc # "gone"
        PROVE  \A k \in 1 .. Len(pipe'["AB"]) : pipe'["AB"][k] = Len(input[ReadOfA + k])
    <3>1. ReadOfA + (Len(pipe["AB"]) + 1) = next
      BY <1>0, <1>t, <2>1, <2>5 DEF Counts
    <3> SUFFICES ASSUME NEW k \in 1 .. Len(pipe["AB"]) + 1
                 PROVE  pipe'["AB"][k] = Len(input[ReadOfA + k])
      BY <2>4
    <3>2. CASE k \in 1 .. Len(pipe["AB"])
      BY <1>0, <2>4, <2>5, <3>2 DEF Lengths
    <3>3. CASE k = Len(pipe["AB"]) + 1
      <4>1. ReadOfA + k = next
        BY <3>1, <3>3
      <4>2. pipe'["AB"][k] = Len(input[next])
        BY <2>4, <3>3
      <4> QED  BY <4>1, <4>2
    <3>4. \A n \in Nat : \A m \in 1 .. (n + 1) : m \in 1 .. n \/ m = n + 1
      OBVIOUS
    <3>5. k \in 1 .. Len(pipe["AB"]) \/ k = Len(pipe["AB"]) + 1
      BY <1>t, <3>4
    <3> QED  BY <3>2, <3>3, <3>5
  <2> QED  BY <1>0, <1>a, <2>1, <2>2, <2>5 DEF Lengths, SameLine, b
<1>4. CASE CSendLength
  <2>1. /\ cpc = "len_b" /\ next > 0 /\ UNCHANGED <<input, b>>
        /\ len = Len(input[next]) /\ Len(shown) = next
    BY <1>0, <1>4 DEF CSendLength, UnderWay, a
  <2>2. pipe'["CB"] = Append(pipe["CB"], Len(input[next])) /\ pipe'["AB"] = pipe["AB"]
    BY <1>4, <2>1, PipesOfB
  <2>3. Len(input[next]) \in Nat
    BY <1>0, <2>1, SentLength
  <2>4. /\ Len(pipe'["CB"]) = Len(pipe["CB"]) + 1
        /\ \A k \in 1 .. Len(pipe["CB"]) : pipe'["CB"][k] = pipe["CB"][k]
        /\ pipe'["CB"][Len(pipe["CB"]) + 1] = Len(input[next])
    BY <1>t, <2>2, <2>3, AppendLemma
  <2>5. ASSUME bpc # "gone"
        PROVE  \A k \in 1 .. Len(pipe'["CB"]) : pipe'["CB"][k] = Len(input[ReadOfC + k])
    <3>1. ReadOfC + (Len(pipe["CB"]) + 1) = next
      BY <1>0, <1>t, <2>1, <2>5 DEF Counts
    <3> SUFFICES ASSUME NEW k \in 1 .. Len(pipe["CB"]) + 1
                 PROVE  pipe'["CB"][k] = Len(input[ReadOfC + k])
      BY <2>4
    <3>2. CASE k \in 1 .. Len(pipe["CB"])
      BY <1>0, <2>4, <2>5, <3>2 DEF Lengths
    <3>3. CASE k = Len(pipe["CB"]) + 1
      <4>1. ReadOfC + k = next
        BY <3>1, <3>3
      <4>2. pipe'["CB"][k] = Len(input[next])
        BY <2>4, <3>3
      <4> QED  BY <4>1, <4>2
    <3>4. \A n \in Nat : \A m \in 1 .. (n + 1) : m \in 1 .. n \/ m = n + 1
      OBVIOUS
    <3>5. k \in 1 .. Len(pipe["CB"]) \/ k = Len(pipe["CB"]) + 1
      BY <1>t, <3>4
    <3> QED  BY <3>2, <3>3, <3>5
  <2> QED  BY <1>0, <1>a, <2>1, <2>2, <2>5 DEF Lengths, SameLine, b
<1>5. CASE BPrint
  <2> DEFINE out == Append(held, <<len_a, len_c>>)
  <2>1. /\ bpc = "print" /\ bpc' = "len_a" /\ ReadOfA' = ReadOfA /\ ReadOfC' = ReadOfC
        /\ \/ report' = report /\ held' = out
           \/ report' = report \o out /\ held' = <<>>
    BY <1>5, PrintStep
  <2>2. input' = input /\ pipe' = pipe
    BY <1>5 DEF BPrint, a
  <2>3. /\ out \in Seq(Nat \X Nat) /\ Len(out) = Len(held) + 1
        /\ \A k \in 1 .. Len(held) : out[k] = held[k]
        /\ out[Len(held) + 1] = <<len_a, len_c>>
    <3>1. <<len_a, len_c>> \in Nat \X Nat
      BY <1>0 DEF TypeOK
    <3> QED  BY <1>t, <3>1, AppendLemma
  <2>4. SameLine(<<len_a, len_c>>, Printed + 1)
    BY <1>0, <2>1 DEF Lengths, SameLine
  <2> HIDE DEF out
  <2>5. \A k \in 1 .. Len(out) : SameLine(out[k], Len(report) + k)
    <3> SUFFICES ASSUME NEW k \in 1 .. Len(held) + 1
                 PROVE  SameLine(out[k], Len(report) + k)
      BY <2>3
    <3>1. CASE k \in 1 .. Len(held)
      <4>1. SameLine(held[k], Len(report) + k)
        BY <1>0, <2>1, <3>1 DEF Lengths
      <4> QED  BY <2>3, <3>1, <4>1
    <3>2. CASE k = Len(held) + 1
      <4>1. Len(report) + k = Printed + 1
        BY <1>t, <3>2 DEF Printed
      <4> QED  BY <2>3, <2>4, <3>2, <4>1
    <3> QED  BY <1>t, <3>1, <3>2
  <2>6. \A p, k : SameLine(p, k)' = SameLine(p, k)
    BY <2>2 DEF SameLine
  <2>7. /\ \A k \in 1 .. Len(report') : SameLine(report'[k], k)
        /\ \A k \in 1 .. Len(held') : SameLine(held'[k], Len(report') + k)
    <3>1. CASE report' = report /\ held' = out
      BY <1>0, <2>5, <3>1 DEF Lengths
    <3>2. CASE report' = report \o out /\ held' = <<>>
      <4>1. /\ Len(report') = Len(report) + Len(out) /\ Len(out) \in Nat
            /\ \A k \in 1 .. Len(report) : report'[k] = report[k]
            /\ \A k \in 1 .. Len(out) : report'[Len(report) + k] = out[k]
        <5>1. report \in Seq(Nat \X Nat) /\ out \in Seq(Nat \X Nat)
          BY <1>t, <2>3
        <5>2. /\ Len(report \o out) = Len(report) + Len(out) /\ Len(out) \in Nat
              /\ \A k \in 1 .. Len(report) : (report \o out)[k] = report[k]
              /\ \A k \in 1 .. Len(out) : (report \o out)[Len(report) + k] = out[k]
          BY <5>1, ConcatLemma
        <5> QED  BY <3>2, <5>2
      <4>2. ASSUME NEW k \in 1 .. Len(report') PROVE SameLine(report'[k], k)
        <5>1. CASE k \in 1 .. Len(report)
          BY <1>0, <4>1, <5>1 DEF Lengths
        <5>2. CASE k > Len(report)
          <6> DEFINE j == k - Len(report)
          <6>1. j \in 1 .. Len(out) /\ Len(report) + j = k
            BY <1>t, <4>1, <5>2
          <6> HIDE DEF j
          <6> QED  BY <2>5, <4>1, <6>1
        <5> QED  BY <1>t, <4>1, <5>1, <5>2
      <4>3. Len(held') = 0 /\ 1 .. 0 = {}
        BY <3>2
      <4> QED  BY <4>2, <4>3
    <3> QED  BY <2>1, <3>1, <3>2
  <2>8. SameLine(0, 0)' = SameLine(0, 0) /\ bpc # "gone"
    BY <2>1, <2>6
  <2> QED  BY <1>0, <2>1, <2>2, <2>7, <2>8 DEF Lengths, SameLine
\* The other steps leave B's pipes and what it has read alone.
<1>f. ASSUME UNCHANGED <<input, len_a, len_c, held, report>>,
             pipe'["AB"] = pipe["AB"], pipe'["CB"] = pipe["CB"],
             \/ bpc' = bpc \/ bpc' = "gone"
             \/ bpc \in {"none", "forked"} /\ bpc' \in {"forked", "len_a"}
      PROVE  Lengths'
  <2>1. CASE bpc' = "gone"
    BY <1>0, <1>f, <2>1 DEF Lengths, SameLine
  <2>2. CASE bpc' # "gone"
    <3>1. /\ Printed' = Printed /\ ReadOfA' = ReadOfA /\ ReadOfC' = ReadOfC /\ bpc # "gone"
          /\ (bpc' \in {"len_c", "print"} => bpc' = bpc)
      BY <1>f, <2>2 DEF Printed, ReadOfA, ReadOfC
    <3> QED  BY <1>0, <1>f, <2>2, <3>1 DEF Lengths, SameLine
  <2> QED  BY <2>1, <2>2
<1>6. CASE SendLine \/ AwaitAck \/ CReadLength \/ CReadString \/ CAck
  <2>1. pipe'["AB"] = pipe["AB"] /\ pipe'["CB"] = pipe["CB"]
    BY <1>6, PipesOfB
  <2> QED  BY <1>6, <1>f, <2>1 DEF SendLine, AwaitAck, CReadLength, CReadString, CAck, a, b
<1>7. CASE \/ ForkB \/ ForkC \/ ForkFails \/ GetLine \/ GetNoLine \/ KillC \/ KillB
           \/ AKilled \/ ASigpipe
           \/ BInit \/ BFails \/ BDies \/ CInit \/ CShow \/ CSigpipe \/ CFails \/ CDies
           \/ UNCHANGED vars
  <2>1. ForkB => bpc = "none"
    BY DEF ForkB, IInv, Descriptors
  <2>2. UNCHANGED <<input, len_a, len_c, held, report, pipe>>
    BY <1>7 DEF ForkB, ForkC, ForkFails, GetLine, GetNoLine, KillC, KillB, AKilled,
                ASigpipe, Terminate,
                BInit, BFails, BDies, CInit, CShow, CSigpipe, CFails, CDies, vars, a, b, c
  <2>3. \/ bpc' = bpc \/ bpc' = "gone"
        \/ bpc \in {"none", "forked"} /\ bpc' \in {"forked", "len_a"}
    BY <1>7, <2>1 DEF ForkB, ForkC, ForkFails, GetLine, GetNoLine, KillC, KillB, AKilled,
                      ASigpipe,
                      Terminate, BInit, BFails, BDies, CInit, CShow, CSigpipe, CFails,
                      CDies, vars, a, b, c
  <2> QED  BY <1>f, <2>2, <2>3
<1> QED
  BY <1>1, <1>2, <1>3, <1>4, <1>5, <1>6, <1>7 DEF Next, ANext, BNext, CNext

\* The invariant: TypeOK, and what each pipe holds at any moment.
THEOREM Invariance == Spec => []IInv
<1>1. ASSUME IInv, [Next]_vars PROVE IInv'
  BY <1>1, TypeStep, UnderWayStep, AcknowledgedStep, LengthsStep, CountsStep, DescriptorsStep
  DEF IInv
<1> QED  BY <1>1, InitHolds, PTL DEF Spec

\* StopAndWait: run of a.c has one line under way at a time, and what C has shown is a prefix
\* of the input, whatever the pipes' size.
THEOREM OneLineAtATime == Spec => []StopAndWait
<1>1. IInv => StopAndWait
  BY DEF IInv, UnderWay, Acknowledged, StopAndWait
<1> QED  BY <1>1, Invariance, PTL

\* PairsMatch: what B prints are two lengths of one line, one from A and one from C.
THEOREM LengthsOfOneLine == Spec => []PairsMatch
<1>1. IInv => PairsMatch
  BY DEF IInv, Lengths, SameLine, PairsMatch
<1> QED  BY <1>1, Invariance, PTL

\* Which ends of the four pipes are open for certain: a child keeps those that it inherited
\* and does not close, and A keeps its own until it ends.
LEMMA OpenEnds ==
  ASSUME IInv
  PROVE  /\ bpc \notin {"none", "gone"} =>
              /\ <<"CA", "w">> \in fds["B"] /\ <<"AC", "w">> \in fds["B"]
              /\ \A p \in Pipes : <<p, "r">> \in fds["B"]
         /\ cpc \notin {"none", "gone"} =>
              /\ <<"AB", "w">> \in fds["C"] /\ <<"CB", "w">> \in fds["C"]
              /\ <<"AC", "r">> \in fds["C"] /\ <<"CA", "w">> \in fds["C"]
         /\ apc \in {"read", "send", "len_b", "ack", "kill_c", "kill_b"} =>
              /\ <<"AB", "w">> \in fds["A"] /\ <<"AC", "w">> \in fds["A"]
              /\ <<"CA", "r">> \in fds["A"]
         /\ apc \in {"send", "len_b", "ack"} =>
              /\ bpc # "none" /\ cpc # "none"
              /\ "B" \notin doomed /\ "C" \notin doomed
<1>1. Descriptors
  BY DEF IInv
<1> QED  BY <1>1 DEF Descriptors, Keeps, Ends, Pipes

\* Where A is while C counts or acknowledges a line: the line has been sent.
LEMMA ShownLast ==
  ASSUME IInv, cpc \in {"len_b", "ack"}
  PROVE  apc \in {"len_b", "ack", "killed"}
<1>1. TypeOK /\ UnderWay /\ Acknowledged
  BY DEF IInv
<1>2. next \in Nat /\ next > 0 /\ Len(shown) = next
  BY <1>1 DEF TypeOK, UnderWay
<1>3. sent = Size(next)
  BY <1>1, <1>2 DEF UnderWay
<1>4. Size(next) \in Nat
  <2>1. Len(input[next]) \in Nat
    <3>1. next \in 1 .. Len(input) /\ input \in Seq(Lines)
      BY <1>1, <1>2 DEF TypeOK
    <3> QED  BY <3>1, LineLemma
  <2> QED  BY <2>1 DEF Size
<1>5. apc # "send"
  BY <1>1, <1>3, <1>4 DEF Acknowledged
<1>6. apc \notin {"fork_b", "fork_c", "read", "kill_c", "kill_b", "exit"}
  BY <1>1 DEF Acknowledged
<1> QED  BY <1>1, <1>5, <1>6 DEF TypeOK

\* EndlessReads: whose failures it takes for read_str of io.c to turn for ever, in each of its
\* four uses.
THEOREM ReadsEnd == Spec => []EndlessReads
<1>1. ASSUME IInv PROVE EndlessReads
  <2>0. Descriptors /\ TypeOK
    BY <1>1 DEF IInv
  <2>p. "A" \in Procs /\ "B" \in Procs /\ "C" \in Procs
    BY DEF Procs
  <2>1. ASSUME apc = "ack", AtEof("CA") PROVE BFailed /\ CFailed
    <3>1. <<"CA", "w">> \notin fds["B"] /\ <<"CA", "w">> \notin fds["C"]
      BY <2>p, <2>1 DEF AtEof
    <3> QED  BY <1>1, <2>1, <3>1, OpenEnds DEF BFailed, CFailed
  <2>2. ASSUME cpc \in {"len", "str"}, AtEof("AC"), "C" \notin doomed
        PROVE  apc = "killed" /\ BFailed
    <3>1. <<"AC", "w">> \notin fds["A"] /\ <<"AC", "w">> \notin fds["B"]
      BY <2>p, <2>2 DEF AtEof
    <3>2. bpc \in {"none", "gone"}
      BY <1>1, <3>1, OpenEnds
    <3>3. bpc # "none" /\ "B" \notin doomed
      BY <2>0, <2>2 DEF Descriptors
    <3>4. apc \in {"fork_b", "fork_c", "exit", "killed"}
      BY <1>1, <2>0, <3>1, OpenEnds DEF TypeOK
    <3>5. apc \notin {"fork_b", "fork_c"}
      BY <2>0, <2>2 DEF Descriptors
    <3>6. apc # "exit"
      BY <2>0, <2>2 DEF Descriptors
    <3> QED  BY <3>2, <3>3, <3>4, <3>5, <3>6 DEF BFailed
  <2>3. ASSUME AtEof("AB") \/ AtEof("CB") PROVE cpc \in {"none", "gone"}
    <3>1. <<"AB", "w">> \notin fds["C"] \/ <<"CB", "w">> \notin fds["C"]
      BY <2>p, <2>3 DEF AtEof
    <3> QED  BY <1>1, <3>1, OpenEnds
  <2> QED  BY <2>1, <2>2, <2>3 DEF EndlessReads
<1> QED  BY <1>1, Invariance, PTL

\* Why a write finds a reader, or whose failures it takes for SIGPIPE to come.
LEMMA WhoHears == ASSUME IInv PROVE UnheardWrites
<1>p. /\ "A" \in Procs /\ "B" \in Procs /\ "C" \in Procs
      /\ "AB" \in Pipes /\ "AC" \in Pipes /\ "CA" \in Pipes /\ "CB" \in Pipes
  BY DEF Procs, Pipes
<1>1. ASSUME NEW p \in Pipes, ~Heard(p),
             apc \in {"send", "len_b"} \/ cpc \in {"len_b", "ack"}
      PROVE  BFailed
  <2>1. bpc \in {"none", "gone"}
    <3>1. <<p, "r">> \notin fds["B"]
      BY <1>p, <1>1 DEF Heard
    <3> QED  BY <3>1, OpenEnds
  <2>2. CASE apc \in {"send", "len_b", "ack"}
    BY <2>1, <2>2, OpenEnds DEF BFailed
  <2>3. CASE apc = "killed" /\ cpc \in {"len_b", "ack"}
    BY <2>1, <2>3 DEF BFailed, IInv, Descriptors
  <2> QED  BY <1>1, <2>2, <2>3, ShownLast
<1>2. ASSUME apc = "send", ~Heard("AC") PROVE CFailed
  <2>1. <<"AC", "r">> \notin fds["C"]
    BY <1>p, <1>2 DEF Heard
  <2> QED  BY <1>2, <2>1, OpenEnds DEF CFailed
<1>3. ASSUME cpc = "ack", ~Heard("CA") PROVE apc = "killed"
  <2>1. <<"CA", "r">> \notin fds["A"]
    BY <1>p, <1>3 DEF Heard
  <2> QED  BY <1>3, <2>1, OpenEnds, ShownLast
<1> QED  BY <1>p, <1>1, <1>2, <1>3 DEF UnheardWrites

\* UnheardWrites: whose failures it takes for SIGPIPE to come, in each of the four writes of
\* a.c and c.c.
THEOREM WritesAreRead == Spec => []UnheardWrites
<1> QED  BY WhoHears, Invariance, PTL

-----------------------------------------------------------------------------------
\* A line's lengths, as LineRelay counts them.
LEMMA CountedLemma ==
  ASSUME TypeOK, NEW m \in Nat, NEW n \in 1 .. Len(input), m < n
  PROVE  /\ Relay!Lengths(m + 1, n) \in Seq(Nat \X Nat)
         /\ Len(Relay!Lengths(m + 1, n)) = n - m
         /\ \A k \in 1 .. n - m :
              Relay!Lengths(m + 1, n)[k] = <<Len(input[m + k]), Len(input[m + k])>>
<1> DEFINE f == [k \in 1 .. n - m |-> <<Len(input[m + k]), Len(input[m + k])>>]
<1>1. Len(input) \in Nat /\ n - m \in Nat
  BY DEF TypeOK
<1>2. ASSUME NEW k \in 1 .. n - m
      PROVE  <<Len(input[m + k]), Len(input[m + k])>> \in Nat \X Nat
  <2>1. m + k \in 1 .. Len(input) /\ input \in Seq(Lines)
    BY <1>1 DEF TypeOK
  <2>2. Len(input[m + k]) \in Nat
    BY <2>1, LineLemma
  <2> QED  BY <2>2
<1>3. f \in Seq(Nat \X Nat) /\ Len(f) = n - m
  <2>1. f \in [1 .. n - m -> Nat \X Nat]
    BY <1>2
  <2> QED  BY <1>1, <2>1
<1>4. Relay!Lengths(m + 1, n) = f
  <2>1. n - (m + 1) + 1 = n - m
    BY <1>1
  <2>2. \A k \in 1 .. n - m : (m + 1) + k - 1 = m + k
    BY <1>1
  <2> QED  BY <2>1, <2>2 DEF Relay!Lengths
<1> QED  BY <1>3, <1>4

\* What B writes out are the lengths of lines that C has shown.
LEMMA CountStep ==
  ASSUME IInv, BPrint, report' # report
  PROVE  Relay!Count
<1>0. TypeOK /\ Lengths /\ Counts
  BY DEF IInv
<1> DEFINE out == Append(held, <<len_a, len_c>>)
           m   == Len(report)
           n   == Len(report) + Len(held) + 1
<1>1. bpc = "print" /\ report' = report \o out
  BY PrintStep
<1>2. /\ report \in Seq(Nat \X Nat) /\ held \in Seq(Nat \X Nat)
      /\ m \in Nat /\ Len(held) \in Nat /\ <<len_a, len_c>> \in Nat \X Nat
      /\ Len(shown) \in Nat /\ Len(pipe["CB"]) \in Nat /\ next \in Nat /\ next =< Len(input)
      /\ Len(input) \in Nat
  BY <1>0, CountTypes DEF TypeOK
<1>3. n =< Len(shown) /\ Len(shown) =< next
  <2>1. ReadOfC + Len(pipe["CB"]) \in {Len(shown) - 1, Len(shown)} /\ ReadOfC = n
    BY <1>0, <1>1, <1>2 DEF Counts, ReadOfC, Printed
  <2>2. Len(shown) \in {next - 1, next}
    BY DEF IInv, UnderWay
  <2>3. n \in Nat
    BY <1>2
  <2> HIDE DEF n
  <2>4. n + Len(pipe["CB"]) \in {Len(shown) - 1, Len(shown)}
    BY <2>1
  <2>5. n =< Len(shown)
    BY <1>2, <2>3, <2>4
  <2> QED  BY <1>2, <2>2, <2>5
<1>4. n \in m + 1 .. Len(shown) /\ n \in 1 .. Len(input) /\ m < n /\ n - m = Len(held) + 1
  BY <1>2, <1>3
<1>5. /\ out \in Seq(Nat \X Nat) /\ Len(out) = Len(held) + 1
      /\ \A k \in 1 .. Len(held) : out[k] = held[k]
      /\ out[Len(held) + 1] = <<len_a, len_c>>
  BY <1>2, AppendLemma
<1>6. /\ Relay!Lengths(m + 1, n) \in Seq(Nat \X Nat)
      /\ Len(Relay!Lengths(m + 1, n)) = n - m
      /\ \A k \in 1 .. n - m :
           Relay!Lengths(m + 1, n)[k] = <<Len(input[m + k]), Len(input[m + k])>>
  <2> HIDE DEF n, m
  <2> QED  BY <1>0, <1>2, <1>4, CountedLemma
<1>7. ASSUME NEW k \in 1 .. Len(held) + 1
      PROVE  out[k] = <<Len(input[m + k]), Len(input[m + k])>>
  <2> HIDE DEF out
  <2>1. CASE k \in 1 .. Len(held)
    <3>1. held[k] = <<Len(input[m + k]), Len(input[m + k])>>
      BY <1>0, <1>1, <2>1 DEF Lengths, SameLine
    <3> QED  BY <1>5, <2>1, <3>1
  <2>2. CASE k = Len(held) + 1
    <3>1. len_a = Len(input[Printed + 1]) /\ len_c = Len(input[Printed + 1])
      BY <1>0, <1>1 DEF Lengths
    <3>2. Printed + 1 = m + k
      BY <1>2, <2>2 DEF Printed
    <3> QED  BY <1>5, <2>2, <3>1, <3>2
  <2>3. k \in 1 .. Len(held) \/ k = Len(held) + 1
    BY <1>2
  <2> QED  BY <2>1, <2>2, <2>3
<1>8. out = Relay!Lengths(m + 1, n)
  <2> HIDE DEF out, n, m
  <2> DEFINE t == Relay!Lengths(m + 1, n)
  <2>1. \A k \in 1 .. Len(out) : out[k] = t[k]
    BY <1>4, <1>5, <1>6, <1>7
  <2>2. t \in Seq(Nat \X Nat) /\ Len(t) = Len(out)
    BY <1>4, <1>5, <1>6
  <2> HIDE DEF t
  <2>3. out = t
    BY <1>5, <2>1, <2>2, SameElements
  <2> QED  BY <2>3 DEF t
<1>9. UNCHANGED <<input, shown, apc>>
  BY DEF BPrint, a, c
<1> HIDE DEF out
<1> QED  BY <1>1, <1>4, <1>8, <1>9 DEF Relay!Count

\* A step of the program is a step of what it promises, or none.
LEMMA RelayStep ==
  ASSUME IInv, [Next]_vars
  PROVE  [Relay!Show \/ Relay!Count \/ Relay!End]_(Relay!rvars)
<1>0. TypeOK /\ UnderWay /\ Acknowledged
  BY DEF IInv
<1>t. next \in Nat /\ next =< Len(input) /\ Len(input) \in Nat /\ Len(shown) \in Nat
      /\ input \in Seq(Lines) /\ str \in Seq(Nat) /\ len \in Nat
  BY <1>0 DEF TypeOK
<1>1. CASE CShow
  <2>1. /\ cpc = "show" /\ shown' = Append(shown, SubSeq(str, 1, len))
        /\ UNCHANGED <<a, b>>
    BY <1>1 DEF CShow
  <2>2. /\ Len(shown) = next - 1 /\ len = Len(input[next]) /\ Len(str) = len + 1
        /\ \A k \in 1 .. Len(str) : str[k] = Unit(next, k)
    BY <1>0, <1>t, <2>1 DEF UnderWay
  <2>3. Len(shown) < Len(input) /\ next \in 1 .. Len(input)
    BY <1>t, <2>2
  <2>4. SubSeq(str, 1, len) = input[next]
    BY <1>t, <2>2, <2>3, ShownLine
  <2>5. Relay!Show
    <3>1. Len(shown) + 1 = next
      BY <1>t, <2>2
    <3> QED  BY <2>1, <2>3, <2>4, <3>1 DEF Relay!Show, a, b
  <2> QED  BY <2>5
<1>2. CASE BPrint
  <2>1. CASE report' = report
    BY <1>2, <2>1 DEF BPrint, Relay!rvars, a, c
  <2>2. CASE report' # report
    BY <1>2, <2>2, CountStep
  <2> QED  BY <2>1, <2>2
<1>3. CASE KillB \/ ForkFails \/ AKilled \/ ASigpipe
  <2>0. ASSUME ASigpipe PROVE MayFail
    <3>1. BFailed
      BY <2>0, WhoHears DEF ASigpipe, UnheardWrites
    <3> QED  BY <3>1 DEF BFailed, IInv, Descriptors
  <2>1. /\ apc \notin {"exit", "killed"} /\ apc' \in {"exit", "killed"}
        /\ apc = "kill_b" \/ (MayFail /\ UNCHANGED <<input, b, c>>)
    BY <1>3, <2>0 DEF KillB, ForkFails, AKilled, ASigpipe, Terminate
  <2>2. UNCHANGED <<input, shown, report>>
    BY <1>3 DEF KillB, ForkFails, AKilled, ASigpipe, Terminate, b, c
  <2>3. Len(shown) = Len(input) \/ MayFail
    BY <1>0, <2>1 DEF Acknowledged
  <2>4. Relay!End
    BY <2>1, <2>2, <2>3 DEF Relay!End
  <2> QED  BY <2>4
<1>4. CASE \/ ForkB \/ ForkC \/ GetLine \/ GetNoLine \/ SendLine \/ SendLength \/ AwaitAck
           \/ KillC \/ BInit \/ BReadA \/ BReadC \/ BFails \/ BDies \/ CInit \/ CReadLength
           \/ CReadString \/ CSendLength \/ CAck \/ CSigpipe \/ CFails \/ CDies
           \/ UNCHANGED vars
  <2>1. UNCHANGED <<input, shown, report>>
    BY <1>4 DEF ForkB, ForkC, GetLine, GetNoLine, SendLine, SendLength, AwaitAck, KillC,
       Terminate, BInit, BReadA, BReadC, BFails, BDies, CInit, CReadLength, CReadString,
       CSendLength,
       CAck, CSigpipe, CFails, CDies, vars, a, b, c
  <2>2. (apc' \in {"exit", "killed"}) = (apc \in {"exit", "killed"})
    BY <1>4 DEF ForkB, ForkC, GetLine, GetNoLine, SendLine, SendLength, AwaitAck, KillC,
       Terminate, BInit, BReadA, BReadC, BFails, BDies, CInit, CReadLength, CReadString,
       CSendLength,
       CAck, CSigpipe, CFails, CDies, vars, a, b, c
  <2> QED  BY <2>1, <2>2 DEF Relay!rvars
<1> QED  BY <1>1, <1>2, <1>3, <1>4 DEF Next, ANext, BNext, CNext

\* ImplementsRelay: A, B, C and their pipes keep the promise of LineRelay.
THEOREM RelayImplemented == Spec => ImplementsRelay
<1>1. Init => Relay!RelayInit
  BY DEF Init, Relay!RelayInit
<1>2. IInv /\ [Next]_vars => [Relay!Show \/ Relay!Count \/ Relay!End]_(Relay!rvars)
  BY RelayStep
<1> QED  BY <1>1, <1>2, Invariance, PTL DEF Spec, ImplementsRelay, Relay!RelaySpec
=================================================================================
