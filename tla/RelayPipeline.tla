------------------------------- MODULE RelayPipeline ------------------------------
(***********************************************************************************)
(* os_cp: A sends the lines of its input to C, which shows them, and the length of *)
(* each to B; C tells B the length it received and acknowledges the line to A; B   *)
(* prints the two lengths.  Four pipes whose ends are inherited by fork, and       *)
(* SIGTERM for B and C at the end of the input.                                    *)
(***********************************************************************************)
EXTENDS Integers, Sequences

CONSTANTS Inputs,     \* the inputs to consider: sequences of lines, each a sequence of
                      \* character codes (get_line keeps the newline: no line is empty)
          PipeSize,   \* how much a pipe takes before a write blocks
          StdioSize,  \* how many pairs of lengths B's stdout keeps back: 0 on a terminal
          MayFail     \* may fork, malloc or the output fail, may a process be killed

Chars == Nat \ {0}
Lines == Seq(Chars) \ {<<>>}

ASSUME RelayAssumption == /\ Inputs \subseteq Seq(Lines)
                          /\ PipeSize \in Nat \ {0} /\ StdioSize \in Nat
                          /\ MayFail \in BOOLEAN

(***********************************************************************************)
(* What is in a pipe is a sequence of numbers: an int, which is written and read   *)
(* in one piece, is one of them, and so is a character.  A reader takes a number   *)
(* for what it expects next: nothing in a pipe says what it is.                    *)
(***********************************************************************************)
VARIABLES
  input, next,              \* the lines, and how many of them A has read
  apc, sent,                \* where A is, and how much of the line's message C was sent
  bpc, len_a, len_c, held, report,   \* B: what stdout keeps back, and what is printed
  cpc, len, str, shown,     \* C: the line it is reading, and what it has shown
  pipe,                     \* what each pipe holds
  fds,                      \* the pipe ends each process has open
  doomed                    \* the processes a SIGTERM is on its way to

a    == <<input, next, apc, sent>>
b    == <<bpc, len_a, len_c, held, report>>
c    == <<cpc, len, str, shown>>
vars == <<a, b, c, pipe, fds, doomed>>

Procs == {"A", "B", "C"}
Pipes == {"AB", "AC", "CA", "CB"}
Ends  == Pipes \X {"r", "w"}

TypeOK ==
  /\ input \in Seq(Lines) /\ next \in 0 .. Len(input) /\ sent \in Nat
  /\ apc \in {"fork_b", "fork_c", "read", "send", "len_b", "ack",
              "kill_c", "kill_b", "exit", "killed"}
  /\ bpc \in {"none", "forked", "len_a", "len_c", "print", "gone"}
  /\ len_a \in Nat /\ len_c \in Nat
  /\ held \in Seq(Nat \X Nat) /\ report \in Seq(Nat \X Nat)
  /\ cpc \in {"none", "forked", "len", "str", "show", "len_b", "ack", "gone"}
  /\ len \in Nat /\ str \in Seq(Nat) /\ shown \in Seq(Seq(Nat))
  /\ pipe \in [Pipes -> Seq(Nat)]
  /\ fds \in [Procs -> SUBSET Ends]
  /\ doomed \in SUBSET {"B", "C"}

Init ==
  /\ input \in Inputs /\ next = 0 /\ apc = "fork_b" /\ sent = 0
  /\ bpc = "none" /\ len_a = 0 /\ len_c = 0 /\ held = <<>> /\ report = <<>>
  /\ cpc = "none" /\ len = 0 /\ str = <<>> /\ shown = <<>>
  /\ pipe = [p \in Pipes |-> <<>>]
  /\ fds = [p \in Procs |-> IF p = "A" THEN Ends ELSE {}]
  /\ doomed = {}

\* write_str and read_str, number by number.  A write blocks while the pipe is full and
\* raises SIGPIPE when nobody can read from it; a read blocks while the pipe is empty, and at
\* the end of the file read_str calls read again and again.
Heard(p)    == \E q \in Procs : <<p, "r">> \in fds[q]
Write(p, n) == /\ Heard(p) /\ Len(pipe[p]) < PipeSize
               /\ pipe' = [pipe EXCEPT ![p] = Append(@, n)]
Read(p)     == pipe[p] # <<>> /\ pipe' = [pipe EXCEPT ![p] = Tail(@)]

Close(p, ends) == fds' = [fds EXCEPT ![p] = @ \ ends]
CloseAll(p)    == fds' = [fds EXCEPT ![p] = {}]

-----------------------------------------------------------------------------------
\* fork: the child starts with a copy of A's descriptors; A closes what it does not use.
ForkChild(child, unused) == fds' = [fds EXCEPT ![child] = fds["A"], !["A"] = @ \ unused]

ForkB ==
  /\ apc = "fork_b" /\ apc' = "fork_c" /\ bpc' = "forked"
  /\ ForkChild("B", {<<"AB", "r">>, <<"CB", "r">>})
  /\ UNCHANGED <<input, next, sent, len_a, len_c, held, report, c, pipe, doomed>>

ForkC ==
  /\ apc = "fork_c" /\ apc' = "read" /\ cpc' = "forked"
  /\ ForkChild("C", {<<"AC", "r">>, <<"CA", "w">>, <<"CB", "w">>})
  /\ UNCHANGED <<input, next, sent, b, len, str, shown, pipe, doomed>>

\* exit(-1) of fork_b_wrapper and fork_c_wrapper.
ForkFails ==
  /\ MayFail /\ apc \in {"fork_b", "fork_c"} /\ apc' = "exit"
  /\ CloseAll("A")
  /\ UNCHANGED <<input, next, sent, b, c, pipe, doomed>>

\* A slip: the end of the input passes for a line.
GetAnyLine ==
  /\ apc = "read" /\ next =< Len(input)
  /\ next' = next + 1 /\ sent' = 0 /\ apc' = "send"
  /\ UNCHANGED <<input, b, c, pipe, fds, doomed>>

\* run: get_line ...
GetLine ==
  /\ apc = "read" /\ next < Len(input)
  /\ next' = next + 1 /\ sent' = 0 /\ apc' = "send"
  /\ UNCHANGED <<input, b, c, pipe, fds, doomed>>

\* ... which says 0 at the end of the input and when it has no memory.
GetNoLine ==
  /\ apc = "read" /\ (next = Len(input) \/ MayFail)
  /\ apc' = "kill_c"
  /\ UNCHANGED <<input, next, sent, b, c, pipe, fds, doomed>>

\* The message for C: the length, the characters and the 0 at their end.
Unit(k, j) == IF j = 0 THEN Len(input[k])
              ELSE IF j =< Len(input[k]) THEN input[k][j] ELSE 0
Size(k) == Len(input[k]) + 2

SendLine ==
  /\ apc = "send" /\ sent < Size(next)
  /\ Write("AC", Unit(next, sent)) /\ sent' = sent + 1
  /\ apc' = IF sent' = Size(next) THEN "len_b" ELSE "send"
  /\ UNCHANGED <<input, next, b, c, fds, doomed>>

SendLength ==
  /\ apc = "len_b" /\ Write("AB", Len(input[next]))
  /\ apc' = "ack"
  /\ UNCHANGED <<input, next, sent, b, c, fds, doomed>>

\* SIGPIPE, for which A has no handler.
ASigpipe ==
  /\ \/ apc = "send" /\ ~Heard("AC")
     \/ apc = "len_b" /\ ~Heard("AB")
  /\ apc' = "killed" /\ CloseAll("A")
  /\ UNCHANGED <<input, next, sent, b, c, pipe, doomed>>

\* A slip: the acknowledgement is not waited for.
GoOnAtOnce ==
  /\ apc = "ack" /\ apc' = "read"
  /\ UNCHANGED <<input, next, sent, b, c, pipe, fds, doomed>>

AwaitAck ==
  /\ apc = "ack" /\ Read("CA")
  /\ apc' = "read"
  /\ UNCHANGED <<input, next, sent, b, c, fds, doomed>>

\* deinit; then main returns.  Nobody waits for B and C.
Terminate(p, here, there) ==
  /\ apc = here /\ apc' = there
  /\ doomed' = doomed \cup {p}
  /\ UNCHANGED <<input, next, sent, b, c, pipe>>

\* A slip: C is forgotten.
KillNobody ==
  /\ apc = "kill_c" /\ apc' = "kill_b"
  /\ UNCHANGED <<input, next, sent, b, c, pipe, fds, doomed>>

KillC == Terminate("C", "kill_c", "kill_b") /\ UNCHANGED fds
KillB == Terminate("B", "kill_b", "exit") /\ CloseAll("A")

\* kill -9 of A alone.
AKilled ==
  /\ MayFail /\ apc \notin {"exit", "killed"} /\ apc' = "killed"
  /\ CloseAll("A")
  /\ UNCHANGED <<input, next, sent, b, c, pipe, doomed>>

-----------------------------------------------------------------------------------
\* A slip: B closes all it does not use.
BInitTidy ==
  /\ bpc = "forked" /\ bpc' = "len_a"
  /\ fds' = [fds EXCEPT !["B"] = @ \cap {<<"AB", "r">>, <<"CB", "r">>}]
  /\ UNCHANGED <<a, len_a, len_c, held, report, c, pipe, doomed>>

\* fork_b_wrapper in the child, up to the exec, which leaves the other ends open.
BInit ==
  /\ bpc = "forked" /\ bpc' = "len_a"
  /\ Close("B", {<<"AB", "w">>, <<"CB", "w">>})
  /\ UNCHANGED <<a, len_a, len_c, held, report, c, pipe, doomed>>

BReadA ==
  /\ bpc = "len_a" /\ Read("AB")
  /\ len_a' = Head(pipe["AB"]) /\ bpc' = "len_c"
  /\ UNCHANGED <<a, len_c, held, report, c, fds, doomed>>

BReadC ==
  /\ bpc = "len_c" /\ Read("CB")
  /\ len_c' = Head(pipe["CB"]) /\ bpc' = "print"
  /\ UNCHANGED <<a, len_a, held, report, c, fds, doomed>>

\* printf: stdout keeps back what fits its buffer.
BPrint ==
  /\ bpc = "print" /\ bpc' = "len_a"
  /\ LET out == Append(held, <<len_a, len_c>>)
     IN IF Len(out) > StdioSize THEN report' = report \o out /\ held' = <<>>
                                ELSE held' = out /\ UNCHANGED report
  /\ UNCHANGED <<a, len_a, len_c, c, pipe, fds, doomed>>

\* kill -9 of B alone, or SIGPIPE from the stdout it shares with C: what stdout kept is lost.
BFails ==
  /\ MayFail /\ bpc \notin {"none", "gone"} /\ bpc' = "gone"
  /\ CloseAll("B")
  /\ UNCHANGED <<a, len_a, len_c, held, report, c, pipe, doomed>>

\* SIGTERM arrives.
BDies ==
  /\ "B" \in doomed /\ bpc # "gone" /\ bpc' = "gone"
  /\ CloseAll("B")
  /\ UNCHANGED <<a, len_a, len_c, held, report, c, pipe, doomed>>

\* fork_c_wrapper in the child.
CInit ==
  /\ cpc = "forked" /\ cpc' = "len"
  /\ Close("C", {<<"AC", "w">>, <<"CA", "r">>})
  /\ UNCHANGED <<a, b, len, str, shown, pipe, doomed>>

CReadLength ==
  /\ cpc = "len" /\ Read("AC")
  /\ len' = Head(pipe["AC"]) /\ str' = <<>> /\ cpc' = "str"
  /\ UNCHANGED <<a, b, shown, fds, doomed>>

CReadString ==
  /\ cpc = "str" /\ Read("AC")
  /\ str' = Append(str, Head(pipe["AC"]))
  /\ cpc' = IF Len(str') = len + 1 THEN "show" ELSE "str"
  /\ UNCHANGED <<a, b, len, shown, fds, doomed>>

\* A slip: the 0 at the end is shown, too.
CShowAll ==
  /\ cpc = "show" /\ cpc' = "len_b"
  /\ shown' = Append(shown, str)
  /\ UNCHANGED <<a, b, len, str, pipe, fds, doomed>>

CShow ==
  /\ cpc = "show" /\ cpc' = "len_b"
  /\ shown' = Append(shown, SubSeq(str, 1, len))
  /\ UNCHANGED <<a, b, len, str, pipe, fds, doomed>>

\* A slip: the 0 at the end is counted, too.
CSendSize ==
  /\ cpc = "len_b" /\ Write("CB", len + 1)
  /\ cpc' = "ack"
  /\ UNCHANGED <<a, b, len, str, shown, fds, doomed>>

CSendLength ==
  /\ cpc = "len_b" /\ Write("CB", len)
  /\ cpc' = "ack"
  /\ UNCHANGED <<a, b, len, str, shown, fds, doomed>>

CAck ==
  /\ cpc = "ack" /\ Write("CA", 0)
  /\ cpc' = "len"
  /\ UNCHANGED <<a, b, len, str, shown, fds, doomed>>

CSigpipe ==
  /\ \/ cpc = "len_b" /\ ~Heard("CB")
     \/ cpc = "ack" /\ ~Heard("CA")
  /\ cpc' = "gone" /\ CloseAll("C")
  /\ UNCHANGED <<a, b, len, str, shown, pipe, doomed>>

\* kill -9 of C alone, and exit(-1) when malloc has no memory or the output refuses the line.
CFails ==
  /\ MayFail /\ cpc \notin {"none", "gone"} /\ cpc' = "gone"
  /\ CloseAll("C")
  /\ UNCHANGED <<a, b, len, str, shown, pipe, doomed>>

CDies ==
  /\ "C" \in doomed /\ cpc # "gone" /\ cpc' = "gone"
  /\ CloseAll("C")
  /\ UNCHANGED <<a, b, len, str, shown, pipe, doomed>>

ANext == \/ ForkB \/ ForkC \/ ForkFails \/ GetLine \/ GetNoLine
         \/ SendLine \/ SendLength \/ ASigpipe \/ AwaitAck \/ KillC \/ KillB
BNext == BInit \/ BReadA \/ BReadC \/ BPrint
CNext == CInit \/ CReadLength \/ CReadString \/ CShow \/ CSendLength \/ CAck \/ CSigpipe

Next == \/ ANext \/ AKilled
        \/ BNext \/ BFails \/ BDies
        \/ CNext \/ CFails \/ CDies
Spec == Init /\ [][Next]_vars

\* Every process that is not blocked in read or write runs, and a SIGTERM arrives.  Nobody
\* has to fail.
FairSpec == /\ Spec /\ WF_vars(ANext) /\ WF_vars(BNext) /\ WF_vars(CNext)
            /\ WF_vars(BDies) /\ WF_vars(CDies)

-----------------------------------------------------------------------------------
\* A sends no second line before the first is acknowledged, and an acknowledged line has
\* been shown: what C has shown is all A has read, but for the line under way.
StopAndWait ==
  /\ Len(shown) \in {next - 1, next}
  /\ apc \in {"read", "kill_c", "kill_b"} =>
       Len(shown) = next /\ pipe["AC"] = <<>> /\ pipe["CA"] = <<>>
  /\ \A k \in 1 .. Len(shown) : shown[k] = input[k]

\* The two lengths of a pair are those of the same line, as it was sent and as it was
\* received, although they travel by different ways and at different times.
PairsMatch ==
  \A k \in 1 .. Len(report) : report[k] = <<Len(input[k]), Len(input[k])>>

\* The end of a pipe's text has been reached: read returns 0, and read_str turns for ever.
AtEof(p) == pipe[p] = <<>> /\ \A q \in Procs : <<p, "w">> \notin fds[q]

\* B and C have ended although A has not told them to.
BFailed == bpc = "gone" /\ "B" \notin doomed
CFailed == cpc = "gone" /\ "C" \notin doomed

\* read_str does not know the end of a file: whoever meets it turns for ever.  A does only
\* when both its children have failed, and C only when A was killed and B has failed, because
\* B keeps the ends of their pipes that it inherited; B does as soon as C has ended or could
\* not be started.
EndlessReads ==
  /\ apc = "ack" /\ AtEof("CA") => BFailed /\ CFailed
  /\ cpc \in {"len", "str"} /\ AtEof("AC") => "C" \in doomed \/ (apc = "killed" /\ BFailed)
  /\ bpc = "len_a" /\ AtEof("AB") => cpc \in {"none", "gone"}
  /\ bpc = "len_c" /\ AtEof("CB") => cpc \in {"none", "gone"}
\* Nobody is killed by SIGPIPE as long as B has not failed: A is by the next length for B, C
\* too, but by an acknowledgement only if A was killed as well, and A by a line only if C has
\* failed as well.
UnheardWrites ==
  /\ apc = "send"  /\ ~Heard("AC") => BFailed /\ CFailed
  /\ apc = "len_b" /\ ~Heard("AB") => BFailed
  /\ cpc = "len_b" /\ ~Heard("CB") => BFailed
  /\ cpc = "ack"   /\ ~Heard("CA") => BFailed /\ apc = "killed"

\* All three processes end, unless A is killed (also by SIGPIPE), C fails (also by SIGPIPE) or
\* C cannot be started: then whoever is left may wait, or turn at the end of a pipe, for ever.
Terminates == <>(\/ apc = "exit" /\ bpc \in {"none", "gone"} /\ cpc \in {"none", "gone"}
                 \/ apc = "killed" \/ CFailed
                 \/ (apc = "exit" /\ cpc = "none"))

\* The report: "Программа B пишет в стандартный вывод количество отправленных символов
\* программой А и количество принятых символов программой С", for every line.
AllCounted == bpc = "gone" => Len(report) = Len(shown)

Relay == INSTANCE LineRelay WITH counted <- report, ended <- (apc \in {"exit", "killed"})

\* The three processes do what the task asks of them.
ImplementsRelay == Relay!RelaySpec
===================================================================================
