-------------------------------- MODULE PipeRouter --------------------------------
(***********************************************************************************)
(* os_exercise_02: parent.c sorts the lines of its input between two processes     *)
(* (child.c), each at the end of a pipe.  A child ends when its pipe has no writer *)
(* left; the ends of a pipe are inherited by fork, so that the child for long      *)
(* lines, forked second, is a writer of the first one's pipe.                      *)
(***********************************************************************************)
EXTENDS Integers, Sequences

CONSTANTS Chars,     \* the characters of the input
          Limit,     \* the longest line for the small file: 10 in the code
          FirstCap,  \* get_line's first buffer: 4 in the code
          BufSize,   \* the children's buffer: BUFSIZE, 1024 in the code
          PipeSize,  \* how much a pipe takes before a write blocks
          Inputs,    \* the inputs to consider, as sequences of lines
          MayFail    \* may pipe, open, fork, exec or a write to a file fail

Lines == Seq(Chars) \ {<<>>}

ASSUME PipeRouterAssumption == /\ Limit \in Nat
                               /\ FirstCap \in Nat \ {0, 1} /\ BufSize \in Nat \ {0}
                               /\ PipeSize \in Nat \ {0}
                               /\ Inputs \subseteq Seq(Lines)
                               /\ MayFail \in BOOLEAN

VARIABLES
  todo, line, cap, left,    \* the parent: input, get_line's buffer, what is still to write
  pc, chan, bad,            \* where it is, for which child, and did pipe or fork fail
  pipe,                     \* what each pipe holds
  fds,                      \* the pipe ends each process has open
  cpc, bufin, pos, bufout,  \* the children: bufin, filter()'s loop, bufout
  file                      \* what each child wrote

parent == <<todo, line, cap, left, pc, chan, bad>>
child  == <<cpc, bufin, pos, bufout, file>>
vars   == <<parent, pipe, fds, child>>

Channels == {"small", "large"}
Procs    == Channels \cup {"parent"}
Ends     == Channels \X {"r", "w"}

TypeOK ==
  /\ todo \in Seq(Lines) /\ line \in Seq(Chars)
  /\ cap \in Nat /\ left \in 0 .. Len(line)
  /\ pc \in {"start", "check", "read", "write", "close", "reap", "exit", "killed"}
  /\ chan \in Channels /\ bad \in BOOLEAN
  /\ pipe \in [Channels -> Seq(Chars)]
  /\ fds \in [Procs -> SUBSET Ends]
  /\ cpc \in [Channels -> {"none", "forked", "read", "filter", "done", "failed"}]
  /\ bufin \in [Channels -> Seq(Chars)] /\ pos \in [Channels -> Nat]
  /\ bufout \in [Channels -> Seq(Chars)] /\ file \in [Channels -> Seq(Chars)]

Init ==
  /\ todo \in Inputs /\ line = <<>> /\ cap = FirstCap /\ left = 0
  /\ pc = "start" /\ chan = "small" /\ bad = FALSE
  /\ pipe = [c \in Channels |-> <<>>]
  /\ fds = [p \in Procs |-> {}]
  /\ cpc = [c \in Channels |-> "none"]
  /\ bufin = [c \in Channels |-> <<>>] /\ pos = [c \in Channels |-> 0]
  /\ bufout = [c \in Channels |-> <<>>] /\ file = [c \in Channels |-> <<>>]

R(c) == <<c, "r">>
W(c) == <<c, "w">>
Held(e)     == \E p \in Procs : e \in fds[p]
CloseAll(p) == fds' = [fds EXCEPT ![p] = {}]

-----------------------------------------------------------------------------------
\* main starts the small child, then the large one, and then looks at the errors.
StartNext == IF chan = "small" THEN pc' = pc /\ chan' = "large"
                               ELSE pc' = "check" /\ UNCHANGED chan

\* A slip: the parent keeps the end to read from.
StartChildWrongEnd ==
  /\ pc = "start" /\ StartNext
  /\ fds' = [fds EXCEPT !["parent"] = @ \cup {R(chan)},
                        ![chan] = fds["parent"] \cup {R(chan), W(chan)}]
  /\ cpc' = [cpc EXCEPT ![chan] = "forked"]
  /\ UNCHANGED <<todo, line, cap, left, bad, pipe, bufin, pos, bufout, file>>

\* run_file_process: the child has all the parent has, and both ends of its own pipe.
StartChild ==
  /\ pc = "start" /\ StartNext
  /\ fds' = [fds EXCEPT !["parent"] = @ \cup {W(chan)},
                        ![chan] = fds["parent"] \cup {R(chan), W(chan)}]
  /\ cpc' = [cpc EXCEPT ![chan] = "forked"]
  /\ UNCHANGED <<todo, line, cap, left, bad, pipe, bufin, pos, bufout, file>>

\* FP_ERR_PIPE, and FP_ERR_FORK, which leaves the parent with both ends.
StartFails ==
  /\ pc = "start" /\ MayFail /\ StartNext
  /\ bad' = TRUE
  /\ \/ UNCHANGED fds
     \/ fds' = [fds EXCEPT !["parent"] = @ \cup {R(chan), W(chan)}]
  /\ UNCHANGED <<todo, line, cap, left, pipe, child>>

\* exit(1) when the file cannot be opened, and when handle_create_error_file_process
\* finds an error.
Exit ==
  /\ \/ pc = "start" /\ MayFail
     \/ pc = "check" /\ bad
  /\ pc' = "exit" /\ CloseAll("parent")
  /\ UNCHANGED <<todo, line, cap, left, chan, bad, pipe, child>>

Started ==
  /\ pc = "check" /\ ~bad /\ pc' = "read"
  /\ UNCHANGED <<todo, line, cap, left, chan, bad, pipe, fds, child>>

\* Slips: > for >= in get_line and for > in main; the string is written with its 0.
GrowLate(len)  == IF len > cap THEN 2 * cap ELSE cap
AtLimit(len)   == IF len >= Limit THEN "large" ELSE "small"
WithZero(text) == Len(text) + 1

\* get_line: a character at a time; the buffer is doubled when it is full.
Grown(len) == IF len >= cap THEN 2 * cap ELSE cap
FileFor(len)  == IF len > Limit THEN "large" ELSE "small"
ToWrite(text) == Len(text)

GetChar ==
  /\ pc = "read" /\ todo # <<>>
  /\ line' = Append(line, Head(todo)[Len(line) + 1])
  /\ cap' = Grown(Len(line'))
  /\ \/ Len(line') < Len(Head(todo)) /\ UNCHANGED <<todo, left, pc, chan>>
     \/ /\ Len(line') = Len(Head(todo))
        /\ todo' = Tail(todo) /\ left' = ToWrite(line')
        /\ chan' = FileFor(Len(line')) /\ pc' = "write"
  /\ UNCHANGED <<bad, pipe, fds, child>>

\* A slip: the children are closed in the order they were started in.
SmallFirst  == "small"
FirstClosed == "large"

GetEnd ==
  /\ pc = "read" /\ todo = <<>>
  /\ pc' = "close" /\ chan' = FirstClosed
  /\ UNCHANGED <<todo, line, cap, left, bad, pipe, fds, child>>

\* write_file_process, and SIGPIPE when the child is gone.
WriteChar ==
  /\ pc = "write" /\ Held(R(chan)) /\ Len(pipe[chan]) < PipeSize
  /\ pipe' = [pipe EXCEPT ![chan] = Append(@, line[Len(line) - left + 1])]
  /\ \/ left > 1 /\ left' = left - 1 /\ UNCHANGED <<line, cap, pc>>
     \/ left = 1 /\ left' = 0 /\ line' = <<>> /\ cap' = FirstCap /\ pc' = "read"
  /\ UNCHANGED <<todo, chan, bad, fds, child>>

WriteKills ==
  /\ pc = "write" /\ ~Held(R(chan))
  /\ pc' = "killed" /\ CloseAll("parent")
  /\ UNCHANGED <<todo, line, cap, left, chan, bad, pipe, child>>

\* close_file_process: close, then waitpid.
Close ==
  /\ pc = "close" /\ pc' = "reap"
  /\ fds' = [fds EXCEPT !["parent"] = @ \ {W(chan)}]
  /\ UNCHANGED <<todo, line, cap, left, chan, bad, pipe, child>>

Ended(c) == cpc[c] \in {"none", "done", "failed"}
Reap ==
  /\ pc = "reap" /\ Ended(chan)
  /\ \/ /\ chan = FirstClosed /\ pc' = "close"
        /\ chan' = IF chan = "large" THEN "small" ELSE "large"
     \/ chan # FirstClosed /\ pc' = "exit" /\ UNCHANGED chan
  /\ UNCHANGED <<todo, line, cap, left, bad, pipe, fds, child>>

-----------------------------------------------------------------------------------
\* The child's half of run_file_process: it closes the write end of its own pipe only.
Exec(c) ==
  /\ cpc[c] = "forked"
  /\ \/ cpc' = [cpc EXCEPT ![c] = "read"] /\ fds' = [fds EXCEPT ![c] = @ \ {W(c)}]
     \/ MayFail /\ cpc' = [cpc EXCEPT ![c] = "failed"] /\ CloseAll(c)
  /\ UNCHANGED <<parent, pipe, bufin, pos, bufout, file>>

\* read: what is there, up to BUFSIZE; 0 when the pipe has no writer any more.
Available(c) == IF Len(pipe[c]) < BufSize THEN Len(pipe[c]) ELSE BufSize

ReadPipe(c) ==
  /\ cpc[c] = "read" /\ pipe[c] # <<>>
  /\ bufin' = [bufin EXCEPT ![c] = SubSeq(pipe[c], 1, Available(c))]
  /\ pipe' = [pipe EXCEPT ![c] = SubSeq(@, Available(c) + 1, Len(@))]
  /\ cpc' = [cpc EXCEPT ![c] = "filter"]
  /\ pos' = [pos EXCEPT ![c] = 0] /\ bufout' = [bufout EXCEPT ![c] = <<>>]
  /\ UNCHANGED <<parent, fds, file>>

ReadEof(c) ==
  /\ cpc[c] = "read" /\ pipe[c] = <<>> /\ ~Held(W(c))
  /\ cpc' = [cpc EXCEPT ![c] = "done"] /\ CloseAll(c)
  /\ UNCHANGED <<parent, pipe, bufin, pos, bufout, file>>

\* is_vowel(), after tolower().  There is no a among them: the exercise's README asks for the
\* vowels to go and shows small becoming smll (README.md:19, 108-117), this program keeps it.
\* Its loop, bounded by the size of a pointer, also meets the 0 behind the string and two bytes
\* beyond, whatever they are; a text that holds one of the three is left out.
Vowels == {"e", "y", "u", "i", "o"}

\* filter, and write_str once it has seen every character; the file may take a part only,
\* and then the child exits.
Filter(c) ==
  /\ cpc[c] = "filter" /\ pos[c] < Len(bufin[c])
  /\ LET ch == bufin[c][pos[c] + 1]
     IN bufout' = [bufout EXCEPT ![c] = IF ch \in Vowels THEN @ ELSE Append(@, ch)]
  /\ pos' = [pos EXCEPT ![c] = @ + 1]
  /\ UNCHANGED <<parent, pipe, fds, cpc, bufin, file>>

WriteFile(c) ==
  /\ cpc[c] = "filter" /\ pos[c] = Len(bufin[c])
  /\ \/ /\ file' = [file EXCEPT ![c] = @ \o bufout[c]]
        /\ cpc' = [cpc EXCEPT ![c] = "read"] /\ UNCHANGED fds
     \/ /\ MayFail /\ bufout[c] # <<>>
        /\ \E n \in 0 .. Len(bufout[c]) - 1 :
             file' = [file EXCEPT ![c] = @ \o SubSeq(bufout[c], 1, n)]
        /\ cpc' = [cpc EXCEPT ![c] = "failed"] /\ CloseAll(c)
  /\ UNCHANGED <<parent, pipe, bufin, pos, bufout>>

ParentNext == \/ StartChild \/ StartFails \/ Exit \/ Started \/ GetChar \/ GetEnd
              \/ WriteChar \/ WriteKills \/ Close \/ Reap
ChildNext(c) == Exec(c) \/ ReadPipe(c) \/ ReadEof(c) \/ Filter(c) \/ WriteFile(c)

Next == ParentNext \/ \E c \in Channels : ChildNext(c)
Spec == Init /\ [][Next]_vars

\* Every process that is not blocked in read, write or waitpid is scheduled.
FairSpec == Spec /\ WF_vars(ParentNext) /\ \A c \in Channels : WF_vars(ChildNext(c))

-----------------------------------------------------------------------------------
\* There is always room for the 0 that get_line puts behind the line.
LineFits == Len(line) < cap

\* A child never takes another process's death or start-up for the end of the input: while
\* the parent reads and writes neither child ends well, and the small child, whose pipe the
\* large one has inherited, ends after it.  SIGPIPE comes from a child that failed.
EofInOrder ==
  /\ pc \in {"start", "check", "read", "write"} => \A c \in Channels : cpc[c] # "done"
  /\ cpc["small"] = "done" => Ended("large")
  /\ pc = "killed" => \E c \in Channels : cpc[c] = "failed"

\* Why: where the parent is tells what it has read and whom it has started; ...
InHand ==
  /\ pc \in {"start", "check"} => line = <<>>
  /\ pc = "read" /\ todo # <<>> =>
       Len(line) < Len(Head(todo)) /\ line = SubSeq(Head(todo), 1, Len(line))
  /\ pc = "write" => left > 0
Forked ==
  /\ pc = "start" => cpc["large"] = "none"
  /\ pc = "start" /\ chan = "small" => cpc["small"] = "none"
  /\ pc = "start" /\ chan = "large" /\ ~bad => cpc["small"] # "none"
  /\ (pc = "check" /\ ~bad) \/ pc \in {"read", "write"} =>
       \A c \in Channels : cpc[c] # "none"
\* ... as long as it reads and writes it holds the write ends, a child holds the end it
\* reads from, and the large child the write end it inherited.
Descriptors ==
  /\ pc \in {"start", "check", "read", "write"} =>
       \A c \in Channels : cpc[c] # "none" => W(c) \in fds["parent"]
  /\ \A c \in Channels : ~Ended(c) => R(c) \in fds[c]
  /\ cpc["small"] # "none" /\ ~Ended("large") => W("small") \in fds["large"]
\* Before the first line nothing is in a pipe or a file; after the last one the large child
\* ends first, and a child that ended well has left nothing in its pipe.
Unused ==
  /\ bad => MayFail
  /\ pc \in {"start", "check"} =>
       \A c \in Channels : pipe[c] = <<>> /\ file[c] = <<>> /\ cpc[c] \notin {"filter", "done"}
Closing ==
  /\ pc \in {"close", "reap"} => todo = <<>> /\ \A c \in Channels : cpc[c] # "none"
  /\ pc \in {"close", "reap"} /\ chan = "small" => Ended("large")
  /\ \A c \in Channels : cpc[c] = "done" => pipe[c] = <<>>
Filtering == \A c \in Channels : cpc[c] = "filter" => pos[c] =< Len(bufin[c])
IInv == /\ TypeOK /\ LineFits /\ InHand /\ Forked /\ Descriptors /\ EofInOrder
        /\ Unused /\ Closing /\ Filtering

\* All processes end, whichever of them fails: a parent that dies or gives up is an end of
\* file for its children, and the write end the large child keeps only delays the small one.
Terminates == <>(pc \in {"exit", "killed"} /\ \A c \in Channels : Ended(c))

\* The text on its way to a file: in the child, in the pipe, in the parent's hands.
InLine(c) == IF pc = "write" /\ chan = c THEN SubSeq(line, Len(line) - left + 1, Len(line))
                                        ELSE <<>>
InChild(c) == IF cpc[c] = "filter" THEN SubSeq(bufin[c], pos[c] + 1, Len(bufin[c])) ELSE <<>>
OnTheWay(c) == IF cpc[c] = "failed" THEN <<>> ELSE InChild(c) \o pipe[c] \o InLine(c)
Output(c)   == IF cpc[c] = "filter" THEN bufout[c] ELSE <<>>

Sorter == INSTANCE LineSorter WITH Dropped <- Vowels,
  pending <- [c \in Channels |-> OnTheWay(c)], kept <- [c \in Channels |-> Output(c)],
  broken <- [c \in Channels |-> cpc[c] = "failed"], ended <- (pc \in {"exit", "killed"})

\* The processes and the pipes deliver the lines: each reaches its file once, in order and
\* with all its characters but those child.c drops (the a stays, against the README), and the parent ends when all is there; after a failure a file still holds a
\* beginning of its text, nothing twice and nothing out of order.
ImplementsSorter == Sorter!SorterSpec
===================================================================================
