------------------------------- MODULE SharedRouter -------------------------------
(***********************************************************************************)
(* os_exercise_04: parent.c sorts the lines of its input between two processes     *)
(* (child.c), each reached through a shared memory object that holds one buffer    *)
(* and two semaphores (shared.c).                                                  *)
(***********************************************************************************)
EXTENDS Integers, Sequences

CONSTANTS Chars,     \* the characters of the input
          Zero,      \* the character a fresh shared memory object is filled with
          Limit,     \* the longest line for the small file: 10 in the code
          BufSize,   \* SHARED_BUF_SIZE: 1024 in the code
          Inputs,    \* the inputs to consider, as sequences of lines
          MayFail    \* may a system call fail: shm_open, open, fork, exec or write

Lines == Seq(Chars) \ {<<>>}
Text  == Seq(Chars \cup {Zero})

ASSUME SharedRouterAssumption == /\ Limit \in Nat /\ BufSize \in Nat \ {0}
                                 /\ Inputs \subseteq Seq(Lines)
                                 /\ MayFail \in BOOLEAN

VARIABLES
  todo, line, left, i,      \* the parent: input, current line, len and the copying loop
  pc, chan,                 \* where it is, and in which child's business
  linked,                   \* does the shared memory object have its name
  write_mutex, read_mutex, buf, buf_len,    \* struct Shared, per child
  cpc, bufin, pos, bufout,  \* the children: bufin, filter()'s loop, bufout
  file                      \* what each child wrote

parent == <<todo, line, left, i, pc, chan>>
shared == <<linked, write_mutex, read_mutex, buf, buf_len>>
child  == <<cpc, bufin, pos, bufout, file>>
vars   == <<parent, shared, child>>

Channels == {"small", "large"}

TypeOK ==
  /\ todo \in Seq(Lines) /\ line \in Seq(Chars)
  /\ left \in Nat /\ i \in 0 .. BufSize
  /\ pc \in {"start", "read", "enter", "copy", "close", "unlink", "reap", "exit"}
  /\ chan \in Channels
  /\ linked \in [Channels -> BOOLEAN]
  /\ write_mutex \in [Channels -> Nat] /\ read_mutex \in [Channels -> Nat]
  /\ buf \in [Channels -> [1 .. BufSize -> Chars \cup {Zero}]]
  /\ buf_len \in [Channels -> -1 .. BufSize]
  /\ cpc \in [Channels -> {"none", "forked", "wait", "copy", "filter", "done", "late", "failed"}]
  /\ bufin \in [Channels -> Text] /\ pos \in [Channels -> Nat]
  /\ bufout \in [Channels -> Text] /\ file \in [Channels -> Text]

Init ==
  /\ todo \in Inputs /\ line = <<>> /\ left = 0 /\ i = 0
  /\ pc = "start" /\ chan = "small"
  /\ linked = [c \in Channels |-> FALSE]
  /\ write_mutex = [c \in Channels |-> 0] /\ read_mutex = [c \in Channels |-> 0]
  /\ buf = [c \in Channels |-> [k \in 1 .. BufSize |-> Zero]]
  /\ buf_len = [c \in Channels |-> 0]
  /\ cpc = [c \in Channels |-> "none"]
  /\ bufin = [c \in Channels |-> <<>>] /\ pos = [c \in Channels |-> 0]
  /\ bufout = [c \in Channels |-> <<>>] /\ file = [c \in Channels |-> <<>>]

\* sem_wait and sem_post.
Wait(sem, c) == sem[c] > 0 /\ sem' = [sem EXCEPT ![c] = @ - 1]
Post(sem, c) == sem' = [sem EXCEPT ![c] = @ + 1]

\* The parent handles the small child first, then the large one.
GoOn(next) == IF chan = "small" THEN chan' = "large" /\ pc' = pc
                                ELSE chan' = "small" /\ pc' = next

-----------------------------------------------------------------------------------
\* A slip: read_mutex starts open, as write_mutex does.
BothOpen ==
  /\ linked' = [linked EXCEPT ![chan] = TRUE] /\ buf_len' = [buf_len EXCEPT ![chan] = 0]
  /\ write_mutex' = [write_mutex EXCEPT ![chan] = 1]
  /\ read_mutex' = [read_mutex EXCEPT ![chan] = 1] /\ UNCHANGED buf

\* shared_init.
SharedInit ==
  /\ linked'      = [linked EXCEPT ![chan] = TRUE]
  /\ write_mutex' = [write_mutex EXCEPT ![chan] = 1]
  /\ read_mutex'  = [read_mutex EXCEPT ![chan] = 0]
  /\ buf_len'     = [buf_len EXCEPT ![chan] = 0]
  /\ UNCHANGED buf

\* run_file_process: shared_init, open and fork.
StartChild ==
  /\ pc = "start" /\ GoOn("read")
  /\ SharedInit
  /\ cpc' = [cpc EXCEPT ![chan] = "forked"]
  /\ UNCHANGED <<todo, line, left, i, bufin, pos, bufout, file>>

\* log_error_and_exit, of shared_init or of what comes after it.
StartFails ==
  /\ pc = "start" /\ MayFail
  /\ UNCHANGED shared \/ SharedInit
  /\ pc' = "exit"
  /\ UNCHANGED <<todo, line, left, i, chan, child>>

\* A slip: >= for >.
AtLimit(len) == IF len >= Limit THEN "large" ELSE "small"
\* main: which child gets a line.
FileFor(len) == IF len > Limit THEN "large" ELSE "small"

\* get_line and the choice of the child; at the end of the input the children are closed.
ReadLine ==
  /\ pc = "read" /\ todo # <<>>
  /\ line' = Head(todo) /\ todo' = Tail(todo) /\ left' = Len(line')
  /\ chan' = FileFor(left')
  /\ pc' = "enter"
  /\ UNCHANGED <<i, shared, child>>

ReadEnd ==
  /\ pc = "read" /\ todo = <<>>
  /\ pc' = "close" /\ chan' = "small"
  /\ UNCHANGED <<todo, line, left, i, shared, child>>

\* A slip: shared_buf_write without its sem_wait.
WriteUnlocked ==
  /\ pc = "enter" /\ pc' = "copy" /\ i' = 0
  /\ UNCHANGED <<todo, line, left, chan, shared, child>>

\* shared_buf_write, called by write_file_process while left > 0 and always with the
\* same msg.  buf_len is -1 only after the parent's own shared_destroy.
WriteEnter ==
  /\ pc = "enter" /\ Wait(write_mutex, chan)
  /\ pc' = "copy" /\ i' = 0
  /\ UNCHANGED <<todo, line, left, chan, linked, read_mutex, buf, buf_len, child>>

NeedToWrite == IF left < BufSize THEN left ELSE BufSize

WriteCopy ==
  /\ pc = "copy" /\ i < NeedToWrite
  /\ buf' = [buf EXCEPT ![chan][i + 1] = line[i + 1]]
  /\ i' = i + 1
  /\ UNCHANGED <<todo, line, left, pc, chan, linked, write_mutex, read_mutex, buf_len, child>>

\* write_file_process: what is left of len once shared_buf_write has returned.
Rest == left - NeedToWrite

WriteLeave ==
  /\ pc = "copy" /\ i = NeedToWrite
  /\ buf_len' = [buf_len EXCEPT ![chan] = NeedToWrite]
  /\ Post(read_mutex, chan)
  /\ left' = Rest
  /\ \/ left' > 0 /\ pc' = "enter" /\ UNCHANGED line
     \/ left' = 0 /\ pc' = "read" /\ line' = <<>>
  /\ UNCHANGED <<todo, i, chan, linked, write_mutex, buf, child>>

\* A slip: shared_destroy without its sem_post.
CloseSilently ==
  /\ pc = "close" /\ Wait(write_mutex, chan) /\ pc' = "unlink"
  /\ buf_len' = [buf_len EXCEPT ![chan] = -1]
  /\ UNCHANGED <<todo, line, left, i, chan, linked, read_mutex, buf, child>>

\* shared_destroy: the child is told by a length of -1 once the buffer is free ...
Close ==
  /\ pc = "close" /\ Wait(write_mutex, chan)
  /\ buf_len' = [buf_len EXCEPT ![chan] = -1]
  /\ Post(read_mutex, chan)
  /\ pc' = "unlink"
  /\ UNCHANGED <<todo, line, left, i, chan, linked, buf, child>>

\* ... then the object loses its name, whether or not the child has opened it ...
Unlink ==
  /\ pc = "unlink"
  /\ linked' = [linked EXCEPT ![chan] = FALSE]
  /\ pc' = "reap"
  /\ UNCHANGED <<todo, line, left, i, chan, write_mutex, read_mutex, buf, buf_len, child>>

\* A slip: close_file_process without its waitpid.
ReapAtOnce ==
  /\ pc = "reap"
  /\ \/ chan = "small" /\ chan' = "large" /\ pc' = "close"
     \/ chan = "large" /\ pc' = "exit" /\ UNCHANGED chan
  /\ UNCHANGED <<todo, line, left, i, shared, child>>

\* ... and close_file_process waits for the child.
Ended(c) == cpc[c] \in {"done", "late", "failed"}
Reap ==
  /\ pc = "reap" /\ Ended(chan)
  /\ \/ chan = "small" /\ chan' = "large" /\ pc' = "close"
     \/ chan = "large" /\ pc' = "exit" /\ UNCHANGED chan
  /\ UNCHANGED <<todo, line, left, i, shared, child>>

-----------------------------------------------------------------------------------
\* exec and shared_connect: the child exits, late, if the object no longer has its name.
Connect(c) ==
  /\ cpc[c] = "forked"
  /\ \/ linked[c] /\ cpc' = [cpc EXCEPT ![c] = "wait"]
     \/ ~linked[c] /\ cpc' = [cpc EXCEPT ![c] = "late"]
     \/ MayFail /\ cpc' = [cpc EXCEPT ![c] = "failed"]
  /\ UNCHANGED <<parent, shared, bufin, pos, bufout, file>>

\* shared_buf_read.  Its need_to_read is buf_len: nobody changes that before ReadLeave.
ReadEnter(c) ==
  /\ cpc[c] = "wait" /\ Wait(read_mutex, c)
  /\ cpc' = [cpc EXCEPT ![c] = "copy"]
  /\ bufin' = [bufin EXCEPT ![c] = <<>>]
  /\ UNCHANGED <<parent, linked, write_mutex, buf, buf_len, pos, bufout, file>>

ReadCopy(c) ==
  /\ cpc[c] = "copy" /\ Len(bufin[c]) < buf_len[c]
  /\ bufin' = [bufin EXCEPT ![c] = Append(@, buf[c][Len(@) + 1])]
  /\ UNCHANGED <<parent, shared, cpc, pos, bufout, file>>

ReadLeave(c) ==
  /\ cpc[c] = "copy" /\ Len(bufin[c]) >= buf_len[c]
  /\ buf_len' = [buf_len EXCEPT ![c] = 0]
  /\ Post(write_mutex, c)
  /\ cpc' = [cpc EXCEPT ![c] = IF buf_len[c] > 0 THEN "filter" ELSE "done"]
  /\ pos' = [pos EXCEPT ![c] = 0] /\ bufout' = [bufout EXCEPT ![c] = <<>>]
  /\ UNCHANGED <<parent, linked, read_mutex, buf, bufin, file>>

\* is_vowel(), after tolower().  Its loop, bounded by the size of a pointer, also meets the 0
\* behind the string and one byte beyond, whatever it is; a text that holds one of the two is
\* left out.
Vowels == {"a", "e", "y", "u", "i", "o"}

\* filter, and write_str once it has seen every character.
Filter(c) ==
  /\ cpc[c] = "filter" /\ pos[c] < Len(bufin[c])
  /\ LET ch == bufin[c][pos[c] + 1]
     IN bufout' = [bufout EXCEPT ![c] = IF ch \in Vowels THEN @ ELSE Append(@, ch)]
  /\ pos' = [pos EXCEPT ![c] = @ + 1]
  /\ UNCHANGED <<parent, shared, cpc, bufin, file>>

WriteFile(c) ==
  /\ cpc[c] = "filter" /\ pos[c] = Len(bufin[c])
  /\ file' = [file EXCEPT ![c] = @ \o bufout[c]]
  /\ cpc' = [cpc EXCEPT ![c] = "wait"]
  /\ UNCHANGED <<parent, shared, bufin, pos, bufout>>

\* The file takes a part of the output and then refuses: the child exits.
WriteFails(c) ==
  /\ MayFail /\ cpc[c] = "filter" /\ pos[c] = Len(bufin[c])
  /\ \E n \in 0 .. Len(bufout[c]) :
       file' = [file EXCEPT ![c] = @ \o SubSeq(bufout[c], 1, n)]
  /\ cpc' = [cpc EXCEPT ![c] = "failed"]
  /\ UNCHANGED <<parent, shared, bufin, pos, bufout>>

ParentNext == \/ StartChild \/ StartFails \/ ReadLine \/ ReadEnd
              \/ WriteEnter \/ WriteCopy \/ WriteLeave \/ Close \/ Unlink \/ Reap
ChildNext(c) == \/ Connect(c) \/ ReadEnter(c) \/ ReadCopy(c) \/ ReadLeave(c)
                \/ Filter(c) \/ WriteFile(c) \/ WriteFails(c)

Next == ParentNext \/ (\E c \in Channels : ChildNext(c))
Spec == Init /\ [][Next]_vars

\* Every process that is not blocked in sem_wait or waitpid is scheduled.
FairSpec == Spec /\ WF_vars(ParentNext) /\ \A c \in Channels : WF_vars(ChildNext(c))

-----------------------------------------------------------------------------------
Writing(c) == pc = "copy" /\ chan = c
Copying(c) == cpc[c] = "copy"

\* The parent and a child are never in the buffer at the same time, although neither
\* semaphore is a lock: each side waits on one of them and posts the other.
BufferExclusive == \A c \in Channels : ~(Writing(c) /\ Copying(c))

\* What a child is reading does not change under it, and what it takes out of the buffer
\* is all input: never what a fresh object holds, never what is left of a longer line.
NothingTorn ==
  \A c \in Channels :
    /\ Copying(c) => \A k \in 1 .. Len(bufin[c]) : k =< buf_len[c] /\ bufin[c][k] = buf[c][k]
    /\ cpc[c] = "filter" => \A k \in 1 .. Len(bufin[c]) : bufin[c][k] \in Chars

\* Why the two hold: the semaphores of a channel are one token.  It is in write_mutex, in
\* read_mutex, or with the process that is between its sem_wait and its sem_post; ...
Started ==
  /\ pc = "start" => \A c \in Channels : c = "large" \/ chan = "small" => cpc[c] = "none"
  /\ pc = "start" /\ chan = "large" => cpc["small"] # "none"
  /\ pc \notin {"start", "exit"} => \A c \in Channels : cpc[c] # "none"
OneToken ==
  \A c \in Channels : cpc[c] # "none" =>
    write_mutex[c] + read_mutex[c] + (IF Writing(c) THEN 1 ELSE 0)
                                   + (IF Copying(c) THEN 1 ELSE 0) = 1
\* ... the parent finds the buffer read, and the child finds it filled with the line.
LineHeld ==
  /\ pc \in {"enter", "copy"} => left \in 1 .. Len(line)
  /\ pc = "copy" => i =< NeedToWrite
Filled ==
  \A c \in Channels :
    /\ cpc[c] # "none" /\ write_mutex[c] > 0 => buf_len[c] = 0
    /\ Writing(c) => buf_len[c] = 0 /\ \A k \in 1 .. i : buf[c][k] \in Chars
    /\ \A k \in 1 .. buf_len[c] : buf[c][k] \in Chars

\* A run that could not start both children.
StartFailed == pc = "exit" /\ \E c \in Channels : cpc[c] = "none"

\* At the end the parent closes one channel after the other: an object without a name has
\* been closed, and a child that comes too late for it finds it empty.
Unlinked(c) == \/ pc = "reap" /\ chan = c
               \/ c = "small" /\ chan = "large" /\ pc \in {"close", "unlink", "reap"}
               \/ pc = "exit"
Endings ==
  /\ chan = "large" /\ pc \in {"close", "unlink", "reap"} => Ended("small")
  /\ pc = "exit" /\ ~StartFailed => \A c \in Channels : Ended(c)
  /\ \A c \in Channels :
       /\ cpc[c] \in {"none", "forked", "late"} => file[c] = <<>>
       /\ cpc[c] # "none" /\ ~linked[c] => Unlinked(c)
       /\ cpc[c] = "late" => ~linked[c]
       /\ cpc[c] \in {"forked", "late"} /\ (~linked[c] \/ (pc = "unlink" /\ chan = c)) =>
            buf_len[c] = -1
\* What a child may read has been sent to it: a piece of the line, or the end.
Closed(c) == (pc \in {"unlink", "reap"} /\ chan = c) \/ Unlinked(c)
Sent ==
  \A c \in Channels :
    /\ Writing(c) => \A k \in 1 .. i : buf[c][k] = line[k]
    /\ cpc[c] # "none" /\ (read_mutex[c] > 0 \/ Copying(c)) => buf_len[c] # 0
    /\ buf_len[c] = -1 => Closed(c)
    /\ cpc[c] = "done" => buf_len[c] = 0 /\ Closed(c)
\* Before the first line nothing is in a buffer or a file, after the last one none is left.
Unused ==
  pc = "start" => \A c \in Channels :
    buf_len[c] = 0 /\ file[c] = <<>> /\ cpc[c] \in {"none", "forked", "wait", "failed"}
InputRead == pc \in {"close", "unlink", "reap"} => todo = <<>>
Filtering == \A c \in Channels : cpc[c] = "filter" => pos[c] =< Len(bufin[c])
IInv == /\ TypeOK /\ Started /\ OneToken /\ LineHeld /\ Filled /\ NothingTorn /\ Endings
        /\ Sent /\ Unused /\ InputRead /\ Filtering

\* When the parent has started both children and ends, no child is left behind, and a child that
\* came too late to open its object (which the parent unlinks without asking) had nothing to
\* read from it.
EndsComplete ==
  pc = "exit" /\ ~StartFailed =>
    \A c \in Channels : Ended(c) /\ (cpc[c] = "late" => file[c] = <<>> /\ buf_len[c] = -1)

\* The program ends, and both children with it, unless a system call fails: nothing wakes
\* the parent of a child that died, nor a child whose sibling could not be started.
Terminates == <>(\/ pc = "exit" /\ \A c \in Channels : Ended(c)
                 \/ StartFailed \/ \E c \in Channels : cpc[c] = "failed")

-----------------------------------------------------------------------------------
\* The text on its way to a file: in the child, in the buffer, in the parent's hands.
InLine(c) == IF pc \in {"enter", "copy"} /\ chan = c
             THEN SubSeq(line, Len(line) - left + 1, Len(line)) ELSE <<>>
InBuffer(c) == IF buf_len[c] > 0 THEN SubSeq(buf[c], 1, buf_len[c]) ELSE <<>>
InChild(c)  == IF cpc[c] = "filter" THEN SubSeq(bufin[c], pos[c] + 1, Len(bufin[c])) ELSE <<>>
OnTheWay(c) == IF cpc[c] = "failed" THEN <<>> ELSE InChild(c) \o InBuffer(c) \o InLine(c)
Output(c)   == IF cpc[c] = "filter" THEN bufout[c] ELSE <<>>

Sorter == INSTANCE LineSorter WITH Dropped <- Vowels,
  pending <- [c \in Channels |-> OnTheWay(c)], kept <- [c \in Channels |-> Output(c)],
  broken <- [c \in Channels |-> cpc[c] = "failed"], ended <- (pc = "exit")

\* The processes and the shared memory do what the task says: each line reaches its file
\* once, whole and in order, and the parent ends only when all are there; after a failure a
\* file holds a beginning of its text and nothing is stored twice or out of order.
ImplementsSorter == Sorter!SorterSpec
===================================================================================
