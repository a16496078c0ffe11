# Verification of mai_course_os

The repository holds the laboratory works of an operating-systems course: seven small
programs, most of them several processes or threads that exchange data. This directory
models them in TLA+, checks the models with TLC on small instances, and proves with TLAPS,
for every value of the constants, what the checks suggest. Paths are relative to `src/`.

## 1. Inventory

| Part | State it keeps | Operations | Modelled in |
|---|---|---|---|
| `os_exercise_06` user node (`server.cpp`) | one PUB and one SUB socket, names of its children's endpoints, a command under way | create, remove, exec, ping; end of input or signal | `MessageTree`; promise: `NodeDirectory` |
| `os_exercise_06` computing node (`client.cpp`) | id, two PUB sockets and one SUB socket, `run` | start, ping, exec, create, remove, pass on, stop, signal | `ComputingNode` |
| `os_exercise_06` messages and names (`message.cpp`, `zmq_tools.cpp`) | - | `fill_message_*`, `get_message_*`, endpoint names | `PubSub` (partly) |
| ZeroMQ, fork, kill (external) | connections, queues, processes | connect, deliver, lose, kill | `PubSub` |
| `os_exercise_04` (`parent.c`, `child.c`, `shared.c`) | two shared buffers with two semaphores each, two files | sort lines, hand a buffer over, filter, end | `SharedRouter`; promise: `LineSorter` |
| `os_exercise_02` (`parent.c`, `child.c`) | two pipes, the descriptors each process inherited, two files | sort lines, write, filter, close, wait | `PipeRouter`; promise: `LineSorter` |
| `io.c` of 02 and 04 | a growing buffer | `get_line`, `write_str` | `PipeRouter` (per character), `SharedRouter` (one step) |
| `os_cp` (`a.c`, `b.c`, `c.c`, `io.c`) | four pipes, three processes, B's stdout buffer | relay a line, count it twice, acknowledge, stop | `RelayPipeline`; promise: `LineRelay` |
| `os_exercise_03` (`matrix.c`, `main.c`) | three matrices, threads | product by blocks of rows | `MatrixProduct` |
| `os_exercise_03` reader and writer (`io.c`), `test.c` | - | read and print numbers | not modelled |
| `os_exercise_05` | two function pointers | derivative, Pi, switch | not modelled |
| `os_exercise_01`, reports, build files | - | - | not modelled: no program |

How the parts interact. Each exercise is a program of its own. In 06 a tree of processes
exchanges messages over PUB/SUB sockets: a task published by the server reaches every
child, which handles it or publishes it to its own children, and answers travel back the
same way. In 04 the parent hands lines to two children through shared memory, in 02 through
pipes. In os_cp A sends lines to C and their lengths to B; C tells B what it received and
acknowledges to A. In 03 the threads of one process write to one matrix.

What is hard in 06: connections are made in the background, messages published before
that are lost, also the last message of a node that ends; the server reads exactly one
message per question and looks at no type; a node can end by a remove, by a signal or by
`kill -9` between any two steps; nothing ever forgets a child. In 04: two semaphores, neither of them a mutex, guard one buffer with a
length that both sides write; the memory object is unlinked without asking whether the
child has opened it; lines may be longer than the buffer. In 02: `fork` hands every open
descriptor on, so that a child is a writer of its sibling's pipe; text arrives in pieces. In
os_cp: a number in a pipe does not say what it is; `read_str` does not know the end of a
file; SIGTERM follows the last acknowledgement at once. In 03: no lock anywhere, and a
`pthread_create` that fails half-way.

What makes each part correct:

- 06: every command is answered; what is answered is true of the nodes that live; ids are
  unique; remove and the end of the server take the whole subtree that is connected; the
  answer to one question is never taken for the answer to another.
- 04 and 02: each line reaches the right file once, whole, filtered, in order; nobody reads
  a buffer that is being written; no process takes another's death for the end of its
  input; all three processes end.
- os_cp: lines are shown whole and in order; A never sends a second line before the first
  is acknowledged; B prints pairs of lengths of the same line, one pair for every line.
- 03: every row of the result is computed by exactly one thread, no update is lost, no
  thread outlives its data.

All hazards found are in `PROJECT.json`, with their lines and the properties about them.

## 2. The modules

```
PubSub  <-  ComputingNode  <-  MessageTree  <-  TreeInvariant  <-  MCMessageTree
                                   |   `-- MessageTreeProofs  (with TreeInvariant)  <-  TreeLemmas  <-  TreeProofs
                                   `-- INSTANCE NodeDirectory
SharedRouter  <-  MCSharedRouter,  SharedRouterProofs  (with SorterLemmas)
PipeRouter    <-  MCPipeRouter,    PipeRouterProofs    (with SorterLemmas)
     `-- both INSTANCE LineSorter
RelayPipeline <-  RelayInvariant  <-  MCRelayPipeline,  RelayPipelineProofs
     `-- INSTANCE LineRelay
MatrixProduct <-  MatrixInvariant <-  MCMatrixProduct,  MatrixProductProofs
```

(`A <- B`: B extends A.)

**`PubSub`** is what 06 takes from outside: processes and the sockets between them.
`st` is the life of a process (`free`, `forked`, `up`, `stopping`, `gone`, `killed`,
`crashed`), `subs` the endpoints it asked to connect to, `peer` the connections that exist,
`queue` what it has received and not read. An endpoint is a pair of an id and a side, as
`zmq_tools.cpp` names it; whoever binds the name later inherits its subscribers, which is
how ZeroMQ reconnects. A message is its direction, its type, its destination and the first
int of its body: all decoders of `message.cpp` read that int at the same offset, so this
is what one message can be mistaken for another by. Texts, positions and error strings are
left out. A message that was sent is emptied by the library but its header bytes stay:
`Emptied`. `Kill` cuts what a peer has not read of the victim's messages to any prefix.
`strays` is a history: the children that were not connected yet when their parent closed its
sockets (`Unheard` of `ComputingNode`).

**`ComputingNode`** is `client.cpp`. One iteration of `client_run` is one step: read a
message, handle it if it names this node or is a broadcast, pass it on if it does not name
this node. A signal (`NodeTerm`) takes effect between two iterations, however short a time
after a fork. `client_deinit` waits for nobody: its remove message reaches the children that
are connected, the others become strays.

**`MessageTree`** is `server.cpp` and the composition. `pc` says which `receive_msg` the
server is in: `parent` and `child` are the two `is_exists` of `handle_create`, `dest` that
of the other commands, `create` and `exec` the second question. A receipt is any first
message of any endpoint, or nothing if RCVTIMEO expires. Decoding what was not received
or is of another type is undefined: something is printed, or the server ends.
`ServerStop` is the end of input, SIGINT or SIGTERM, at any time, also while the child of the
last create is still starting.

**`NodeDirectory`** is the promise to the user of 06: one directory, commands one at a time,
no messages. `MessageTree` maps to it by `Tree`: a node is in the directory from its fork
until a remove is on its way to it or to a node above it.

**`SharedRouter`** is 04. The parent's `pc` walks through `main`, `run_file_process`,
`shared_buf_write` and `shared_destroy`; a child's `cpc` through `shared_connect`,
`shared_buf_read`, `filter` and `write_str`. Buffers are copied character by character,
so every interleaving of two copies is there. `sem_destroy` does nothing, as in glibc
(POSIX leaves its use here undefined). `Vowels` is the set of `is_vowel`, which differs between
04 (`aeyuio`) and 02 (`eyuio`); its loop bound is the size of a pointer, so that one byte
behind the 0 of the string in 04, two in 02, count as vowels too: they are left out.
The branch of `shared_buf_write` that finds a length of -1 cannot be reached: only
`shared_destroy`, after the last line, stores it.

**`PipeRouter`** is 02. `fds` is the descriptor table of each process, copied by `fork` and
cut by every `close`, `exit` and death; a `read` says 0 exactly when the pipe is empty and no
process at all holds a write end (`ReadEof`), a `write` to a pipe without a reader ends the
parent (`WriteKills`, SIGPIPE). The child for long lines, forked second, inherits the
parent's write end of the first pipe and keeps it. A child reads whatever is there, up to
its buffer: pieces of lines, or several lines. `GetChar` is `get_line`, one character with
the growing buffer (`cap`, and `Grown` that doubles it) per step. `pipe`, `open`, `fork`,
`exec` and the children's writes may fail. `child.c:11` has no `a` among its vowels, against the
exercise's own README, which asks for the vowels to go and shows `small` becoming `smll`: an `a`
of the input is in the file.

**`LineSorter`** is the promise of 04 and 02: of the text read that is pending for a file, one
character after the other is kept or dropped (`Sift`, as `filter` goes through its string), and
what is kept is stored in the file in order; what is dropped is a constant, to which each
router gives the set of its own `is_vowel`; a file that breaks keeps a beginning of its text
(`Break`), and the program ends when all is stored, when a file broke, or before anything
was read (`GiveUp`). Both routers map to it alike: `pending` is what the child has not looked
at yet, what is in the buffer or pipe and what the parent has of its line (`InChild`,
`InBuffer` or `pipe`, `InLine`), `kept` is the child's `bufout`.

**`RelayPipeline`** is os_cp. What is in a pipe is a sequence of numbers: a length is one, a
character is one, and whoever reads takes the next number for what it expects. `pc` values
name the point in `run` of `a.c`, in the loops of `b.c` and `c.c`. `fds` is the table of open
ends, which the `exec`ed B and C do not all close. `doomed` holds the processes SIGTERM is
on its way to, `held` what B printed but stdio has not written, `report` what is written.
`fork`, `malloc` and the output that B and C share may fail, and each of the three may be killed
at any moment (`AKilled`, `BFails`, `CFails`). A write to a pipe nobody can read from raises
SIGPIPE (`ASigpipe`, `CSigpipe`), for which no program has a handler.

**`LineRelay`** is the promise of os_cp: lines are shown one after the other, and for lines
shown, in order, two equal lengths are printed.

**`MatrixProduct`** is 03 from the call of `m_product` to the end of `main`. An element of the
result is the sequence of the terms added to it so far, and `+=` is a load and a store, so
that a lost or a doubled update would show. When a later `pthread_create` fails, `m_product`
destroys the result under the threads that run: `Stray` is what a thread may then do, and
what it does when `m_init` had no memory. `RowsPerThread`, `Threads`, `Start` and `End` are
the code's integer divisions.

**`RelayInvariant`**, **`MatrixInvariant`** and **`TreeInvariant`** hold the inductive invariants of
the proofs, as does the last part of `SharedRouter`, `PipeRouter` and `MessageTree`.

Definitions whose comment begins "A slip:" are not part of the models. They are forms a
definition would take if the code had a plausible bug; each is listed under `mutants` in
`PROJECT.json` with the property that then fails.

## 3. The runs

Ids are small naturals, pids other numbers, so that a pid in a message is told from an id
but is still an int like it. Symmetry is not used: pids are taken in a fixed order
(`FreshPid`), which loses nothing because no step looks at a pid but for equality, and the
characters differ in being dropped or not.

Runs that pass:

- `tree_commands`: three nodes in a chain, six commands of any kind, three pids in all (so
  that fork also fails), the server ending at any time. A chain of three has an inner node
  with both a parent and a child; six commands build it, take it down and build a part of
  it again. Ids are unique, the exchanges stay in step (`InStep`), an answer
  says what is the case and the second question of a command is always answered
  (`AnswersTrue`), every command ends (`Answered`), subtrees stop (`SubtreeStops`) and all
  of it implements `NodeDirectory`. The input may end right behind a create: the child that had
  not connected then is a stray, `SubtreeStops` excludes it, and it runs for ever. A deadlock is
  an error here: with nothing failing, the system stands still only when no process but strays
  is left (`AllGone`).
- `tree_failures`: the chain is built, then any two commands, while up to two nodes receive a
  signal and one is killed with `kill -9`, at any moment, right after the fork of a child too.
  The exchanges stay in step, every command ends, and whoever was connected to a parent that ended
  is told (`OrphanIsTold`) and stops (`SubtreeStops`). Whoever was not is a stray: the code leaves
  it running for ever, the run reaches it, and the two properties exclude it. Ids are not unique
  after a kill or below a stray, and there is no refinement (see below). Besides: the server
  never denies a node that is connected (`NoFalseAbsence`), messages go their way
  (`DirectionsKept`), an emptied message is not read (`EmptiedIsNotRead`), and the inductive
  invariants of the proofs (`IInv`, and until a node is killed or left behind `TreeInv`). A
  stray or a node below a killed one waits for ever, and so do the nodes of a server that
  crashed on a missing answer: stopping is allowed.
- `router_sorts`: all inputs of up to three lines of one to four characters: with limit 1 a line of
  one is short, and the buffer takes three. Three lines are enough for the buffer to be
  full, refilled and idle, with both children in every phase. A line of four is longer than
  the buffer; it is one repeated character, so that the error of `router_overlong_line`
  does not show and everything else of the second piece does. Any system call may fail.
  The program ends, so a stop is no error; `Terminates` says where else it may stop: a
  parent waits for ever for a child that died, and a child whose sibling could not be started
  for a parent that has given up. `EndsComplete` is about runs in which both were started.
- `pipes_sort`: up to three lines of one to four characters, pipes and child buffers of two,
  `get_line`'s buffer starting at two: every line longer than one makes it grow, lines of
  three or four are cut in transit, and a child finds the end of one line and the start of
  the next in one read. The characters are a consonant, a vowel that `is_vowel` knows, and the
  `a` that it does not know and keeps. Any call may fail. `EofInOrder`: neither child sees the end of its
  input before the parent ended it or died, the small child only after the large one.
  `LineFits`: room for the 0. The program ends, so stopping is allowed; `Terminates` says
  that it always does.
- `relay_lines`: up to three lines of one to three characters through pipes of two, so that a
  message is always longer than its pipe, and a stdout buffer of one pair, so that one pair is
  held back and the next written. Any of the three may fail or be killed at any moment.
  `StopAndWait`, `PairsMatch` as above. `EndlessReads` and `UnheardWrites` say what the
  inherited descriptors do when a process is missing, for each read and each write: `read_str`
  turns for ever at the end of a pipe, in A when both its children have failed, in C when A was
  killed and B has failed, in B as soon as C has ended; SIGPIPE comes only when B has failed:
  A is killed by the next length for B and C by its next length, A by a line only if C has
  failed, too, and C by an acknowledgement only if A was killed. The program ends, or waits or
  turns for ever when A was killed or C failed (each also by SIGPIPE) or C could not be started;
  stopping is allowed, and `Terminates` names the cases.
- `matrix_product`: operands with 0, 1, 3 or 4 rows and columns, one to three threads: as many
  rows as threads, fewer, a share that is cut off, and more threads than are used; sizes that do
  not match; empty matrices. malloc and `pthread_create` fail at any call. `SharedOut`: the
  rows are divided; `NoLostUpdate`, `Complete`: what is returned is the product;
  `NoneLeftBehind`. The program ends, so stopping is allowed.

Runs that show the code disagreeing with what the repository says of it (the quotations are
in `PROJECT.json` under `findings`):

- `tree_moved_node`: remove node 2 from under the server, create it under node 1, ping it,
  ping node 1. Nobody disconnects from a removed child, so the server hears the new node 2
  directly and by way of node 1; the second answer is read as the answer about node 1.
- `tree_recreated_parent`: `kill -9` node 1, create it again, create node 2 below it. The new
  node 1 binds the endpoint to which the library reconnects the old child 2, so that tasks reach
  it; but the new node 1 has never subscribed to the child's endpoint (`client.cpp:39` subscribes
  to the parent's only, `client.cpp:62-64` to those of the children it creates itself). The old
  child's answers reach nobody, `is_exists(2)` times out, and a second node 2 is created while
  the first lives.
- `tree_killed_parent`: a node is killed after its ping answer and before its create
  answer: `handle_create` decodes a message that never came.
- `tree_late_answer`: an exec answer that comes after the timeout is read as the ping
  answer of a node that never existed, because the number of occurrences found is its id.
- `router_overlong_line`: of a line longer than the buffer the child receives the beginning
  several times.
- `relay_lost_count`: one line; SIGTERM reaches B before it has printed the line's lengths.

### Bounds and assumptions

- 06: `Menu`: how many commands are typed and which; `Pids`: how many processes there can
  ever be (a process that ended keeps its pid, as the code never waits for children);
  `MaxTerms`, `MaxKills`: signals and kills; `MaxKept`: the longest prefix that survives a
  kill; `Counts`: how many occurrences an exec can find (0, and one more that is also an id).
- `Hasty = FALSE`: a node handles the next message only when all connections under way are made
  (they are made within a fraction of a millisecond on a machine that is not overloaded),
  and the user types the next command when the tree has come to rest. Neither the signals nor
  the end of the input wait for anything: a child that is not connected when its parent ends
  (`client.cpp:63`, `server.cpp:35`) becomes a stray in these runs too. The theorems of
  `MessageTreeProofs` hold with `Hasty` either way, those of `TreeProofs` assume it FALSE.
- `Slow = FALSE`: RCVTIMEO, a second, does not expire while a message is still in the tree.
  `tree_late_answer` sets it. Here too only the theorems of `TreeProofs` assume it FALSE.
- Ids are natural: the user does not type -1 or -2, which the code reserves and accepts.
- Each iteration of `client_run`, with the one or two messages it sends, is atomic.
- `Limit`, `BufSize`, `FirstCap`, `PipeSize`, `StdioSize` are 10, 1024 (the
  shared buffer, and the children's of 02) and 4 in the code, 65536 and 4096 bytes in the system; small values make every boundary be met within a few characters.
- A line ends with its newline, which `get_line` keeps, so no line is empty.
- 03: `Sizes` and `MaxThreads` together cover a rest of 0, 1 and 2 in both roundings;
  `max_threads` of 0 (the code does not check it) divides by zero and is left out, and so are
  sizes near INT_MAX, where the sum of `matrix.c:91` overflows: the model's integers do not.
- `exec` does not fail in 06 and os_cp: the copy would go on as a second parent.

### Fairness

`FairSpec` of `MessageTree`: every process that has something to do is eventually scheduled
(`NodeInit`, `NodeStep` for each endpoint - `zmq_recv` takes from its pipes in turn -,
`NodeStop`), the library's thread makes each connection (`Link`), and the server's
`receive_msg` returns, for a message or for RCVTIMEO. Nothing is assumed of the user, of
the signals or of kill. In `SharedRouter`, `PipeRouter` and `RelayPipeline` each process is
scheduled whenever it is not blocked in `sem_wait`, `waitpid`, `read` or `write`, and a signal
that was sent arrives; failures, being alternatives of a process's own step, are never
assumed. In `MatrixProduct` main goes on when it can, and some thread when one can: nothing
says which, the loops need no more.

## 4. The proofs

Each component has its proofs in a module of its own, on the same plan: an inductive
invariant `IInv`, a lemma for each conjunct or each action, `Spec => []IInv` as the theorem
`Invariance`, and the other theorems from it. They assume what the modules' ASSUMEs
say of the constants (`PubSubAssumption`, `ComputingNodeAssumption`, `MessageTreeAssumption`,
`SharedRouterAssumption`, `PipeRouterAssumption`, `RelayAssumption`, `MatrixAssumption`): any
number of nodes, lines, threads, any sizes, failures allowed. Two hypotheses are added, each
in the statement of the theorems that need it and each with a run that shows the theorem false
without it: `Orderly`, in `TreeProofs`, and `NoLongLine`, for one theorem of `SharedRouterProofs`.

`MessageTreeProofs`, with `Hasty` and `Slow` either way:

- `TypeCorrect`: every variable keeps its type;
- `TasksDownAnswersUp`: what waits for a process on its parent's endpoint is a task, on a
  child's endpoint an answer. As a node passes a message on by its direction, no message
  can circle in the tree;
- `EmptiedNeverRead`: `handle_remove` changes the destination of the message it was given,
  so `client_run` sends the emptied message once more. No running node ever reads it;
- `OrphansTold`: until the first `kill -9`, a node whose parent has ended has the remove in a
  queue, unless it is a stray. Nothing is assumed of the user, of the timing or of when
  signals come. Its invariant `AreTold` includes children that have not started yet; a step
  either leaves everybody told who was (`LeavesTold`), or it is a `Deinit`, which publishes to
  all who are connected and makes strays of the rest.

The invariant: types; every process that exists has an id and a parent that was a process
(`Lineage`, for the ids in endpoint names and in create messages); `DirectionsKept`; and
`RemoveComesFirst`, the strengthening for the third theorem: in every queue of a process
that may still read, an emptied message has a broadcast remove before it. That is inductive
because a kill keeps prefixes, reading drops the first message and a process that reads the
remove does not read again.

`TreeProofs` is about what the user of the tree sees. Its theorems assume `Orderly`: the user is
not hasty, RCVTIMEO does not expire with an answer under way (`tree_late_answer`), and the menu
creates every id below one parent only and in no circle (`tree_moved_node`). The first
four speak of behaviours up to the first `kill -9` (`tree_recreated_parent`, `tree_killed_parent`)
and up to the first stray: a stray keeps its id while the tree has lost it, so that its id can be
created anew beside it, as in `tree_recreated_parent`. Nodes may be removed and created again,
receive signals at any moment, and `fork` may fail. The last four speak of behaviours in which
no node receives a signal either: a node that stops by itself between two questions of one
command is, for the server, as good as killed. There a stray only comes from the end of the
input, when nothing is asked any more, and needs no hypothesis.

- `NodesUnique`: no two live processes have the same id;
- `ExchangesInStep`: what waits for the server is nothing, or the one answer to the question it
  asked last, although `receive_msg` reads one message and looks at no type;
- `NeverDenied`: "Parent not found", "Not found" and a create follow only when no process that
  can be reached through live ones has the id;
- `TreeInvariance`, from which they follow: `TreeInv` of `TreeInvariant`;
- `TrueAnswers`: a ping answer on its way names a node that lives, a create answer carries -1
  exactly if no node was made, the exec or create behind a positive ping is answered, and a
  remove that has not yet reached a node is in a queue above it;
- `ServerOutlives`: `handle_create` and `handle_exec`, which ignore the result of `receive_msg`,
  never decode a message that did not come;
- `NobodyImagined`: a ping is answered "Ok" only if a process has the id;
- `DirectoryImplemented`: the refinement. The whole of it, processes, messages, timeouts, forks
  that fail and the end of the input, implements `NodeDirectory`.

`TreeInv` has three layers. `Shape`: every process hangs where its id belongs and in the
end from the server (`Family`, `Anchored`, `Distinct`), and subscribes to its parent's and its
children's names only, so that whoever binds such a name again is a neighbour in the tree too
(`Subscribed`, `Linked`). `Exchange`: PUB/SUB sends a question to every child, but at most one
copy in the whole tree counts, the one in the queue of the destination or of a node above it,
or, later, the answer on its way up; all others are with nodes from which the destination cannot be
reached (`OneCharge`). That copy is the question asked last or its answer (`Current`), and it is
not lost while the destination can be reached (`Delivered`): so an exchange that ends without an
answer ends truthfully, and one with an answer leaves nothing behind. The third layer is what a
node that goes leaves behind: who hangs from it has been told or is ending (`TellsAll`,
`OnlyDoomed`), a process with the id of a node's parent is that parent (`OwnParent`), and an id is
only created anew when no live node has it or hangs from it (`NewId`); what is not connected yet
was created last (`AllJoined`). `Anc`, the relation "is above", is defined by closed sets of ids
rather than by recursion, and `TreeLemmas` proves what is needed of it: it is transitive, two ids above a third
are one above the other, and below a node the way to a destination is by one child.

`AnswersTrue` adds what the messages mean. A node that stops for a remove does so when everybody
is connected (`Paused`), hence leaves no stray. While a command is under way nobody ends and no
remove is under way (`Standing`): the last command was a create, a question, or a remove that has come to
rest. So whoever lives can be reached, and a question to a node that lives is not lost
(`Delivered`, above); hence no answer means no node, and a ping answer means one (`Truthful`).
The second question of a command goes to a node that answered the first (`Known`). For the
directory a remove takes effect at once, though it needs a while to reach its node: `Tree` is
made of the nodes that no remove in a queue names and that hang from such nodes only. A copy
that went astray counts there too, until it is dropped; `RemoveFinds` says that one copy is then
still above the node, so that no node comes back into the tree. Steps of the code then
map to the directory's: reading a command is `Ask`; an unanswered first ping of a create is `Refuse`;
a positive second one `Refuse`, a negative one `Fail` or `Create` where the server itself forks;
the `fork` in a node `Grow`; a create answer `Fail` or `Announce`; the answer to the ping of an
exec, remove or ping, or its absence, `Miss`, `Hit` or, before an exec, nothing; an exec answer `Hit`; the
end of the server `Close`; all other steps, of nodes, connections and messages, change
nothing that the directory sees.

`SharedRouterProofs`:

- `HandedOver`: parent and child are never in the buffer together;
- `NoTornRead`: what a child reads is what the parent wrote, does not change under it, and
  is input, never the zeros of a fresh object or what a longer line left behind;
- `NobodyLeftBehind`: when the parent ends, having started both children, none is left, and a child that lost the race
  with `shm_unlink` had nothing to read;
- `SorterImplemented`: if no input has a line that is cut in unlike pieces (`NoLongLine`,
  needed as `router_overlong_line` shows), the program implements `LineSorter`, whatever fails.

The invariant is that the two semaphores of a channel are one token (`OneToken`): it is in
one of them or with the process between its `sem_wait` and its `sem_post`. With it go
`Started` (children are forked in order), `LineHeld` (the parent copies from within its
line), `Filled` (a buffer with a length holds characters of the input, and the parent
finds the length 0) and `Endings` (how far the two channels have been closed); for the refinement
`Sent`, `Unused`, `InputRead` and `Filtering`: a child that may read finds a piece of the line or the
end, nothing is in a buffer or a file before the first line, none is left to read at the end.

`PipeRouterProofs`:

- `EndOfInputInOrder`: a child's `read` says 0 only when the parent has closed its pipe or has
  ended, to the small child only after the large one has ended; SIGPIPE means a child that failed;
- `RoomForTheZero`: `get_line`'s buffer always has a byte for the 0;
- `SorterImplemented`: the program implements `LineSorter`, for lines of any length in pieces of
  any size.

The invariant ties the parent's place to what it has read (`InHand`), to whom it has forked
(`Forked`) and to who holds which end (`Descriptors`): as long as the parent reads and writes it
holds both write ends, and a large child that lives holds the small one's. For the refinement
`Unused`, `Closing` and `Filtering` say that nothing is in the pipes before the first line and
that a child that ended well has left nothing in its pipe.

In both refinements a step moves text from one place to the next, or takes its first character:
`SorterLemmas` has these facts about sequences, so that the lemma of each action only says
which piece is which.

`RelayPipelineProofs`:

- `OneLineAtATime`, `LengthsOfOneLine`: as in `relay_lines`, whoever fails or is killed;
- `ReadsEnd`, `WritesAreRead`: `EndlessReads` and `UnheardWrites`, that is, whose failures it takes
  for each read to turn at the end of a pipe and for each write to raise SIGPIPE;
- `RelayImplemented`: the refinement. Every initial state of `RelayPipeline` is one of
  `LineRelay`, every step is a `Show`, a `Count`, an `End` or a stutter.

The invariant says what is in the four pipes: of the line under way C has a beginning, the
pipe the next part and A the rest (`UnderWay`); an acknowledgement in the pipe is for the line
A waits for (`Acknowledged`); each of B's pipes holds the lengths of consecutive lines, from the one
B reads next (`Lengths`, `Counts`); and who holds which end (`Descriptors`).

`MatrixProductProofs`:

- `RowsSharedOut`: for any number of rows and any number of threads the integer divisions of
  `m_product` give every row to exactly one thread, none beyond the last, each thread at least one;
- `NothingLost` and `ProductComplete`: no update of an element is lost, and a returned matrix is
  the whole product;
- `ThreadsJoined`: when the result is returned no thread is at work on it, nor ever after.

The invariant says how far each thread is within its own rows (`Place`) and that an element
holds the terms of the one thread that has its row, up to where it is (`FilledBy`). That the
rows are disjoint, a lemma about the divisions, is what makes a store by one thread leave all the others'
elements alone; no order of the threads is assumed.

Only model-checked: liveness (`Answered`, `SubtreeStops`, the four `Terminates`), because fairness
and ENABLED are beyond the prover. Every invariant, action property and refinement of the passing
runs is proved.

## 5. Not modelled, and why

- `os_exercise_05`: one sequential loop that reads a number and calls a library's
  function. A failed `dlopen` or `dlsym` ends it at once; what it computes is floating point.
- `os_exercise_03/src/io.c`, `main.c`'s reading of the operands, `test.c`: sequential text
  reading and formatting by one thread before and after the product. Floating-point values are
  not modelled: an element is the terms it is the sum of.
- `message.cpp`'s layout of bytes and texts; ids -1 and -2; the error strings.
- A failing `realloc` in `get_line` and a short `write` to a file in 02 and 04: what follows a short write
  is the same text again, and after a failed `realloc` memory beyond the buffer, which the code does not define.
- `exec` failing in 06 and os_cp, and a signal handler of 06 that interrupts a library call.
- The bytes `is_vowel` compares with beyond its string.
- Reports, images, build files, generated tests.

Next would come: the reader of `os_exercise_03`, which after a failed `read` reads on behind its buffer.
