----------------------------- MODULE PipeRouterProofs -----------------------------
(*********************************************************************************)
(* For every input, buffer size and pipe size, whatever call fails: the children  *)
(* of os_exercise_02 take nothing but the end of the input for the end of their   *)
(* pipe, although one of them inherits the other's, and get_line's buffer always  *)
(* has room for the 0.                                                            *)
(*********************************************************************************)
EXTENDS PipeRouter, SorterLemmas, TLAPS

USE PipeRouterAssumption DEF Channels

\* What there is to know of the input's lines.
LEMMA FirstLine ==
  ASSUME todo \in Seq(Lines), todo # <<>>
  PROVE  /\ Head(todo) \in Seq(Chars) /\ Tail(todo) \in Seq(Lines)
         /\ Len(Head(todo)) \in Nat \ {0}
         /\ \A k \in 1 .. Len(Head(todo)) : Head(todo)[k] \in Chars
<1>1. Head(todo) \in Lines /\ Tail(todo) \in Seq(Lines)
  OBVIOUS
<1>2. Head(todo) \in Seq(Chars) /\ Head(todo) # <<>>
  BY <1>1 DEF Lines
<1> QED  BY <1>1, <1>2

\* What get_line has after one more character.
LEMMA OneMore ==
  ASSUME line \in Seq(Chars), NEW ch \in Chars
  PROVE  /\ Append(line, ch) \in Seq(Chars) /\ Len(line) \in Nat
         /\ Len(Append(line, ch)) = Len(line) + 1
OBVIOUS

\* One more character of a line, behind what has been read of it.
LEMMA OneMoreOf ==
  ASSUME NEW text \in Seq(Chars), NEW read \in Seq(Chars), Len(read) < Len(text),
         read = SubSeq(text, 1, Len(read)), NEW more, more = Append(read, text[Len(read) + 1])
  PROVE  more = SubSeq(text, 1, Len(more))
<1>1. /\ Len(read) \in Nat /\ Len(text) \in Nat /\ Len(read) + 1 \in 1 .. Len(text)
      /\ text[Len(read) + 1] \in Chars
  OBVIOUS
<1>2. more \in Seq(Chars) /\ Len(more) = Len(read) + 1
  BY <1>1
<1>3. more = read \o <<text[Len(read) + 1]>>
  BY <1>1, AppendIsConcat
<1>4. SubSeq(text, 1, Len(read) + 1) = SubSeq(text, 1, Len(read)) \o <<text[Len(read) + 1]>>
  BY <1>1, SubSeqRecursiveSecond
<1> QED  BY <1>2, <1>3, <1>4

LEMMA InitHolds == Init => IInv
<1> SUFFICES ASSUME Init PROVE IInv
  OBVIOUS
<1>1. TypeOK
  <2>1. <<>> \in Seq(Chars) /\ Len(<<>>) = 0 /\ todo \in Seq(Lines) /\ cap \in Nat
    BY DEF Init
  <2>2. line \in Seq(Chars) /\ left \in 0 .. Len(line)
    BY <2>1 DEF Init
  <2>3. /\ pipe \in [Channels -> Seq(Chars)] /\ bufin \in [Channels -> Seq(Chars)]
        /\ bufout \in [Channels -> Seq(Chars)] /\ file \in [Channels -> Seq(Chars)]
        /\ pos \in [Channels -> Nat]
    BY <2>1 DEF Init
  <2>4. fds \in [Procs -> SUBSET Ends]
    BY DEF Init
  <2> QED  BY <2>1, <2>2, <2>3, <2>4 DEF Init, TypeOK
<1>2. LineFits /\ InHand /\ Forked /\ Descriptors /\ EofInOrder /\ Unused /\ Closing /\ Filtering
  BY DEF Init, LineFits, InHand, Forked, Descriptors, EofInOrder, Ended, Unused, Closing, Filtering
<1> QED  BY <1>1, <1>2 DEF IInv

\* GetChar is the only step that fills the buffer, and it doubles it in time.
LEMMA GetCharStep ==
  ASSUME IInv, GetChar
  PROVE  /\ line' \in Seq(Chars) /\ cap' \in Nat /\ left' \in 0 .. Len(line')
         /\ Len(line') < cap' /\ todo' \in Seq(Lines) /\ chan' \in Channels
         /\ pc = "read" /\ pc' \in {"read", "write"}
         /\ pc' = "read" => /\ todo' = todo /\ Len(line') < Len(Head(todo)) /\ chan' = chan
                            /\ line' = SubSeq(Head(todo), 1, Len(line'))
         /\ pc' = "write" => /\ left' = Len(line') /\ left' > 0 /\ line' = Head(todo)
                             /\ todo' = Tail(todo) /\ chan' = FileFor(Len(line'))
<1>0. TypeOK /\ LineFits /\ InHand
  BY DEF IInv
<1>1. /\ todo \in Seq(Lines) /\ line \in Seq(Chars) /\ cap \in Nat /\ left \in 0 .. Len(line)
      /\ pc = "read" /\ todo # <<>> /\ Len(line) < Len(Head(todo)) /\ Len(line) < cap
      /\ Len(line) \in Nat
  BY <1>0 DEF GetChar, TypeOK, InHand, LineFits
<1>h. /\ line = SubSeq(Head(todo), 1, Len(line)) /\ Head(todo) \in Seq(Chars)
      /\ line' = Append(line, Head(todo)[Len(line) + 1])
  BY <1>0, <1>1, FirstLine DEF InHand, GetChar
<1>2. Head(todo)[Len(line) + 1] \in Chars /\ Len(Head(todo)) \in Nat
  <2>1. Len(line) + 1 \in 1 .. Len(Head(todo))
    BY <1>1, FirstLine
  <2> QED  BY <1>1, <2>1, FirstLine
<1>3. line' \in Seq(Chars) /\ Len(line') = Len(line) + 1
  BY <1>1, <1>2, OneMore DEF GetChar
<1>4. cap' \in Nat /\ Len(line') < cap'
  <2>1. cap' = IF Len(line') >= cap THEN 2 * cap ELSE cap
    BY DEF GetChar, Grown
  <2> QED  BY <1>1, <1>3, <2>1
<1>5. line' = SubSeq(Head(todo), 1, Len(line'))
  BY <1>1, <1>2, <1>3, <1>h, FirstLine, OneMoreOf
<1>6. Tail(todo) \in Seq(Lines) /\ chan \in Channels
  BY <1>0, <1>1, FirstLine DEF TypeOK
<1>7. CASE Len(line') < Len(Head(todo)) /\ todo' = todo /\ left' = left /\ pc' = pc /\ chan' = chan
  <2>1. left' \in 0 .. Len(line')
    BY <1>1, <1>3, <1>7
  <2> QED  BY <1>1, <1>3, <1>4, <1>5, <1>6, <1>7, <2>1
<1>8. CASE /\ Len(line') = Len(Head(todo)) /\ todo' = Tail(todo) /\ left' = Len(line')
           /\ pc' = "write" /\ chan' = FileFor(Len(line'))
  <2>1. left' \in 0 .. Len(line') /\ left' > 0 /\ chan' \in Channels
    BY <1>1, <1>3, <1>8 DEF FileFor
  <2>2. line' = Head(todo)
    BY <1>5, <1>8, <1>h, NothingAdded
  <2> QED  BY <1>1, <1>3, <1>4, <1>6, <1>8, <2>1, <2>2
<1> QED  BY <1>7, <1>8 DEF GetChar, ToWrite

\* WriteChar hands on one character of the line, and the last one ends it.
LEMMA WriteCharStep ==
  ASSUME IInv, WriteChar
  PROVE  /\ line' \in Seq(Chars) /\ cap' \in Nat /\ left' \in 0 .. Len(line')
         /\ Len(line') < cap' /\ pipe' \in [Channels -> Seq(Chars)]
         /\ pc = "write" /\ pc' \in {"read", "write"} /\ todo' = todo /\ chan' = chan
         /\ pc' = "read" => line' = <<>>
         /\ pc' = "write" => left' > 0
<1>0. TypeOK /\ LineFits
  BY DEF IInv
<1>1. /\ line \in Seq(Chars) /\ cap \in Nat /\ left \in 0 .. Len(line) /\ Len(line) \in Nat
      /\ Len(line) < cap /\ pc = "write" /\ chan \in Channels /\ todo' = todo /\ chan' = chan
      /\ pipe \in [Channels -> Seq(Chars)]
  BY <1>0 DEF WriteChar, TypeOK, LineFits
<1>2. left \in 1 .. Len(line)
  BY <1>1 DEF WriteChar
<1>3. pipe' \in [Channels -> Seq(Chars)]
  <2>1. Len(line) - left + 1 \in 1 .. Len(line)
    BY <1>1, <1>2
  <2>2. line[Len(line) - left + 1] \in Chars
    BY <1>1, <2>1
  <2>3. Append(pipe[chan], line[Len(line) - left + 1]) \in Seq(Chars)
    BY <1>1, <2>2
  <2> QED  BY <1>1, <2>3 DEF WriteChar
<1>4. CASE left > 1 /\ left' = left - 1 /\ UNCHANGED <<line, cap, pc>>
  BY <1>1, <1>2, <1>3, <1>4
<1>5. CASE left = 1 /\ left' = 0 /\ line' = <<>> /\ cap' = FirstCap /\ pc' = "read"
  <2>1. <<>> \in Seq(Chars) /\ Len(<<>>) = 0 /\ FirstCap \in Nat /\ 0 < FirstCap
    OBVIOUS
  <2> QED  BY <1>1, <1>3, <1>5, <2>1
<1> QED  BY <1>4, <1>5 DEF WriteChar

\* What a child takes, filters and writes are characters.
LEMMA ChildText ==
  ASSUME TypeOK, NEW c \in Channels, ChildNext(c)
  PROVE  /\ pos' \in [Channels -> Nat] /\ bufout' \in [Channels -> Seq(Chars)]
         /\ file' \in [Channels -> Seq(Chars)]
<1>0. /\ pos \in [Channels -> Nat] /\ bufout \in [Channels -> Seq(Chars)]
      /\ file \in [Channels -> Seq(Chars)] /\ bufin[c] \in Seq(Chars)
      /\ bufout[c] \in Seq(Chars) /\ file[c] \in Seq(Chars) /\ pos[c] \in Nat
  BY DEF TypeOK
<1>1. CASE Exec(c) \/ ReadEof(c)
  BY <1>0, <1>1 DEF Exec, ReadEof
<1>2. CASE ReadPipe(c)
  <2>1. <<>> \in Seq(Chars)
    OBVIOUS
  <2> QED  BY <1>0, <1>2, <2>1 DEF ReadPipe
<1>3. CASE Filter(c)
  <2>1. bufin[c][pos[c] + 1] \in Chars
    BY <1>0, <1>3 DEF Filter
  <2>2. Append(bufout[c], bufin[c][pos[c] + 1]) \in Seq(Chars)
    BY <1>0, <2>1
  <2> QED  BY <1>0, <1>3, <2>2 DEF Filter
<1>4. CASE WriteFile(c)
  <2>1. file[c] \o bufout[c] \in Seq(Chars)
    BY <1>0
  <2>2. \A n \in 0 .. Len(bufout[c]) - 1 : file[c] \o SubSeq(bufout[c], 1, n) \in Seq(Chars)
    <3> TAKE n \in 0 .. Len(bufout[c]) - 1
    <3>1. SubSeq(bufout[c], 1, n) \in Seq(Chars)
      BY <1>0, CutInTwo
    <3> QED  BY <1>0, <3>1
  <2>3. file' = [file EXCEPT ![c] = file[c] \o bufout[c]]
        \/ \E n \in 0 .. Len(bufout[c]) - 1 :
             file' = [file EXCEPT ![c] = file[c] \o SubSeq(bufout[c], 1, n)]
    BY <1>4 DEF WriteFile
  <2>4. \E t \in Seq(Chars) : file' = [file EXCEPT ![c] = t]
    BY <2>1, <2>2, <2>3
  <2>5. file' \in [Channels -> Seq(Chars)]
    BY <1>0, <2>4
  <2>6. UNCHANGED <<pos, bufout>>
    BY <1>4 DEF WriteFile
  <2> QED  BY <1>0, <2>5, <2>6
<1> QED  BY <1>1, <1>2, <1>3, <1>4 DEF ChildNext

\* Every action, taken from a state of the invariant, keeps the types, the room in the
\* buffer and what the parent has in hand.
LEMMA TypeStep ==
  ASSUME IInv, [Next]_vars PROVE TypeOK' /\ LineFits' /\ InHand'
<1>0. TypeOK /\ LineFits /\ InHand
  BY DEF IInv
<1>f. /\ fds \in [Procs -> SUBSET Ends] /\ "parent" \in Procs /\ Channels \subseteq Procs
      /\ \A c \in Channels : R(c) \in Ends /\ W(c) \in Ends
  BY <1>0 DEF TypeOK, Procs, Ends, R, W
<1>1. CASE StartChild \/ StartFails
  <2>1. fds' \in [Procs -> SUBSET Ends] /\ pc = "start"
    <3>1. chan \in Channels /\ R(chan) \in Ends /\ W(chan) \in Ends /\ fds["parent"] \subseteq Ends
      BY <1>0, <1>f DEF TypeOK
    <3> QED  BY <1>f, <1>1, <3>1 DEF StartChild, StartFails
  <2>2. pc' \in {"start", "check"} /\ chan' \in Channels
    BY <1>0, <1>1 DEF StartChild, StartFails, StartNext, TypeOK
  <2>3. cpc' \in [Channels -> {"none", "forked", "read", "filter", "done", "failed"}]
    BY <1>0, <1>1 DEF StartChild, StartFails, TypeOK, child
  <2>4. bad' \in BOOLEAN /\ UNCHANGED <<todo, line, cap, left, pipe, bufin, pos, bufout, file>>
    BY <1>0, <1>1 DEF StartChild, StartFails, TypeOK, child
  <2> QED  BY <1>0, <2>1, <2>2, <2>3, <2>4 DEF TypeOK, LineFits, InHand
<1>2. CASE Exit \/ WriteKills \/ Close
  <2>1. fds' \in [Procs -> SUBSET Ends]
    BY <1>f, <1>2 DEF Exit, WriteKills, Close, CloseAll
  <2> QED  BY <1>0, <1>2, <2>1 DEF Exit, WriteKills, Close, TypeOK, LineFits, InHand, child
<1>3. CASE Started
  <2>1. pc = "check" /\ pc' = "read" /\ UNCHANGED <<todo, line, cap, left, chan, bad, pipe, fds, child>>
    BY <1>3 DEF Started
  <2>2. todo # <<>> => Len(line) < Len(Head(todo)) /\ line = SubSeq(Head(todo), 1, Len(line))
    <3>1. line = <<>> /\ Len(<<>>) = 0 /\ todo \in Seq(Lines)
      BY <1>0, <2>1 DEF InHand, TypeOK
    <3> QED  BY <3>1, FirstLine, NothingAdded
  <2> QED  BY <1>0, <2>1, <2>2 DEF TypeOK, LineFits, InHand, child
<1>4. CASE GetChar
  BY <1>0, <1>4, GetCharStep DEF GetChar, TypeOK, LineFits, InHand, child
<1>5. CASE GetEnd \/ Reap
  <2>1. chan' \in Channels
    BY <1>0, <1>5 DEF GetEnd, Reap, FirstClosed, TypeOK
  <2> QED  BY <1>0, <1>5, <2>1 DEF GetEnd, Reap, TypeOK, LineFits, InHand, child
<1>6. CASE WriteChar
  <2>1. pc' = "read" /\ todo # <<>> =>
          Len(line') < Len(Head(todo)) /\ line' = SubSeq(Head(todo), 1, Len(line'))
    <3>1. todo \in Seq(Lines) /\ Len(<<>>) = 0
      BY <1>0 DEF TypeOK
    <3> QED  BY <1>6, <3>1, WriteCharStep, FirstLine, NothingAdded
  <2>2. /\ line' \in Seq(Chars) /\ cap' \in Nat /\ left' \in 0 .. Len(line')
        /\ Len(line') < cap' /\ pipe' \in [Channels -> Seq(Chars)]
        /\ pc = "write" /\ pc' \in {"read", "write"} /\ todo' = todo /\ chan' = chan
        /\ pc' = "write" => left' > 0
    BY <1>6, WriteCharStep
  <2>3. UNCHANGED <<bad, fds, child>>
    BY <1>6 DEF WriteChar
  <2> QED  BY <1>0, <2>1, <2>2, <2>3 DEF TypeOK, LineFits, InHand, child
<1>7. ASSUME NEW c \in Channels, ChildNext(c) PROVE TypeOK' /\ LineFits' /\ InHand'
  <2>1. fds' \in [Procs -> SUBSET Ends]
    BY <1>f, <1>7 DEF ChildNext, Exec, ReadPipe, ReadEof, Filter, WriteFile, CloseAll
  <2>2. cpc' \in [Channels -> {"none", "forked", "read", "filter", "done", "failed"}]
    BY <1>0, <1>7 DEF ChildNext, Exec, ReadPipe, ReadEof, Filter, WriteFile, TypeOK
  <2>3. pipe' \in [Channels -> Seq(Chars)] /\ bufin' \in [Channels -> Seq(Chars)]
    <3>1. CASE ReadPipe(c)
      <4>1. pipe[c] \in Seq(Chars) /\ Len(pipe[c]) \in Nat /\ Available(c) \in 0 .. Len(pipe[c])
        BY <1>0 DEF TypeOK, Available
      <4>2. /\ SubSeq(pipe[c], 1, Available(c)) \in Seq(Chars)
            /\ SubSeq(pipe[c], Available(c) + 1, Len(pipe[c])) \in Seq(Chars)
        BY <4>1
      <4> QED  BY <1>0, <3>1, <4>2 DEF ReadPipe, TypeOK
    <3>2. CASE Exec(c) \/ ReadEof(c) \/ Filter(c) \/ WriteFile(c)
      BY <1>0, <3>2 DEF Exec, ReadEof, Filter, WriteFile, TypeOK
    <3> QED  BY <1>7, <3>1, <3>2 DEF ChildNext
  <2>4. /\ pos' \in [Channels -> Nat] /\ bufout' \in [Channels -> Seq(Chars)]
        /\ file' \in [Channels -> Seq(Chars)]
    BY <1>0, <1>7, ChildText DEF TypeOK
  <2>5. UNCHANGED parent
    BY <1>7 DEF ChildNext, Exec, ReadPipe, ReadEof, Filter, WriteFile
  <2> QED  BY <1>0, <2>1, <2>2, <2>3, <2>4, <2>5 DEF TypeOK, LineFits, InHand, parent
<1>8. CASE UNCHANGED vars
  BY <1>0, <1>8 DEF vars, parent, child, TypeOK, LineFits, InHand
<1> QED
  BY <1>1, <1>2, <1>3, <1>4, <1>5, <1>6, <1>7, <1>8 DEF Next, ParentNext

\* Which children there are, at any moment of the start.
LEMMA ForkedStep == ASSUME IInv, [Next]_vars PROVE Forked'
<1>0. TypeOK /\ Forked
  BY DEF IInv
<1>1. CASE StartChild \/ StartFails
  BY <1>0, <1>1 DEF StartChild, StartFails, StartNext, TypeOK, Forked, child
<1>2. CASE \/ Exit \/ Started \/ GetChar \/ GetEnd \/ WriteChar \/ WriteKills \/ Close
           \/ Reap \/ UNCHANGED vars
  BY <1>0, <1>2 DEF Exit, Started, GetChar, GetEnd, WriteChar, WriteKills, Close, Reap, vars,
                    parent, child, TypeOK, Forked
<1>3. ASSUME NEW c \in Channels, ChildNext(c) PROVE Forked'
  <2>1. UNCHANGED <<pc, chan, bad>> /\ \A d \in Channels : cpc'[d] = "none" <=> cpc[d] = "none"
    BY <1>0, <1>3 DEF ChildNext, Exec, ReadPipe, ReadEof, Filter, WriteFile, TypeOK, parent
  <2> QED  BY <1>0, <2>1 DEF Forked
<1> QED  BY <1>1, <1>2, <1>3 DEF Next, ParentNext

\* Who holds which ends: what a fork hands on, and what is closed before an exec.
LEMMA DescriptorsStep == ASSUME IInv, [Next]_vars PROVE Descriptors'
<1>0. TypeOK /\ Forked /\ Descriptors
  BY DEF IInv
<1>f. /\ fds \in [Procs -> SUBSET Ends] /\ "parent" \in Procs /\ Channels \subseteq Procs
      /\ "parent" \notin Channels /\ chan \in Channels
      /\ \A c, d \in Channels : R(c) # W(d) /\ (W(c) = W(d) => c = d)
  BY <1>0 DEF TypeOK, Procs, R, W
<1>1. CASE StartChild
  <2>1. /\ fds'["parent"] = fds["parent"] \cup {W(chan)}
        /\ fds'[chan] = fds["parent"] \cup {R(chan), W(chan)}
        /\ \A c \in Channels \ {chan} : fds'[c] = fds[c]
        /\ cpc'[chan] = "forked" /\ \A c \in Channels \ {chan} : cpc'[c] = cpc[c]
    BY <1>0, <1>f, <1>1 DEF StartChild, TypeOK
  <2>2. pc = "start" /\ (chan = "small" => cpc["small"] = "none") /\ cpc["large"] = "none"
    BY <1>0, <1>1 DEF StartChild, Forked
  <2>3. \A c \in Channels : cpc'[c] # "none" => W(c) \in fds'["parent"]
    BY <1>0, <2>1, <2>2 DEF Descriptors
  <2>4. \A c \in Channels : ~Ended(c)' => R(c) \in fds'[c]
    BY <1>0, <2>1 DEF Descriptors, Ended
  <2>5. cpc'["small"] # "none" /\ ~Ended("large")' => W("small") \in fds'["large"]
    BY <1>0, <1>f, <2>1, <2>2 DEF Descriptors, Ended
  <2> QED  BY <2>3, <2>4, <2>5 DEF Descriptors, Ended, R, W
<1>2. CASE \/ StartFails \/ Exit \/ Started \/ GetChar \/ GetEnd \/ WriteChar \/ WriteKills
           \/ Close \/ Reap \/ UNCHANGED vars
  <2>1. /\ cpc' = cpc /\ \A c \in Channels : fds'[c] = fds[c]
        /\ pc' \in {"start", "check", "read", "write"} =>
             pc \in {"start", "check", "read", "write"} /\ fds["parent"] \subseteq fds'["parent"]
    <3>1. CASE StartFails
      BY <1>f, <3>1 DEF StartFails, StartNext, child
    <3>2. CASE Exit \/ WriteKills \/ Close
      BY <1>f, <3>2 DEF Exit, WriteKills, Close, CloseAll, child
    <3>3. CASE Started \/ GetChar \/ GetEnd \/ WriteChar \/ Reap \/ UNCHANGED vars
      BY <3>3 DEF Started, GetChar, GetEnd, WriteChar, Reap, vars, parent, child
    <3> QED  BY <1>2, <3>1, <3>2, <3>3
  <2> QED  BY <1>0, <2>1 DEF Descriptors, Ended, R, W
<1>3. ASSUME NEW c \in Channels, ChildNext(c) PROVE Descriptors'
  <2>1. pc' = pc /\ fds'["parent"] = fds["parent"]
        /\ \A d \in Channels \ {c} : fds'[d] = fds[d] /\ cpc'[d] = cpc[d]
    BY <1>0, <1>f, <1>3
    DEF ChildNext, Exec, ReadPipe, ReadEof, Filter, WriteFile, CloseAll, TypeOK, parent
  <2>2. /\ cpc[c] # "none" /\ ~Ended(c) /\ cpc'[c] # "none"
        /\ ~Ended(c)' => fds'[c] = fds[c] \/ fds'[c] = fds[c] \ {W(c)}
    BY <1>0, <1>f, <1>3
    DEF ChildNext, Exec, ReadPipe, ReadEof, Filter, WriteFile, CloseAll, TypeOK, Ended
  <2>3. \A d \in Channels : cpc'[d] # "none" => cpc[d] # "none"
    BY <2>1, <2>2
  <2>4. \A d \in Channels : ~Ended(d)' => R(d) \in fds'[d]
    BY <1>0, <1>f, <2>1, <2>2 DEF Descriptors, Ended
  <2>5. cpc'["small"] # "none" /\ ~Ended("large")' => W("small") \in fds'["large"]
    <3>1. CASE c = "large"
      BY <1>0, <1>f, <2>1, <2>2, <2>3, <3>1 DEF Descriptors, Ended
    <3>2. CASE c # "large"
      BY <1>0, <2>1, <2>3, <3>2 DEF Descriptors, Ended
    <3> QED  BY <3>1, <3>2
  <2> QED  BY <1>0, <2>1, <2>3, <2>4, <2>5 DEF Descriptors, Ended, R, W
<1> QED  BY <1>1, <1>2, <1>3 DEF Next, ParentNext

\* A child reaches the end of its pipe only when nobody holds the write end.
LEMMA EofStep == ASSUME IInv, [Next]_vars PROVE EofInOrder'
<1>0. TypeOK /\ Forked /\ Descriptors /\ EofInOrder
  BY DEF IInv
<1>1. CASE StartChild
  <2>1. /\ pc = "start" /\ pc' \in {"start", "check"} /\ cpc'[chan] = "forked"
        /\ \A c \in Channels \ {chan} : cpc'[c] = cpc[c]
    BY <1>0, <1>1 DEF StartChild, StartNext, TypeOK
  <2> QED  BY <1>0, <2>1 DEF EofInOrder
<1>2. CASE \/ StartFails \/ Exit \/ Started \/ GetChar \/ GetEnd \/ WriteChar
           \/ Close \/ Reap \/ UNCHANGED vars
  <2>1. /\ cpc' = cpc
        /\ pc' \in {"start", "check", "read", "write"} => pc \in {"start", "check", "read", "write"}
        /\ pc' = "killed" => pc = "killed"
    BY <1>2 DEF StartFails, StartNext, Exit, Started, GetChar, GetEnd, WriteChar, Close, Reap,
                vars, parent, child
  <2> QED  BY <1>0, <2>1 DEF EofInOrder, Ended
<1>3. CASE WriteKills
  <2>1. pc = "write" /\ ~Held(R(chan)) /\ pc' = "killed" /\ cpc' = cpc /\ chan \in Channels
    BY <1>0, <1>3 DEF WriteKills, TypeOK, child
  <2>2. Ended(chan)
    BY <1>0, <2>1 DEF Descriptors, Held, Procs
  <2>3. cpc[chan] = "failed"
    BY <1>0, <2>1, <2>2 DEF Ended, Forked, EofInOrder
  <2> QED  BY <1>0, <2>1, <2>3 DEF EofInOrder, Ended
<1>4. ASSUME NEW c \in Channels, ReadEof(c) PROVE EofInOrder'
  <2>1. /\ cpc[c] = "read" /\ ~Held(W(c)) /\ cpc'[c] = "done" /\ pc' = pc
        /\ \A d \in Channels \ {c} : cpc'[d] = cpc[d]
    BY <1>0, <1>4 DEF ReadEof, TypeOK, parent
  <2>2. pc \notin {"start", "check", "read", "write"}
    BY <1>0, <2>1 DEF Descriptors, Held, Procs
  <2>3. c = "small" => Ended("large")
    BY <1>0, <2>1 DEF Descriptors, Held, Procs
  <2> QED  BY <1>0, <2>1, <2>2, <2>3 DEF EofInOrder, Ended
<1>5. ASSUME NEW c \in Channels, Exec(c) \/ ReadPipe(c) \/ Filter(c) \/ WriteFile(c)
      PROVE  EofInOrder'
  <2>1. /\ pc' = pc /\ ~Ended(c) /\ cpc'[c] # "done"
        /\ \A d \in Channels \ {c} : cpc'[d] = cpc[d]
    BY <1>0, <1>5 DEF Exec, ReadPipe, Filter, WriteFile, TypeOK, parent, Ended
  <2> QED  BY <1>0, <2>1 DEF EofInOrder, Ended
<1> QED  BY <1>1, <1>2, <1>3, <1>4, <1>5 DEF Next, ParentNext, ChildNext

\* What a step changes of a child: only its own step, ReadPipe or Filter, and the bounds.
LEMMA FilteringStep == ASSUME IInv, [Next]_vars PROVE Filtering'
<1>0. TypeOK /\ Filtering
  BY DEF IInv
<1>1. CASE child' = child
  BY <1>0, <1>1 DEF child, Filtering
<1>2. CASE StartChild
  <2>1. \A c \in Channels : cpc'[c] = "filter" => cpc[c] = "filter"
    <3>1. chan \in Channels /\ cpc'[chan] = "forked" /\ \A c \in Channels \ {chan} : cpc'[c] = cpc[c]
      BY <1>0, <1>2 DEF StartChild, TypeOK
    <3> QED  BY <3>1
  <2>2. pos' = pos /\ bufin' = bufin
    BY <1>2 DEF StartChild
  <2> QED  BY <1>0, <2>1, <2>2 DEF Filtering
<1>3. ASSUME NEW c \in Channels, ChildNext(c) PROVE Filtering'
  <2>1. pos[c] \in Nat /\ Len(bufin[c]) \in Nat
    BY <1>0 DEF TypeOK
  <2>2. \A d \in Channels \ {c} : cpc'[d] = cpc[d] /\ pos'[d] = pos[d] /\ bufin'[d] = bufin[d]
    BY <1>0, <1>3 DEF ChildNext, Exec, ReadPipe, ReadEof, Filter, WriteFile, TypeOK
  <2>3. cpc'[c] = "filter" => pos'[c] =< Len(bufin'[c])
    <3>1. CASE ReadPipe(c)
      <4>1. pipe[c] \in Seq(Chars) /\ Available(c) \in 0 .. Len(pipe[c])
        BY <1>0 DEF TypeOK, Available
      <4>2. SubSeq(pipe[c], 1, Available(c)) \in Seq(Chars)
        BY <4>1, CutInTwo
      <4>3. pos'[c] = 0 /\ bufin'[c] = SubSeq(pipe[c], 1, Available(c))
        BY <1>0, <3>1 DEF ReadPipe, TypeOK
      <4> QED  BY <4>2, <4>3
    <3>2. CASE Filter(c)
      <4>1. pos'[c] = pos[c] + 1 /\ bufin' = bufin /\ pos[c] < Len(bufin[c])
        BY <1>0, <3>2 DEF Filter, TypeOK
      <4> QED  BY <2>1, <4>1
    <3>3. CASE Exec(c) \/ ReadEof(c) \/ WriteFile(c)
      BY <1>0, <3>3 DEF Exec, ReadEof, WriteFile, TypeOK
    <3> QED  BY <1>3, <3>1, <3>2, <3>3 DEF ChildNext
  <2> QED  BY <1>0, <2>2, <2>3 DEF Filtering
<1> QED
  BY <1>1, <1>2, <1>3 DEF Next, ParentNext, vars, StartFails, Exit, Started, GetChar, GetEnd,
     WriteChar, WriteKills, Close, Reap

\* Nothing is in a pipe or a file before the first line is read.
LEMMA UnusedStep == ASSUME IInv, [Next]_vars PROVE Unused'
<1>0. TypeOK /\ Unused
  BY DEF IInv
<1>1. CASE StartChild \/ StartFails
  BY <1>0, <1>1 DEF StartChild, StartFails, StartNext, TypeOK, Unused, child
<1>2. CASE \/ Exit \/ Started \/ GetChar \/ GetEnd \/ WriteChar \/ WriteKills \/ Close \/ Reap
  <2>1. pc' \notin {"start", "check"} /\ bad' = bad
    BY <1>2 DEF Exit, Started, GetChar, GetEnd, WriteChar, WriteKills, Close, Reap
  <2> QED  BY <1>0, <2>1 DEF Unused
<1>3. ASSUME NEW c \in Channels, ChildNext(c) PROVE Unused'
  <2>0. parent' = parent
    BY <1>3 DEF ChildNext, Exec, ReadPipe, ReadEof, Filter, WriteFile
  <2>1. CASE pc \notin {"start", "check"}
    BY <1>0, <2>0, <2>1 DEF Unused, parent
  <2>2. CASE pc \in {"start", "check"}
    <3>1. pipe[c] = <<>> /\ cpc[c] \notin {"filter", "done"} /\ EofInOrder'
      BY <1>0, <1>3, <2>2, EofStep DEF Unused, Next
    <3>2. cpc'[c] \notin {"filter", "done"} /\ pipe' = pipe /\ file' = file
      BY <1>0, <1>3, <2>0, <2>2, <3>1
      DEF ChildNext, Exec, ReadPipe, ReadEof, Filter, WriteFile, TypeOK, EofInOrder, parent
    <3>3. \A d \in Channels \ {c} : cpc'[d] = cpc[d]
      BY <1>0, <1>3 DEF ChildNext, Exec, ReadPipe, ReadEof, Filter, WriteFile, TypeOK
    <3> QED  BY <1>0, <2>0, <2>2, <3>2, <3>3 DEF Unused, parent
  <2> QED  BY <2>1, <2>2
<1>4. CASE UNCHANGED vars
  BY <1>0, <1>4 DEF vars, parent, child, Unused
<1> QED  BY <1>1, <1>2, <1>3, <1>4 DEF Next, ParentNext

\* The children end one after the other, the input read and their pipes empty.
LEMMA ClosingStep == ASSUME IInv, [Next]_vars PROVE Closing'
<1>0. TypeOK /\ Closing /\ Forked /\ EofInOrder
  BY DEF IInv
<1>1. CASE StartChild \/ StartFails
  BY <1>0, <1>1 DEF StartChild, StartFails, StartNext, TypeOK, Closing, child
<1>2. CASE \/ Exit \/ Started \/ GetChar \/ GetEnd \/ WriteKills \/ Close \/ Reap \/ UNCHANGED vars
  <2>1. /\ cpc' = cpc /\ pipe' = pipe
        /\ pc' \in {"close", "reap"} => todo' = todo /\ pc \in {"read", "close", "reap"}
        /\ pc = "read" /\ pc' \in {"close", "reap"} => todo = <<>> /\ chan' = "large"
        /\ pc' \in {"close", "reap"} /\ chan' = "small" /\ pc # "read" =>
             chan = "small" \/ Ended("large")
    BY <1>0, <1>2 DEF Exit, Started, GetChar, GetEnd, WriteKills, Close, Reap, FirstClosed, vars,
                      parent, child, TypeOK
  <2> QED  BY <1>0, <2>1 DEF Closing, Forked, Ended
<1>3. CASE WriteChar
  <2>1. pc = "write" /\ pc' \in {"read", "write"} /\ cpc' = cpc
    BY <1>3 DEF WriteChar, child
  <2> QED  BY <1>0, <2>1 DEF Closing, EofInOrder
<1>4. ASSUME NEW c \in Channels, ChildNext(c) PROVE Closing'
  <2>1. /\ parent' = parent /\ ~Ended(c) /\ cpc'[c] # "none"
        /\ cpc'[c] = "done" => pipe' = pipe /\ pipe[c] = <<>>
        /\ \A d \in Channels \ {c} : cpc'[d] = cpc[d] /\ pipe'[d] = pipe[d]
    BY <1>0, <1>4 DEF ChildNext, Exec, ReadPipe, ReadEof, Filter, WriteFile, TypeOK, Ended
  <2>2. \A d \in Channels : cpc[d] # "none" => cpc'[d] # "none"
    BY <2>1
  <2>3. Ended("large") => Ended("large")'
    BY <2>1 DEF Ended
  <2> QED  BY <1>0, <2>1, <2>2, <2>3 DEF Closing, parent, Ended
<1> QED  BY <1>1, <1>2, <1>3, <1>4 DEF Next, ParentNext

\* The invariant: what is in hand, who has been forked, and who holds which ends.
LEMMA StepHolds == ASSUME IInv, [Next]_vars PROVE IInv'
BY TypeStep, ForkedStep, DescriptorsStep, EofStep, UnusedStep, ClosingStep, FilteringStep DEF IInv

THEOREM Invariance == Spec => []IInv
BY StepHolds, InitHolds, PTL DEF Spec

\* EofInOrder: read of child.c says 0 only after the input has ended or the parent has gone,
\* and to the small child, whose pipe the large one has inherited, after the large one ends.
THEOREM EndOfInputInOrder == Spec => []EofInOrder
<1>1. IInv => EofInOrder
  BY DEF IInv
<1> QED  BY <1>1, Invariance, PTL

\* LineFits: get_line of io.c never writes behind its buffer, however long the line.
THEOREM RoomForTheZero == Spec => []LineFits
<1>1. IInv => LineFits
  BY DEF IInv
<1> QED  BY <1>1, Invariance, PTL

-----------------------------------------------------------------------------------
(* The refinement: the text pending for a file is in the child, in the pipe and in *)
(* the parent's hands, in this order, and every step of a process is a step of      *)
(* LineSorter or changes none of it.                                                *)

Over == pc \in {"exit", "killed"}

LEMMA TextTypes ==
  ASSUME TypeOK, LineFits, Filtering, NEW c \in Channels
  PROVE  /\ InLine(c) \in Seq(Chars) /\ InChild(c) \in Seq(Chars) /\ pipe[c] \in Seq(Chars)
         /\ OnTheWay(c) \in Seq(Chars) /\ Output(c) \in Seq(Chars) /\ file[c] \in Seq(Chars)
<1>1. /\ line \in Seq(Chars) /\ left \in 0 .. Len(line) /\ Len(line) \in Nat
      /\ bufin[c] \in Seq(Chars) /\ pos[c] \in Nat /\ Len(bufin[c]) \in Nat
      /\ bufout[c] \in Seq(Chars) /\ pipe[c] \in Seq(Chars) /\ file[c] \in Seq(Chars)
      /\ <<>> \in Seq(Chars)
  BY DEF TypeOK
<1>2. SubSeq(line, Len(line) - left + 1, Len(line)) \in Seq(Chars)
  <2>1. Len(line) - left \in 0 .. Len(line)
    BY <1>1
  <2> QED  BY <1>1, <2>1, CutInTwo
<1>3. cpc[c] = "filter" => SubSeq(bufin[c], pos[c] + 1, Len(bufin[c])) \in Seq(Chars)
  <2> SUFFICES ASSUME cpc[c] = "filter" PROVE SubSeq(bufin[c], pos[c] + 1, Len(bufin[c])) \in Seq(Chars)
    OBVIOUS
  <2>1. pos[c] \in 0 .. Len(bufin[c])
    BY <1>1 DEF Filtering
  <2> QED  BY <1>1, <2>1, CutInTwo
<1>4. InLine(c) \in Seq(Chars) /\ InChild(c) \in Seq(Chars) /\ Output(c) \in Seq(Chars)
  BY <1>1, <1>2, <1>3 DEF InLine, InChild, Output
<1>5. OnTheWay(c) \in Seq(Chars)
  BY <1>1, <1>4 DEF OnTheWay
<1> QED  BY <1>1, <1>4, <1>5

\* A step that moves no text into or out of a piece, and ends and breaks nothing.
LEMMA Unmoved ==
  ASSUME todo' = todo, file' = file, Over' <=> Over,
         \A c \in Channels : /\ OnTheWay(c)' = OnTheWay(c) /\ Output(c)' = Output(c)
                             /\ cpc'[c] = "failed" <=> cpc[c] = "failed"
  PROVE  [Sorter!SorterNext]_(Sorter!svars)
<1>1. UNCHANGED Sorter!svars
  BY DEF Sorter!svars, Over
<1> QED  BY <1>1

\* A child that fails loses the text that was on its way to its file.
LEMMA BreakMaps ==
  ASSUME MayFail, NEW c \in Channels, cpc[c] # "failed", cpc'[c] = "failed",
         OnTheWay(c)' = <<>>, Output(c)' = <<>>, todo' = todo, Over' <=> Over,
         NEW n \in 0 .. Len(Output(c)),
         file' = [file EXCEPT ![c] = @ \o SubSeq(Output(c), 1, n)],
         \A d \in Channels \ {c} : /\ OnTheWay(d)' = OnTheWay(d) /\ Output(d)' = Output(d)
                                 /\ cpc'[d] = cpc[d]
  PROVE  Sorter!Break(c)
<1>1. /\ [d \in Channels |-> OnTheWay(d)]' = [[d \in Channels |-> OnTheWay(d)] EXCEPT ![c] = <<>>]
      /\ [d \in Channels |-> Output(d)]' = [[d \in Channels |-> Output(d)] EXCEPT ![c] = <<>>]
      /\ [d \in Channels |-> Output(d)][c] = Output(c)
  OBVIOUS
<1>2. /\ [d \in Channels |-> cpc[d] = "failed"]' = [[d \in Channels |-> cpc[d] = "failed"] EXCEPT ![c] = TRUE]
      /\ ~[d \in Channels |-> cpc[d] = "failed"][c]
  OBVIOUS
<1>3. (pc \in {"exit", "killed"})' = (pc \in {"exit", "killed"})
  BY DEF Over
<1> QED  BY <1>1, <1>2, <1>3 DEF Sorter!Break

\* The steps of the parent before it has read anything: it starts the children or gives up.
LEMMA StartMaps ==
  ASSUME IInv, StartChild \/ StartFails \/ Exit \/ Started
  PROVE  [Sorter!SorterNext]_(Sorter!svars)
<1>0. TypeOK /\ Forked /\ Unused /\ pc \in {"start", "check"} /\ todo' = todo /\ file' = file
  BY DEF IInv, StartChild, StartFails, Exit, Started, child
<1>1. \A c \in Channels : /\ InLine(c) = <<>> /\ InChild(c) = <<>> /\ pipe[c] = <<>>
                          /\ Output(c) = <<>> /\ file[c] = <<>> /\ OnTheWay(c) = <<>>
  <2>1. <<>> \o <<>> = <<>> /\ <<>> \o <<>> \o <<>> = <<>>
    OBVIOUS
  <2> QED  BY <1>0, <2>1 DEF Unused, InLine, InChild, Output, OnTheWay
<1>2. \A c \in Channels : /\ InLine(c)' = <<>> /\ InChild(c)' = <<>> /\ pipe'[c] = <<>>
                          /\ Output(c)' = <<>> /\ (cpc'[c] = "failed" <=> cpc[c] = "failed")
  <2>1. pc' # "write" /\ pipe' = pipe
    BY <1>0 DEF StartChild, StartFails, StartNext, Exit, Started
  <2>2. \A c \in Channels : cpc'[c] = cpc[c] \/ (cpc'[c] = "forked" /\ cpc[c] = "none")
    BY <1>0 DEF StartChild, StartFails, Exit, Started, child, TypeOK, Forked
  <2> QED  BY <1>0, <1>1, <2>1, <2>2 DEF InLine, InChild, Output, Unused
<1>3. \A c \in Channels : OnTheWay(c)' = <<>>
  <2>1. <<>> \o <<>> = <<>> /\ <<>> \o <<>> \o <<>> = <<>>
    OBVIOUS
  <2> QED  BY <1>2, <2>1 DEF OnTheWay
<1>4. CASE Exit
  <2>1. MayFail /\ ~Over /\ Over'
    BY <1>0, <1>4 DEF Exit, Unused, Over
  <2>2. Sorter!GiveUp
    BY <1>0, <1>1, <1>2, <1>3, <2>1 DEF Sorter!GiveUp, Over, Channels, Sorter!Channels
  <2> QED  BY <2>2 DEF Sorter!SorterNext
<1>5. CASE StartChild \/ StartFails \/ Started
  <2>1. ~Over /\ ~Over'
    BY <1>0, <1>5 DEF StartChild, StartFails, StartNext, Started, Over
  <2> QED  BY <1>0, <1>1, <1>2, <1>3, <2>1, Unmoved
<1> QED  BY <1>4, <1>5

\* The line is taken when get_line has all of it.
LEMMA ReadMaps ==
  ASSUME IInv, GetChar
  PROVE  [Sorter!SorterNext]_(Sorter!svars)
<1>0. TypeOK /\ LineFits /\ Filtering /\ todo # <<>> /\ pc = "read" /\ ~Over
  BY DEF IInv, GetChar, Over
<1>1. UNCHANGED <<pipe, child>> /\ ~Over'
  BY GetCharStep DEF GetChar, Over
<1>2. \A c \in Channels : /\ InLine(c) = <<>> /\ InChild(c)' = InChild(c) /\ pipe'[c] = pipe[c]
                          /\ Output(c)' = Output(c) /\ cpc'[c] = cpc[c]
  BY <1>0, <1>1 DEF InLine, InChild, Output, child
<1>3. CASE pc' = "read"
  <2>1. todo' = todo /\ \A c \in Channels : InLine(c)' = <<>>
    BY <1>3, GetCharStep DEF InLine
  <2>2. \A c \in Channels : OnTheWay(c)' = OnTheWay(c)
    BY <1>2, <2>1 DEF OnTheWay
  <2> QED  BY <1>0, <1>1, <1>2, <2>1, <2>2, Unmoved DEF child
<1>4. CASE pc' = "write"
  <2>0. Sorter!Target(Head(todo)) \in Channels
    BY DEF Sorter!Target
  <2>p. PICK d \in Channels : d = Sorter!Target(Head(todo))
    BY <2>0
  <2>1. /\ left' = Len(line') /\ line' = Head(todo) /\ todo' = Tail(todo)
        /\ chan' = d /\ d \in Channels /\ Head(todo) \in Seq(Chars)
    BY <1>0, <1>4, <2>p, GetCharStep, FirstLine DEF FileFor, Sorter!Target, TypeOK
  <2>2. InLine(d)' = Head(todo) /\ \A c \in Channels \ {d} : InLine(c)' = <<>>
    <3>1. SubSeq(line', Len(line') - left' + 1, Len(line')) = line'
      <4>1. Len(line') - left' + 1 = 1
        BY <2>1, NothingAdded
      <4> QED  BY <2>1, <4>1, NothingAdded
    <3> QED  BY <1>4, <2>1, <3>1 DEF InLine
  <2>3. \A c \in Channels \ {d} : OnTheWay(c)' = OnTheWay(c)
    BY <1>2, <2>2 DEF OnTheWay
  <2>4. OnTheWay(d)' = IF cpc[d] = "failed" THEN OnTheWay(d) ELSE OnTheWay(d) \o Head(todo)
    <3>1. InChild(d) \o pipe[d] \in Seq(Chars)
      BY <1>0, <2>1, TextTypes
    <3>2. (InChild(d) \o pipe[d]) \o <<>> = InChild(d) \o pipe[d]
      BY <3>1, NothingAdded
    <3> QED  BY <1>2, <2>1, <2>2, <3>2 DEF OnTheWay
  <2>5. Sorter!Take
    <3>1. (todo # <<>>) /\ todo' = Tail(todo) /\ file' = file
      BY <1>0, <1>1, <2>1 DEF child
    <3>2. [c \in Channels |-> OnTheWay(c)]' =
            IF [c \in Channels |-> cpc[c] = "failed"][d] THEN [c \in Channels |-> OnTheWay(c)]
            ELSE [[c \in Channels |-> OnTheWay(c)] EXCEPT ![d] = @ \o Head(todo)]
      BY <2>1, <2>3, <2>4
    <3>3. /\ [c \in Channels |-> Output(c)]' = [c \in Channels |-> Output(c)]
          /\ [c \in Channels |-> cpc[c] = "failed"]' = [c \in Channels |-> cpc[c] = "failed"]
      BY <1>2
    <3> QED  BY <1>0, <1>1, <2>p, <3>1, <3>2, <3>3 DEF Sorter!Take, Over
  <2> QED  BY <2>5 DEF Sorter!SorterNext
<1> QED  BY <1>3, <1>4, GetCharStep

\* A character goes from the parent's hands into the pipe.
LEMMA WriteMaps ==
  ASSUME IInv, WriteChar
  PROVE  [Sorter!SorterNext]_(Sorter!svars)
<1>0. /\ TypeOK /\ LineFits /\ Filtering /\ pc = "write" /\ pc' \in {"read", "write"}
      /\ UNCHANGED <<todo, chan, child>> /\ chan \in Channels
  BY WriteCharStep DEF IInv, WriteChar, TypeOK
<1> DEFINE k == Len(line) - left + 1
<1>1. /\ line \in Seq(Chars) /\ Len(line) \in Nat /\ left \in 1 .. Len(line) /\ k \in 1 .. Len(line)
      /\ pipe \in [Channels -> Seq(Chars)]
      /\ pipe' = [pipe EXCEPT ![chan] = Append(@, line[k])]
  BY <1>0 DEF WriteChar, TypeOK, IInv, InHand
<1>p. PICK d \in Channels : d = chan
  BY <1>0
<1>2. /\ InLine(d) = SubSeq(line, k, Len(line)) /\ InLine(d) # <<>>
      /\ Head(InLine(d)) = line[k] /\ Tail(InLine(d)) = SubSeq(line, k + 1, Len(line))
  <2>1. InLine(d) = SubSeq(line, k, Len(line))
    BY <1>0, <1>p DEF InLine
  <2> HIDE DEF k
  <2> QED  BY <1>1, <2>1, FromHere
<1>3. InLine(d)' = Tail(InLine(d))
  <2>1. CASE left > 1
    <3>1. left' = left - 1 /\ line' = line /\ pc' = "write" /\ chan' = d
      BY <1>0, <1>p, <2>1 DEF WriteChar
    <3>2. Len(line') - left' + 1 = k + 1
      BY <1>1, <3>1
    <3> QED  BY <1>2, <3>1, <3>2 DEF InLine
  <2>2. CASE left = 1
    <3>1. InLine(d)' = <<>> /\ k = Len(line)
      BY <1>1, <2>2 DEF WriteChar, InLine
    <3> QED  BY <1>1, <1>2, <3>1, NothingAdded
  <2> QED  BY <1>1, <2>1, <2>2
<1>4. /\ pipe'[d] = Append(pipe[d], Head(InLine(d)))
      /\ \A c \in Channels \ {d} : pipe'[c] = pipe[c] /\ InLine(c)' = <<>> /\ InLine(c) = <<>>
  BY <1>0, <1>1, <1>p, <1>2 DEF InLine
<1>5. \A c \in Channels : /\ InChild(c)' = InChild(c) /\ Output(c)' = Output(c) /\ cpc'[c] = cpc[c]
  BY <1>0 DEF InChild, Output, child
<1>6. OnTheWay(d)' = OnTheWay(d)
  <2>1. InLine(d) \in Seq(Chars) /\ InChild(d) \in Seq(Chars) /\ pipe[d] \in Seq(Chars)
    BY <1>0, TextTypes
  <2>2. Joined(InChild(d), Append(pipe[d], Head(InLine(d))), Tail(InLine(d)))
          = Joined(InChild(d), pipe[d], InLine(d))
    BY <1>2, <2>1, HandOver
  <2>3. cpc[d] # "failed" => /\ OnTheWay(d) = Joined(InChild(d), pipe[d], InLine(d))
                            /\ OnTheWay(d)' = Joined(InChild(d)', pipe'[d], InLine(d)')
    BY <1>5 DEF OnTheWay, Joined
  <2>4. cpc[d] = "failed" => OnTheWay(d) = <<>> /\ OnTheWay(d)' = <<>>
    BY <1>5 DEF OnTheWay
  <2> QED  BY <1>3, <1>4, <1>5, <2>2, <2>3, <2>4
<1>7. \A c \in Channels : OnTheWay(c)' = OnTheWay(c)
  BY <1>4, <1>5, <1>6 DEF OnTheWay
<1>8. Over' <=> Over
  BY <1>0 DEF Over
<1> QED  BY <1>0, <1>5, <1>7, <1>8, Unmoved DEF child

\* SIGPIPE: the child the parent was writing to has failed.
LEMMA KillMaps ==
  ASSUME IInv, WriteKills
  PROVE  [Sorter!SorterNext]_(Sorter!svars)
<1>0. /\ TypeOK /\ pc = "write" /\ pc' = "killed" /\ chan \in Channels
      /\ ~Held(R(chan)) /\ UNCHANGED <<todo, pipe, chan, child>>
  BY DEF IInv, WriteKills, TypeOK
<1>p. PICK d \in Channels : d = chan
  BY <1>0
<1>1. cpc[d] = "failed"
  <2>1. Ended(d)
    BY <1>0, <1>p DEF IInv, Descriptors, Held, Procs
  <2> QED  BY <1>0, <2>1 DEF IInv, Ended, Forked, EofInOrder
<1>2. \A c \in Channels : /\ InChild(c)' = InChild(c) /\ Output(c)' = Output(c) /\ cpc'[c] = cpc[c]
                          /\ pipe'[c] = pipe[c]
                          /\ c # d => InLine(c) = <<>> /\ InLine(c)' = <<>>
  BY <1>0, <1>p DEF InChild, Output, InLine, child
<1>3. \A c \in Channels : OnTheWay(c)' = OnTheWay(c)
  BY <1>1, <1>2 DEF OnTheWay
<1>4. Sorter!End
  BY <1>0, <1>1, <1>2, <1>3 DEF Sorter!End, Sorter!Channels, child
<1> QED  BY <1>4 DEF Sorter!SorterNext

\* The end of the input, and the parent's end once both children have ended.
LEMMA CloseMaps ==
  ASSUME IInv, GetEnd \/ Close \/ Reap
  PROVE  [Sorter!SorterNext]_(Sorter!svars)
<1>0. /\ TypeOK /\ Closing /\ pc \in {"read", "close", "reap"} /\ pc' \in {"close", "reap", "exit"}
      /\ UNCHANGED <<todo, pipe, child>>
  BY DEF IInv, GetEnd, Close, Reap
<1>1. \A c \in Channels : /\ InLine(c) = <<>> /\ InLine(c)' = <<>> /\ InChild(c)' = InChild(c)
                          /\ Output(c)' = Output(c) /\ cpc'[c] = cpc[c] /\ pipe'[c] = pipe[c]
  BY <1>0 DEF InLine, InChild, Output, child
<1>2. \A c \in Channels : OnTheWay(c)' = OnTheWay(c)
  BY <1>1 DEF OnTheWay
<1>3. CASE pc' # "exit"
  <2>1. Over' <=> Over
    BY <1>0, <1>3 DEF Over
  <2> QED  BY <1>0, <1>1, <1>2, <2>1, Unmoved DEF child
<1>4. CASE pc' = "exit"
  <2>1. Reap /\ pc = "reap" /\ chan = "small" /\ Ended(chan)
    BY <1>0, <1>4 DEF GetEnd, Close, Reap, FirstClosed, TypeOK
  <2>2. todo = <<>> /\ \A c \in Channels : cpc[c] \in {"done", "failed"}
    BY <1>0, <2>1 DEF Closing, Ended
  <2>3. \A c \in Channels : cpc[c] # "failed" => OnTheWay(c) = <<>> /\ Output(c) = <<>>
    <3>1. <<>> \o <<>> = <<>> /\ <<>> \o <<>> \o <<>> = <<>>
      OBVIOUS
    <3> QED  BY <1>0, <1>1, <2>2, <3>1 DEF OnTheWay, InChild, Output, Closing
  <2>4. Sorter!End
    BY <1>0, <1>1, <1>2, <1>4, <2>2, <2>3 DEF Sorter!End, Sorter!Channels, child
  <2> QED  BY <2>4 DEF Sorter!SorterNext
<1> QED  BY <1>3, <1>4

\* A child that starts, or fails to, and one that finds the end of its input.
LEMMA ExecMaps ==
  ASSUME IInv, NEW c \in Channels, Exec(c) \/ ReadEof(c)
  PROVE  [Sorter!SorterNext]_(Sorter!svars)
<1>0. /\ TypeOK /\ LineFits /\ Filtering /\ UNCHANGED <<parent, pipe, file>>
      /\ cpc[c] \in {"forked", "read"} /\ cpc'[c] \notin {"filter"}
      /\ cpc'[c] = "failed" => MayFail
      /\ \A d \in Channels \ {c} : cpc'[d] = cpc[d]
      /\ UNCHANGED <<bufin, pos, bufout>>
  BY DEF IInv, Exec, ReadEof, TypeOK
<1>1. \A d \in Channels : /\ InChild(d)' = InChild(d) /\ Output(d)' = Output(d)
                          /\ InLine(d)' = InLine(d) /\ pipe'[d] = pipe[d]
  BY <1>0 DEF InChild, Output, InLine, parent
<1>2. \A d \in Channels \ {c} : OnTheWay(d)' = OnTheWay(d)
  BY <1>0, <1>1 DEF OnTheWay
<1>3. (Over' <=> Over) /\ todo' = todo
  BY <1>0 DEF Over, parent
<1>4. CASE cpc'[c] # "failed"
  <2>1. OnTheWay(c)' = OnTheWay(c)
    BY <1>0, <1>1, <1>4 DEF OnTheWay
  <2> QED  BY <1>0, <1>1, <1>2, <1>3, <1>4, <2>1, Unmoved
<1>5. CASE cpc'[c] = "failed"
  <2>1. Output(c) = <<>> /\ Output(c)' = <<>> /\ OnTheWay(c)' = <<>>
    BY <1>0, <1>1, <1>5 DEF Output, OnTheWay
  <2>2. file[c] \o SubSeq(Output(c), 1, 0) = file[c] /\ 0 \in 0 .. Len(Output(c))
    <3>1. file[c] \in Seq(Chars) /\ <<>> \in Seq(Chars) /\ Len(<<>>) = 0
      BY <1>0, TextTypes
    <3> QED  BY <2>1, <3>1, NothingAdded
  <2>3. file' = [file EXCEPT ![c] = @ \o SubSeq(Output(c), 1, 0)]
    BY <1>0, <2>2 DEF TypeOK
  <2>4. Sorter!Break(c)
    BY <1>0, <1>1, <1>2, <1>3, <1>5, <2>1, <2>2, <2>3, BreakMaps
  <2> QED  BY <2>4 DEF Sorter!SorterNext, Sorter!Channels
<1> QED  BY <1>4, <1>5

\* A child takes a piece out of the pipe: the text has only moved.
LEMMA PieceMaps ==
  ASSUME IInv, NEW c \in Channels, ReadPipe(c)
  PROVE  [Sorter!SorterNext]_(Sorter!svars)
<1>0. /\ TypeOK /\ LineFits /\ Filtering /\ UNCHANGED <<parent, file>>
      /\ cpc[c] = "read" /\ cpc'[c] = "filter" /\ pos'[c] = 0 /\ bufout'[c] = <<>>
      /\ bufin'[c] = SubSeq(pipe[c], 1, Available(c))
      /\ pipe'[c] = SubSeq(pipe[c], Available(c) + 1, Len(pipe[c]))
      /\ \A d \in Channels \ {c} : /\ cpc'[d] = cpc[d] /\ bufin'[d] = bufin[d] /\ pos'[d] = pos[d]
                                   /\ bufout'[d] = bufout[d] /\ pipe'[d] = pipe[d]
  BY DEF IInv, ReadPipe, TypeOK
<1>1. \A d \in Channels : InLine(d)' = InLine(d)
  BY <1>0 DEF InLine, parent
<1>2. \A d \in Channels \ {c} : /\ InChild(d)' = InChild(d) /\ Output(d)' = Output(d)
                               /\ OnTheWay(d)' = OnTheWay(d)
  BY <1>0, <1>1 DEF InChild, Output, OnTheWay
<1>3. Output(c)' = Output(c)
  BY <1>0 DEF Output
<1>4. OnTheWay(c)' = OnTheWay(c)
  <2>1. pipe[c] \in Seq(Chars) /\ Available(c) \in 0 .. Len(pipe[c]) /\ InLine(c) \in Seq(Chars)
    <3>1. pipe[c] \in Seq(Chars) /\ InLine(c) \in Seq(Chars) /\ Len(pipe[c]) \in Nat
      BY <1>0, TextTypes
    <3> QED  BY <3>1 DEF Available
  <2>2. SubSeq(pipe[c], 1, Available(c)) \in Seq(Chars)
    BY <2>1, CutInTwo
  <2>3. InChild(c) = <<>> /\ InChild(c)' = SubSeq(pipe[c], 1, Available(c))
    <3>1. SubSeq(bufin'[c], pos'[c] + 1, Len(bufin'[c])) = SubSeq(bufin'[c], 1, Len(bufin'[c]))
      BY <1>0
    <3> QED  BY <1>0, <2>2, <3>1, NothingAdded DEF InChild
  <2>4. Joined(InChild(c)', pipe'[c], InLine(c)) = Joined(InChild(c), pipe[c], InLine(c))
    <3>1. Joined(SubSeq(pipe[c], 1, Available(c)), SubSeq(pipe[c], Available(c) + 1, Len(pipe[c])),
                 InLine(c)) = Joined(<<>>, pipe[c], InLine(c))
      BY <2>1, PieceMoves
    <3> QED  BY <1>0, <2>3, <3>1
  <2>5. /\ OnTheWay(c) = Joined(InChild(c), pipe[c], InLine(c))
        /\ OnTheWay(c)' = Joined(InChild(c)', pipe'[c], InLine(c)')
    BY <1>0 DEF OnTheWay, Joined
  <2> QED  BY <1>1, <2>4, <2>5
<1> QED  BY <1>0, <1>2, <1>3, <1>4, Unmoved DEF Over, parent

\* One character of the piece is filtered.
LEMMA FilterMaps ==
  ASSUME IInv, NEW c \in Channels, Filter(c)
  PROVE  [Sorter!SorterNext]_(Sorter!svars)
<1> DEFINE ch == bufin[c][pos[c] + 1]
<1>0. /\ TypeOK /\ LineFits /\ Filtering /\ UNCHANGED <<parent, pipe, cpc, bufin, file>>
      /\ cpc[c] = "filter" /\ pos[c] < Len(bufin[c]) /\ pos'[c] = pos[c] + 1
      /\ bufout'[c] = IF ch \in Vowels THEN bufout[c] ELSE Append(bufout[c], ch)
      /\ \A d \in Channels \ {c} : pos'[d] = pos[d] /\ bufout'[d] = bufout[d]
  BY DEF IInv, Filter, TypeOK
<1>1. \A d \in Channels : InLine(d)' = InLine(d)
  BY <1>0 DEF InLine, parent
<1>2. \A d \in Channels \ {c} : /\ InChild(d)' = InChild(d) /\ Output(d)' = Output(d)
                               /\ OnTheWay(d)' = OnTheWay(d)
  BY <1>0, <1>1 DEF InChild, Output, OnTheWay
<1>3. InChild(c) # <<>> /\ Head(InChild(c)) = ch /\ InChild(c)' = Tail(InChild(c))
  <2>1. bufin[c] \in Seq(Chars) /\ pos[c] \in Nat /\ pos[c] + 1 \in 1 .. Len(bufin[c])
    BY <1>0 DEF TypeOK
  <2>2. InChild(c) = SubSeq(bufin[c], pos[c] + 1, Len(bufin[c]))
    BY <1>0 DEF InChild
  <2>3. InChild(c)' = SubSeq(bufin[c], (pos[c] + 1) + 1, Len(bufin[c]))
    BY <1>0 DEF InChild
  <2> QED  BY <2>1, <2>2, <2>3, FromHere
<1>4. /\ OnTheWay(c) # <<>> /\ Head(OnTheWay(c)) = ch /\ OnTheWay(c)' = Tail(OnTheWay(c))
  <2>1. InLine(c) \in Seq(Chars) /\ InChild(c) \in Seq(Chars) /\ pipe[c] \in Seq(Chars)
    BY <1>0, TextTypes
  <2>2. OnTheWay(c) = Joined(InChild(c), pipe[c], InLine(c))
    BY <1>0 DEF OnTheWay, Joined
  <2>3. OnTheWay(c)' = Joined(Tail(InChild(c)), pipe[c], InLine(c))
    BY <1>0, <1>1, <1>3 DEF OnTheWay, Joined
  <2> HIDE DEF ch
  <2> QED  BY <1>3, <2>1, <2>2, <2>3, TakeFirst
<1>5. Output(c)' = IF Head(OnTheWay(c)) \in Vowels THEN Output(c)
                   ELSE Append(Output(c), Head(OnTheWay(c)))
  BY <1>0, <1>4 DEF Output
<1>6. Sorter!Sift(c)
  <2>1. UNCHANGED <<todo, file, cpc>> /\ (pc \in {"exit", "killed"})' = (pc \in {"exit", "killed"})
    BY <1>0 DEF parent
  <2> HIDE DEF ch
  <2> QED  BY <1>2, <1>4, <1>5, <2>1 DEF Sorter!Sift
<1> QED  BY <1>6 DEF Sorter!SorterNext, Sorter!Channels

\* The filtered piece is written to the file, or as much of it as the file takes.
LEMMA WriteFileMaps ==
  ASSUME IInv, NEW c \in Channels, WriteFile(c)
  PROVE  [Sorter!SorterNext]_(Sorter!svars)
<1>0. /\ TypeOK /\ LineFits /\ Filtering /\ UNCHANGED <<parent, pipe, bufin, pos, bufout>>
      /\ cpc[c] = "filter" /\ pos[c] = Len(bufin[c]) /\ cpc'[c] \in {"read", "failed"}
      /\ \A d \in Channels \ {c} : cpc'[d] = cpc[d]
  BY DEF IInv, WriteFile, TypeOK
<1>1. \A d \in Channels : InLine(d)' = InLine(d) /\ pipe'[d] = pipe[d]
  BY <1>0 DEF InLine, parent
<1>2. \A d \in Channels \ {c} : /\ InChild(d)' = InChild(d) /\ Output(d)' = Output(d)
                               /\ OnTheWay(d)' = OnTheWay(d)
  BY <1>0, <1>1 DEF InChild, Output, OnTheWay
<1>3. /\ InChild(c) = <<>> /\ InChild(c)' = <<>> /\ Output(c) = bufout[c] /\ Output(c)' = <<>>
  <2>1. bufin[c] \in Seq(Chars)
    BY <1>0 DEF TypeOK
  <2> QED  BY <1>0, <2>1, NothingAdded DEF InChild, Output
<1>t. bufout[c] \in Seq(Chars) /\ file[c] \in Seq(Chars) /\ Len(bufout[c]) \in Nat
  BY <1>0 DEF TypeOK
<1>4. UNCHANGED todo /\ (Over' <=> Over)
  BY <1>0 DEF parent, Over
<1>5. CASE cpc'[c] = "read"
  <2>1. OnTheWay(c)' = OnTheWay(c)
    BY <1>0, <1>1, <1>3, <1>5 DEF OnTheWay
  <2>2. file' = [file EXCEPT ![c] = @ \o Output(c)]
    BY <1>0, <1>3, <1>5 DEF WriteFile, TypeOK
  <2>3. CASE Output(c) = <<>>
    <3>1. file' = file
      BY <1>0, <1>t, <2>2, <2>3, NothingAdded DEF TypeOK
    <3> QED  BY <1>0, <1>2, <1>3, <1>4, <1>5, <2>1, <2>3, <3>1, Unmoved
  <2>4. CASE Output(c) # <<>>
    <3>1. /\ [d \in Channels |-> OnTheWay(d)]' = [d \in Channels |-> OnTheWay(d)]
          /\ [d \in Channels |-> Output(d)]' = [[d \in Channels |-> Output(d)] EXCEPT ![c] = <<>>]
          /\ [d \in Channels |-> Output(d)][c] = Output(c)
      BY <1>2, <1>3, <2>1
    <3>2. [d \in Channels |-> cpc[d] = "failed"]' = [d \in Channels |-> cpc[d] = "failed"]
      BY <1>0, <1>5
    <3>3. Sorter!Store(c)
      BY <1>4, <2>2, <2>4, <3>1, <3>2 DEF Sorter!Store, Over
    <3> QED  BY <3>3 DEF Sorter!SorterNext, Sorter!Channels
  <2> QED  BY <2>3, <2>4
<1>6. CASE cpc'[c] = "failed"
  <2>1. OnTheWay(c)' = <<>>
    BY <1>6 DEF OnTheWay
  <2>2. PICK n \in 0 .. Len(bufout[c]) - 1 : file' = [file EXCEPT ![c] = @ \o SubSeq(bufout[c], 1, n)]
    BY <1>0, <1>6 DEF WriteFile, TypeOK
  <2>3. n \in 0 .. Len(bufout[c]) /\ MayFail
    <3>1. MayFail
      BY <1>0, <1>6 DEF WriteFile, TypeOK
    <3> QED  BY <1>t, <3>1
  <2>4. Sorter!Break(c)
    BY <1>0, <1>2, <1>3, <1>4, <1>6, <2>1, <2>2, <2>3, BreakMaps
  <2> QED  BY <2>4 DEF Sorter!SorterNext, Sorter!Channels
<1> QED  BY <1>0, <1>5, <1>6

\* ImplementsSorter: for every input, buffer and pipe, whatever fails, the parent, the pipes
\* and the children of os_exercise_02 bring each line to its file, once, whole and in order.
THEOREM SorterImplemented == Spec => ImplementsSorter
<1>1. Init => Sorter!SorterInit
  <2> SUFFICES ASSUME Init PROVE Sorter!SorterInit
    OBVIOUS
  <2>1. <<>> \o <<>> = <<>> /\ <<>> \o <<>> \o <<>> = <<>>
    OBVIOUS
  <2>2. \A c \in Channels : OnTheWay(c) = <<>> /\ Output(c) = <<>>
    BY <2>1 DEF Init, OnTheWay, Output, InChild, InLine
  <2>3. /\ [c \in Channels |-> OnTheWay(c)] = [c \in Channels |-> <<>>]
        /\ [c \in Channels |-> Output(c)] = [c \in Channels |-> <<>>]
    BY <2>2
  <2>4. /\ [c \in Channels |-> cpc[c] = "failed"] = [c \in Channels |-> FALSE]
        /\ file = [c \in Channels |-> <<>>] /\ (pc \in {"exit", "killed"}) = FALSE
    <3>1. \A c \in Channels : (cpc[c] = "failed") = FALSE
      BY DEF Init
    <3>2. file = [c \in Channels |-> <<>>]
      BY DEF Init
    <3>3. (pc \in {"exit", "killed"}) = FALSE
      BY DEF Init
    <3> QED  BY <3>1, <3>2, <3>3
  <2>5. Sorter!Channels = Channels
    BY DEF Sorter!Channels
  <2> QED  BY ONLY <2>3, <2>4, <2>5 DEF Sorter!SorterInit
<1>2. IInv /\ [Next]_vars => [Sorter!SorterNext]_(Sorter!svars)
  <2> SUFFICES ASSUME IInv, [Next]_vars PROVE [Sorter!SorterNext]_(Sorter!svars)
    OBVIOUS
  <2>1. CASE UNCHANGED vars
    <3>1. \A c \in Channels : OnTheWay(c)' = OnTheWay(c) /\ Output(c)' = Output(c)
      BY <2>1 DEF OnTheWay, Output, InChild, InLine, vars, parent, child
    <3> QED  BY <2>1, <3>1, Unmoved DEF vars, parent, child, Over
  <2> QED
    BY <2>1, StartMaps, ReadMaps, WriteMaps, KillMaps, CloseMaps, ExecMaps, PieceMaps, FilterMaps,
       WriteFileMaps DEF Next, ParentNext, ChildNext
<1> QED  BY <1>1, <1>2, Invariance, PTL DEF Spec, ImplementsSorter, Sorter!SorterSpec
====================================================================================
