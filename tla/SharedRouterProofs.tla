--------------------------- MODULE SharedRouterProofs ---------------------------
(*********************************************************************************)
(* For every input, buffer size and limit, whatever system calls fail: the buffer *)
(* of os_exercise_04's shared memory passes between parent and child like a       *)
(* token, although neither semaphore is a lock, and no child reads a torn line.   *)
(*********************************************************************************)
EXTENDS SharedRouter, SorterLemmas, TLAPS

USE SharedRouterAssumption DEF Channels

\* What the children build out of characters is text.
LEMMA TextLemma ==
  /\ <<>> \in Text
  /\ \A s \in Text, ch \in Chars \cup {Zero} : Append(s, ch) \in Text
  /\ \A s, t \in Text : s \o t \in Text
  /\ \A s \in Text : \A n \in 0 .. Len(s) : SubSeq(s, 1, n) \in Text
  /\ \A s \in Text : Len(s) \in Nat /\ \A k \in 1 .. Len(s) : s[k] \in Chars \cup {Zero}
BY DEF Text

LEMMA InitHolds == Init => IInv
<1> SUFFICES ASSUME Init PROVE IInv
  OBVIOUS
<1>1. TypeOK
  BY TextLemma DEF Init, TypeOK, Lines
<1>2. Started /\ OneToken /\ LineHeld /\ Filled /\ NothingTorn
  BY DEF Init, Started, OneToken, LineHeld, Filled, NothingTorn, Writing, Copying
<1>3. Endings /\ Sent /\ Unused /\ InputRead /\ Filtering
  BY DEF Init, Endings, Sent, Unused, InputRead, Filtering, Closed, Writing, Copying
<1> QED  BY <1>1, <1>2, <1>3 DEF IInv

\* Every action, taken from a state of IInv, keeps the types.
LEMMA TypeStep == ASSUME IInv, [Next]_vars PROVE TypeOK'
<1> USE DEF TypeOK, parent, shared, child, Wait, Post
<1> TypeOK /\ LineHeld  BY DEF IInv
<1>1. CASE StartChild
  <2>1. /\ linked' \in [Channels -> BOOLEAN] /\ buf_len' \in [Channels -> -1 .. BufSize]
        /\ write_mutex' \in [Channels -> Nat] /\ read_mutex' \in [Channels -> Nat]
    BY <1>1 DEF StartChild, SharedInit
  <2>2. /\ cpc' \in [Channels -> {"none", "forked", "wait", "copy", "filter", "done", "late", "failed"}]
        /\ pc' \in {"start", "read"} /\ chan' \in Channels
    BY <1>1 DEF StartChild, GoOn
  <2> QED  BY <1>1, <2>1, <2>2 DEF StartChild, SharedInit
<1>2. CASE StartFails
  <2>1. CASE SharedInit
    <3>1. /\ linked' \in [Channels -> BOOLEAN] /\ buf_len' \in [Channels -> -1 .. BufSize]
          /\ write_mutex' \in [Channels -> Nat] /\ read_mutex' \in [Channels -> Nat]
      BY <2>1 DEF SharedInit
    <3> QED  BY <1>2, <2>1, <3>1 DEF StartFails, SharedInit
  <2>2. CASE UNCHANGED shared  BY <1>2, <2>2 DEF StartFails
  <2> QED  BY <1>2, <2>1, <2>2 DEF StartFails
<1>3. CASE ReadLine  BY <1>3 DEF ReadLine, FileFor, Lines
<1>4. CASE ReadEnd  BY <1>4 DEF ReadEnd
<1>5. CASE WriteEnter  BY <1>5 DEF WriteEnter
<1>6. CASE WriteCopy
  <2>1. i + 1 \in 1 .. BufSize /\ i + 1 \in 1 .. Len(line)
    BY <1>6 DEF WriteCopy, LineHeld, NeedToWrite
  <2>2. line[i + 1] \in Chars \cup {Zero}
    BY <2>1
  <2>3. buf' \in [Channels -> [1 .. BufSize -> Chars \cup {Zero}]]
    BY <1>6, <2>1, <2>2 DEF WriteCopy
  <2> QED  BY <1>6, <2>1, <2>3 DEF WriteCopy
<1>7. CASE WriteLeave
  <2>1. NeedToWrite \in 0 .. BufSize /\ left - NeedToWrite \in Nat
    BY DEF NeedToWrite
  <2>2. buf_len' \in [Channels -> -1 .. BufSize] /\ read_mutex' \in [Channels -> Nat]
    BY <1>7, <2>1 DEF WriteLeave, Rest
  <2>3. left' \in Nat
    BY <1>7, <2>1 DEF WriteLeave, Rest
  <2>4. pc' \in {"enter", "read"} /\ line' \in Seq(Chars)
    <3>1. line' = line \/ line' = <<>>
      BY <1>7 DEF WriteLeave, Rest
    <3>2. pc' \in {"enter", "read"}
      BY <1>7 DEF WriteLeave, Rest
    <3>3. line \in Seq(Chars) /\ <<>> \in Seq(Chars)
      OBVIOUS
    <3> QED  BY <3>1, <3>2, <3>3 DEF Lines
  <2> QED  BY <1>7, <2>2, <2>3, <2>4 DEF WriteLeave, Rest
<1>8. CASE Close  BY <1>8 DEF Close
<1>9. CASE Unlink  BY <1>9 DEF Unlink
<1>10. CASE Reap  BY <1>10 DEF Reap
<1>11. ASSUME NEW c \in Channels, ChildNext(c) PROVE TypeOK'
  <2>1. CASE Connect(c)  BY <2>1 DEF Connect
  <2>2. CASE ReadEnter(c)
    <3>1. bufin' \in [Channels -> Text]
      BY <2>2, TextLemma DEF ReadEnter
    <3> QED  BY <2>2, <3>1 DEF ReadEnter
  <2>3. CASE ReadCopy(c)
    <3>1. bufin[c] \in Text /\ buf_len[c] \in -1 .. BufSize /\ Len(bufin[c]) \in Nat
      BY TextLemma
    <3>2. Len(bufin[c]) + 1 \in 1 .. BufSize
      BY <2>3, <3>1 DEF ReadCopy
    <3>3. Append(bufin[c], buf[c][Len(bufin[c]) + 1]) \in Text
      BY <3>1, <3>2, TextLemma
    <3>4. bufin' \in [Channels -> Text]
      BY <2>3, <3>3 DEF ReadCopy
    <3> QED  BY <2>3, <3>4 DEF ReadCopy
  <2>4. CASE ReadLeave(c)
    <3>1. bufout' \in [Channels -> Text]
      BY <2>4, TextLemma DEF ReadLeave
    <3> QED  BY <2>4, <3>1 DEF ReadLeave
  <2>5. CASE Filter(c)
    <3>0. bufin[c] \in Text /\ bufout[c] \in Text /\ pos[c] \in Nat /\ Len(bufin[c]) \in Nat
      BY TextLemma
    <3>1. bufin[c][pos[c] + 1] \in Chars \cup {Zero}
      <4>1. pos[c] + 1 \in 1 .. Len(bufin[c])
        BY <2>5, <3>0 DEF Filter
      <4> QED  BY <3>0, <4>1, TextLemma
    <3>2. Append(bufout[c], bufin[c][pos[c] + 1]) \in Text
      BY <3>0, <3>1, TextLemma
    <3>3. bufout' \in [Channels -> Text]
      BY <2>5, <3>2 DEF Filter
    <3> QED  BY <2>5, <3>3 DEF Filter
  <2>6. CASE WriteFile(c)
    <3>1. file[c] \o bufout[c] \in Text
      BY TextLemma
    <3> QED  BY <2>6, <3>1 DEF WriteFile
  <2>7. CASE WriteFails(c)
    <3>1. PICK n \in 0 .. Len(bufout[c]) :
            file' = [file EXCEPT ![c] = @ \o SubSeq(bufout[c], 1, n)]
      BY <2>7 DEF WriteFails
    <3>2. file[c] \o SubSeq(bufout[c], 1, n) \in Text
      BY TextLemma
    <3> QED  BY <2>7, <3>1, <3>2 DEF WriteFails
  <2> QED  BY <1>11, <2>1, <2>2, <2>3, <2>4, <2>5, <2>6, <2>7 DEF ChildNext
<1>12. CASE UNCHANGED vars  BY <1>12 DEF vars
<1> QED
  BY <1>1, <1>2, <1>3, <1>4, <1>5, <1>6, <1>7, <1>8, <1>9, <1>10, <1>11, <1>12
  DEF Next, ParentNext

\* Children are forked in order and never forgotten.
LEMMA StartedStep == ASSUME IInv, TypeOK', [Next]_vars PROVE Started'
<1> USE DEF TypeOK, Started, parent, shared, child, Wait, Post
<1> TypeOK /\ Started  BY DEF IInv
<1>1. CASE StartChild
  <2>1. cpc' = [cpc EXCEPT ![chan] = "forked"] /\ pc = "start"
    BY <1>1 DEF StartChild
  <2>2. CASE chan = "small"
    <3>1. chan' = "large" /\ pc' = "start" /\ cpc'["large"] = "none"
      BY <1>1, <2>1, <2>2 DEF StartChild, GoOn
    <3>2. cpc'["small"] # "none"
      BY <2>1, <2>2
    <3> QED  BY <3>1, <3>2
  <2>3. CASE chan = "large"
    <3>1. cpc["small"] # "none" /\ pc' = "read"
      BY <1>1, <2>3 DEF StartChild, GoOn
    <3>2. \A c \in Channels : cpc'[c] # "none"
      BY <2>1, <2>3, <3>1
    <3> QED  BY <3>1, <3>2
  <2> QED  BY <2>2, <2>3
<1>2. CASE StartFails  BY <1>2 DEF StartFails, SharedInit
<1>3. CASE ReadLine  BY <1>3 DEF ReadLine, FileFor
<1>4. CASE ReadEnd  BY <1>4 DEF ReadEnd
<1>5. CASE WriteEnter  BY <1>5 DEF WriteEnter
<1>6. CASE WriteCopy  BY <1>6 DEF WriteCopy
<1>7. CASE WriteLeave  BY <1>7 DEF WriteLeave, Rest
<1>8. CASE Close  BY <1>8 DEF Close
<1>9. CASE Unlink  BY <1>9 DEF Unlink
<1>10. CASE Reap  BY <1>10 DEF Reap
<1>11. ASSUME NEW c \in Channels, ChildNext(c) PROVE Started'
  <2>1. CASE Connect(c)  BY <2>1 DEF Connect
  <2>2. CASE ReadEnter(c)  BY <2>2 DEF ReadEnter
  <2>3. CASE ReadCopy(c)  BY <2>3 DEF ReadCopy
  <2>4. CASE ReadLeave(c)  BY <2>4 DEF ReadLeave
  <2>5. CASE Filter(c)  BY <2>5 DEF Filter
  <2>6. CASE WriteFile(c)  BY <2>6 DEF WriteFile
  <2>7. CASE WriteFails(c)  BY <2>7 DEF WriteFails
  <2> QED  BY <1>11, <2>1, <2>2, <2>3, <2>4, <2>5, <2>6, <2>7 DEF ChildNext
<1>12. CASE UNCHANGED vars  BY <1>12 DEF vars
<1> QED
  BY <1>1, <1>2, <1>3, <1>4, <1>5, <1>6, <1>7, <1>8, <1>9, <1>10, <1>11, <1>12
  DEF Next, ParentNext

\* A sem_wait takes the token and the matching sem_post gives it on.
LEMMA TokenStep == ASSUME IInv, TypeOK', [Next]_vars PROVE OneToken'
<1> USE DEF OneToken, Writing, Copying, parent, shared, child, Wait, Post
<1> /\ Started /\ OneToken /\ chan \in Channels
    /\ write_mutex \in [Channels -> Nat] /\ read_mutex \in [Channels -> Nat]
    /\ cpc \in [Channels -> {"none", "forked", "wait", "copy", "filter", "done", "late", "failed"}]
  BY DEF IInv, TypeOK
<1>1. CASE StartChild
  <2>1. /\ cpc' = [cpc EXCEPT ![chan] = "forked"] /\ pc' \in {"start", "read"}
        /\ write_mutex' = [write_mutex EXCEPT ![chan] = 1]
        /\ read_mutex' = [read_mutex EXCEPT ![chan] = 0]
    BY <1>1 DEF StartChild, SharedInit, GoOn
  <2>2. pc = "start"
    BY <1>1 DEF StartChild
  <2> QED  BY <2>1, <2>2
<1>2. CASE StartFails
  <2>1. CASE SharedInit
    <3>1. pc = "start" /\ pc' = "exit" /\ cpc' = cpc /\ cpc[chan] = "none"
      BY <1>2 DEF StartFails, Started
    <3>2. \A c \in Channels \ {chan} : /\ write_mutex'[c] = write_mutex[c]
                                       /\ read_mutex'[c] = read_mutex[c]
      BY <2>1 DEF SharedInit
    <3> QED  BY <3>1, <3>2
  <2>2. CASE UNCHANGED shared  BY <1>2, <2>2 DEF StartFails
  <2> QED  BY <1>2, <2>1, <2>2 DEF StartFails
<1>3. CASE ReadLine  BY <1>3 DEF ReadLine, FileFor
<1>4. CASE ReadEnd  BY <1>4 DEF ReadEnd
<1>5. CASE WriteEnter  BY <1>5 DEF WriteEnter
<1>6. CASE WriteCopy  BY <1>6 DEF WriteCopy
<1>7. CASE WriteLeave
  <2>1. /\ read_mutex' = [read_mutex EXCEPT ![chan] = @ + 1] /\ write_mutex' = write_mutex
        /\ pc = "copy" /\ pc' \in {"enter", "read"} /\ chan' = chan /\ cpc' = cpc
    BY <1>7 DEF WriteLeave, Rest
  <2> QED  BY <2>1
<1>8. CASE Close  BY <1>8 DEF Close
<1>9. CASE Unlink  BY <1>9 DEF Unlink
<1>10. CASE Reap  BY <1>10 DEF Reap
<1>11. ASSUME NEW c \in Channels, ChildNext(c) PROVE OneToken'
  <2>1. CASE Connect(c)  BY <2>1 DEF Connect
  <2>2. CASE ReadEnter(c)
    <3>1. /\ read_mutex' = [read_mutex EXCEPT ![c] = @ - 1] /\ write_mutex' = write_mutex
          /\ cpc[c] = "wait" /\ cpc' = [cpc EXCEPT ![c] = "copy"] /\ pc' = pc /\ chan' = chan
      BY <2>2 DEF ReadEnter
    <3> QED  BY <3>1
  <2>3. CASE ReadCopy(c)  BY <2>3 DEF ReadCopy
  <2>4. CASE ReadLeave(c)
    <3>1. /\ write_mutex' = [write_mutex EXCEPT ![c] = @ + 1] /\ read_mutex' = read_mutex
          /\ cpc[c] = "copy" /\ pc' = pc /\ chan' = chan
          /\ \E next \in {"filter", "done"} : cpc' = [cpc EXCEPT ![c] = next]
      BY <2>4 DEF ReadLeave
    <3> QED  BY <3>1
  <2>5. CASE Filter(c)  BY <2>5 DEF Filter
  <2>6. CASE WriteFile(c)  BY <2>6 DEF WriteFile
  <2>7. CASE WriteFails(c)  BY <2>7 DEF WriteFails
  <2> QED  BY <1>11, <2>1, <2>2, <2>3, <2>4, <2>5, <2>6, <2>7 DEF ChildNext
<1>12. CASE UNCHANGED vars  BY <1>12 DEF vars
<1> QED
  BY <1>1, <1>2, <1>3, <1>4, <1>5, <1>6, <1>7, <1>8, <1>9, <1>10, <1>11, <1>12
  DEF Next, ParentNext

\* The parent never copies from beyond the end of its line.
LEMMA LineStep == ASSUME IInv, TypeOK', [Next]_vars PROVE LineHeld'
<1> USE DEF TypeOK, LineHeld, NeedToWrite, parent, shared, child, Wait, Post
<1> TypeOK /\ LineHeld  BY DEF IInv
<1>1. CASE StartChild  BY <1>1 DEF StartChild, SharedInit, GoOn
<1>2. CASE StartFails  BY <1>2 DEF StartFails, SharedInit
<1>3. CASE ReadLine
  <2>1. line' \in Lines /\ left' = Len(line') /\ pc' = "enter"
    BY <1>3 DEF ReadLine
  <2>2. left' \in 1 .. Len(line')
    BY <2>1 DEF Lines
  <2> QED  BY <2>1, <2>2
<1>4. CASE ReadEnd  BY <1>4 DEF ReadEnd
<1>5. CASE WriteEnter  BY <1>5 DEF WriteEnter
<1>6. CASE WriteCopy  BY <1>6 DEF WriteCopy
<1>7. CASE WriteLeave  BY <1>7 DEF WriteLeave, Rest
<1>8. CASE Close  BY <1>8 DEF Close
<1>9. CASE Unlink  BY <1>9 DEF Unlink
<1>10. CASE Reap  BY <1>10 DEF Reap
<1>11. ASSUME NEW c \in Channels, ChildNext(c) PROVE LineHeld'
  <2>1. CASE Connect(c)  BY <2>1 DEF Connect
  <2>2. CASE ReadEnter(c)  BY <2>2 DEF ReadEnter
  <2>3. CASE ReadCopy(c)  BY <2>3 DEF ReadCopy
  <2>4. CASE ReadLeave(c)  BY <2>4 DEF ReadLeave
  <2>5. CASE Filter(c)  BY <2>5 DEF Filter
  <2>6. CASE WriteFile(c)  BY <2>6 DEF WriteFile
  <2>7. CASE WriteFails(c)  BY <2>7 DEF WriteFails
  <2> QED  BY <1>11, <2>1, <2>2, <2>3, <2>4, <2>5, <2>6, <2>7 DEF ChildNext
<1>12. CASE UNCHANGED vars  BY <1>12 DEF vars
<1> QED
  BY <1>1, <1>2, <1>3, <1>4, <1>5, <1>6, <1>7, <1>8, <1>9, <1>10, <1>11, <1>12
  DEF Next, ParentNext

\* A full buffer holds characters of the input; an empty one is the parent's to fill.
LEMMA FilledStep == ASSUME IInv, TypeOK', [Next]_vars PROVE Filled'
<1> USE DEF Filled, Writing, parent, shared, child, Wait, Post
<1> /\ Started /\ OneToken /\ LineHeld /\ Filled
    /\ chan \in Channels /\ left \in Nat /\ i \in 0 .. BufSize /\ line \in Seq(Chars)
    /\ write_mutex \in [Channels -> Nat] /\ read_mutex \in [Channels -> Nat]
    /\ buf_len \in [Channels -> -1 .. BufSize]
    /\ buf \in [Channels -> [1 .. BufSize -> Chars \cup {Zero}]]
    /\ cpc \in [Channels -> {"none", "forked", "wait", "copy", "filter", "done", "late", "failed"}]
  BY DEF IInv, TypeOK
<1>0. \A c \in Channels :
        /\ write_mutex[c] \in Nat /\ read_mutex[c] \in Nat
        /\ Writing(c) => cpc[c] # "none" /\ write_mutex[c] = 0
  BY DEF Started, OneToken
<1>1. CASE StartChild
  <2>1. pc' # "copy"
    BY <1>1 DEF StartChild, GoOn
  <2>2. \A c \in Channels \ {chan} :
          write_mutex'[c] = write_mutex[c] /\ buf_len'[c] = buf_len[c] /\ cpc'[c] = cpc[c]
    BY <1>1 DEF StartChild, SharedInit
  <2>3. buf_len'[chan] = 0 /\ buf' = buf
    BY <1>1 DEF StartChild, SharedInit
  <2> QED  BY <2>1, <2>2, <2>3
<1>2. CASE StartFails
  <2>1. CASE SharedInit
    <3>1. pc' = "exit" /\ cpc' = cpc
      BY <1>2 DEF StartFails
    <3>2. \A c \in Channels \ {chan} :
            write_mutex'[c] = write_mutex[c] /\ buf_len'[c] = buf_len[c]
      BY <2>1 DEF SharedInit
    <3>3. buf_len'[chan] = 0 /\ buf' = buf
      BY <2>1 DEF SharedInit
    <3> QED  BY <3>1, <3>2, <3>3
  <2>2. CASE UNCHANGED shared  BY <1>2, <2>2 DEF StartFails
  <2> QED  BY <1>2, <2>1, <2>2 DEF StartFails
<1>3. CASE ReadLine  BY <1>3 DEF ReadLine
<1>4. CASE ReadEnd  BY <1>4 DEF ReadEnd
<1>5. CASE WriteEnter
  <2>1. buf_len[chan] = 0
    BY <1>5 DEF WriteEnter, Started
  <2>2. /\ i' = 0 /\ chan' = chan /\ buf' = buf /\ buf_len' = buf_len /\ cpc' = cpc
        /\ write_mutex' = [write_mutex EXCEPT ![chan] = @ - 1]
    BY <1>5 DEF WriteEnter
  <2>3. \A c \in Channels : cpc'[c] # "none" /\ write_mutex'[c] > 0 => buf_len'[c] = 0
    BY <2>1, <2>2
  <2>4. \A c \in Channels : Writing(c)' => buf_len'[c] = 0 /\ i' = 0
    BY <2>1, <2>2
  <2>5. \A c \in Channels : \A k \in 1 .. buf_len'[c] : buf'[c][k] \in Chars
    BY <2>2
  <2> QED  BY <2>3, <2>4, <2>5
<1>6. CASE WriteCopy
  <2>1. i + 1 \in 1 .. BufSize /\ i + 1 \in 1 .. Len(line)
    BY <1>6 DEF WriteCopy, LineHeld, NeedToWrite
  <2>2. line[i + 1] \in Chars
    BY <2>1
  <2>3. /\ buf' = [buf EXCEPT ![chan][i + 1] = line[i + 1]] /\ i' = i + 1
        /\ pc = "copy" /\ pc' = pc /\ chan' = chan
        /\ buf_len' = buf_len /\ write_mutex' = write_mutex /\ cpc' = cpc
    BY <1>6 DEF WriteCopy
  <2>4. \A c \in Channels \ {chan} : buf'[c] = buf[c]
    BY <2>3
  <2>5. buf_len[chan] = 0 /\ \A k \in 1 .. i : buf[chan][k] \in Chars
    BY <2>3
  <2>6. \A k \in 1 .. i' : buf'[chan][k] \in Chars
    BY <2>1, <2>2, <2>3, <2>5
  <2> QED  BY <2>3, <2>4, <2>5, <2>6
<1>7. CASE WriteLeave
  <2>1. /\ buf_len' = [buf_len EXCEPT ![chan] = i] /\ i =< BufSize
        /\ pc = "copy" /\ pc' # "copy" /\ chan' = chan
        /\ buf' = buf /\ write_mutex' = write_mutex /\ cpc' = cpc
    BY <1>7 DEF WriteLeave, Rest, NeedToWrite
  <2>2. cpc[chan] # "none" /\ write_mutex[chan] = 0
    BY <1>0, <2>1
  <2>3. \A k \in 1 .. i : buf[chan][k] \in Chars
    BY <2>1
  <2> QED  BY <2>1, <2>2, <2>3
<1>8. CASE Close
  <2>1. /\ buf_len' = [buf_len EXCEPT ![chan] = -1] /\ pc' # "copy"
        /\ write_mutex' = [write_mutex EXCEPT ![chan] = @ - 1]
        /\ buf' = buf /\ cpc' = cpc
    BY <1>8 DEF Close
  <2>2. write_mutex'[chan] = 0
    BY <1>8, <2>1 DEF Close, Started, OneToken
  <2> QED  BY <2>1, <2>2
<1>9. CASE Unlink  BY <1>9 DEF Unlink
<1>10. CASE Reap  BY <1>10 DEF Reap
<1>11. ASSUME NEW c \in Channels, ChildNext(c) PROVE Filled'
  <2>1. CASE Connect(c)  BY <2>1 DEF Connect
  <2>2. CASE ReadEnter(c)  BY <2>2 DEF ReadEnter
  <2>3. CASE ReadCopy(c)  BY <2>3 DEF ReadCopy
  <2>4. CASE ReadLeave(c)
    <3>1. /\ buf_len' = [buf_len EXCEPT ![c] = 0] /\ buf' = buf
          /\ write_mutex' = [write_mutex EXCEPT ![c] = @ + 1]
          /\ pc' = pc /\ chan' = chan /\ i' = i
          /\ \A d \in Channels \ {c} : cpc'[d] = cpc[d]
      BY <2>4 DEF ReadLeave
    <3> QED  BY <3>1
  <2>5. CASE Filter(c)  BY <2>5 DEF Filter
  <2>6. CASE WriteFile(c)  BY <2>6 DEF WriteFile
  <2>7. CASE WriteFails(c)  BY <2>7 DEF WriteFails
  <2> QED  BY <1>11, <2>1, <2>2, <2>3, <2>4, <2>5, <2>6, <2>7 DEF ChildNext
<1>12. CASE UNCHANGED vars  BY <1>12 DEF vars
<1> QED
  BY <1>1, <1>2, <1>3, <1>4, <1>5, <1>6, <1>7, <1>8, <1>9, <1>10, <1>11, <1>12
  DEF Next, ParentNext

\* The parent does not touch the buffer a child is reading.
LEMMA TornStep == ASSUME IInv, TypeOK', [Next]_vars PROVE NothingTorn'
<1> USE DEF NothingTorn, Copying, parent, shared, child, Wait, Post
<1> /\ Started /\ OneToken /\ Filled /\ NothingTorn
    /\ chan \in Channels /\ bufin \in [Channels -> Text]
    /\ write_mutex \in [Channels -> Nat] /\ read_mutex \in [Channels -> Nat]
    /\ buf_len \in [Channels -> -1 .. BufSize]
    /\ buf \in [Channels -> [1 .. BufSize -> Chars \cup {Zero}]]
    /\ cpc \in [Channels -> {"none", "forked", "wait", "copy", "filter", "done", "late", "failed"}]
  BY DEF IInv, TypeOK
<1>1. CASE StartChild
  <2>1. cpc'[chan] = "forked" /\ bufin' = bufin /\ buf' = buf
    BY <1>1 DEF StartChild, SharedInit
  <2>2. \A c \in Channels \ {chan} : buf_len'[c] = buf_len[c] /\ cpc'[c] = cpc[c]
    BY <1>1 DEF StartChild, SharedInit
  <2> QED  BY <2>1, <2>2
<1>2. CASE StartFails
  <2>1. CASE SharedInit
    <3>1. cpc[chan] = "none" /\ cpc' = cpc /\ bufin' = bufin /\ buf' = buf
      BY <1>2, <2>1 DEF StartFails, SharedInit, Started
    <3>2. \A c \in Channels \ {chan} : buf_len'[c] = buf_len[c]
      BY <2>1 DEF SharedInit
    <3> QED  BY <3>1, <3>2
  <2>2. CASE UNCHANGED shared  BY <1>2, <2>2 DEF StartFails
  <2> QED  BY <1>2, <2>1, <2>2 DEF StartFails
<1>3. CASE ReadLine  BY <1>3 DEF ReadLine
<1>4. CASE ReadEnd  BY <1>4 DEF ReadEnd
<1>5. CASE WriteEnter  BY <1>5 DEF WriteEnter
<1>6. CASE WriteCopy
  <2>1. pc = "copy" /\ cpc' = cpc /\ bufin' = bufin /\ buf_len' = buf_len
    BY <1>6 DEF WriteCopy
  <2>2. cpc[chan] # "copy"
    BY <2>1 DEF Started, OneToken, Writing
  <2>3. \A c \in Channels \ {chan} : buf'[c] = buf[c]
    BY <1>6 DEF WriteCopy
  <2> QED  BY <2>1, <2>2, <2>3
<1>7. CASE WriteLeave
  <2>1. pc = "copy" /\ cpc' = cpc /\ bufin' = bufin /\ buf' = buf
    BY <1>7 DEF WriteLeave, Rest
  <2>2. cpc[chan] # "copy"
    BY <2>1 DEF Started, OneToken, Writing
  <2>3. \A c \in Channels \ {chan} : buf_len'[c] = buf_len[c]
    BY <1>7 DEF WriteLeave, Rest
  <2> QED  BY <2>1, <2>2, <2>3
<1>8. CASE Close
  <2>1. write_mutex[chan] > 0 /\ cpc' = cpc /\ bufin' = bufin /\ buf' = buf
    BY <1>8 DEF Close
  <2>2. cpc[chan] # "copy"
    BY <1>8, <2>1 DEF Close, Started, OneToken
  <2>3. \A c \in Channels \ {chan} : buf_len'[c] = buf_len[c]
    BY <1>8 DEF Close
  <2> QED  BY <2>1, <2>2, <2>3
<1>9. CASE Unlink  BY <1>9 DEF Unlink
<1>10. CASE Reap  BY <1>10 DEF Reap
<1>11. ASSUME NEW c \in Channels, ChildNext(c) PROVE NothingTorn'
  <2>1. CASE Connect(c)  BY <2>1 DEF Connect
  <2>2. CASE ReadEnter(c)
    <3>1. /\ bufin' = [bufin EXCEPT ![c] = <<>>] /\ buf' = buf /\ buf_len' = buf_len
          /\ cpc' = [cpc EXCEPT ![c] = "copy"]
      BY <2>2 DEF ReadEnter
    <3> QED  BY <3>1
  <2>3. CASE ReadCopy(c)
    <3> DEFINE n == Len(bufin[c])
    <3>1. bufin[c] \in Seq(Chars \cup {Zero}) /\ n \in Nat
      BY DEF Text
    <3>2. n + 1 \in 1 .. BufSize /\ n + 1 =< buf_len[c] /\ cpc[c] = "copy"
      BY <2>3, <3>1 DEF ReadCopy
    <3>3. buf[c][n + 1] \in Chars \cup {Zero}
      BY <3>2
    <3>4. /\ Len(Append(bufin[c], buf[c][n + 1])) = n + 1
          /\ \A k \in 1 .. n : Append(bufin[c], buf[c][n + 1])[k] = bufin[c][k]
          /\ Append(bufin[c], buf[c][n + 1])[n + 1] = buf[c][n + 1]
      BY <3>1, <3>3
    <3>5. /\ bufin' = [bufin EXCEPT ![c] = Append(bufin[c], buf[c][n + 1])]
          /\ buf' = buf /\ buf_len' = buf_len /\ cpc' = cpc
      BY <2>3 DEF ReadCopy
    <3>6. \A k \in 1 .. n + 1 : k =< buf_len[c] /\ bufin'[c][k] = buf[c][k]
      BY <3>1, <3>2, <3>4, <3>5
    <3> QED  BY <3>2, <3>4, <3>5, <3>6
  <2>4. CASE ReadLeave(c)
    <3>1. \A k \in 1 .. Len(bufin[c]) : bufin[c][k] \in Chars
      <4>1. \A k \in 1 .. Len(bufin[c]) : k =< buf_len[c] /\ bufin[c][k] = buf[c][k]
        BY <2>4 DEF ReadLeave
      <4>2. buf_len[c] \in Int /\ \A k \in 1 .. buf_len[c] : buf[c][k] \in Chars
        BY DEF Filled
      <4>3. Len(bufin[c]) \in Nat
        BY DEF Text
      <4> QED  BY ONLY <4>1, <4>2, <4>3
    <3>2. /\ bufin' = bufin /\ buf' = buf /\ cpc'[c] # "copy"
          /\ \A d \in Channels \ {c} : cpc'[d] = cpc[d] /\ buf_len'[d] = buf_len[d]
      BY <2>4 DEF ReadLeave
    <3> QED  BY <3>1, <3>2
  <2>5. CASE Filter(c)  BY <2>5 DEF Filter
  <2>6. CASE WriteFile(c)  BY <2>6 DEF WriteFile
  <2>7. CASE WriteFails(c)  BY <2>7 DEF WriteFails
  <2> QED  BY <1>11, <2>1, <2>2, <2>3, <2>4, <2>5, <2>6, <2>7 DEF ChildNext
<1>12. CASE UNCHANGED vars  BY <1>12 DEF vars
<1> QED
  BY <1>1, <1>2, <1>3, <1>4, <1>5, <1>6, <1>7, <1>8, <1>9, <1>10, <1>11, <1>12
  DEF Next, ParentNext

\* The parent closes the channels in order, and waits for each child.
LEMMA EndingsStep == ASSUME IInv, [Next]_vars PROVE Endings'
<1>0. TypeOK /\ Started /\ Endings
  BY DEF IInv
<1>t. /\ chan \in Channels /\ linked \in [Channels -> BOOLEAN] /\ DOMAIN file = Channels
      /\ buf_len \in [Channels -> -1 .. BufSize] /\ DOMAIN cpc = Channels
  BY <1>0 DEF TypeOK
<1>1. CASE StartChild
  <2>1. /\ pc = "start" /\ pc' \in {"start", "read"} /\ file' = file
        /\ cpc'[chan] = "forked" /\ linked'[chan] = TRUE
        /\ \A c \in Channels \ {chan} :
             cpc'[c] = cpc[c] /\ linked'[c] = linked[c] /\ buf_len'[c] = buf_len[c]
    BY <1>t, <1>1 DEF StartChild, GoOn, SharedInit
  <2>2. cpc[chan] = "none"
    BY <1>0, <1>t, <2>1 DEF Started
  <2>3. \A c \in Channels : cpc[c] # "none" => linked[c]
    BY <1>0, <1>t, <2>1 DEF Endings, Unlinked
  <2> QED  BY <1>0, <1>t, <2>1, <2>2, <2>3 DEF Endings, Unlinked
<1>2. CASE StartFails
  <2>1. /\ pc = "start" /\ pc' = "exit" /\ file' = file /\ cpc' = cpc /\ chan' = chan
        /\ \A c \in Channels \ {chan} : linked'[c] = linked[c] /\ buf_len'[c] = buf_len[c]
    BY <1>t, <1>2 DEF StartFails, SharedInit, shared, child
  <2>2. cpc[chan] = "none"
    BY <1>0, <1>t, <2>1 DEF Started
  <2>3. StartFailed'
    BY <1>t, <2>1, <2>2 DEF StartFailed
  <2> QED  BY <1>0, <1>t, <2>1, <2>2, <2>3 DEF Endings, Unlinked
<1>3. CASE ReadLine \/ ReadEnd \/ WriteEnter \/ WriteCopy \/ WriteLeave
  <2>1. /\ cpc' = cpc /\ file' = file /\ linked' = linked
        /\ pc \in {"read", "enter", "copy"} /\ pc' \in {"read", "enter", "copy", "close"}
        /\ pc' = "close" => chan' = "small"
    BY <1>3 DEF ReadLine, ReadEnd, WriteEnter, WriteCopy, WriteLeave, child, shared
  <2>2. \A c \in Channels : cpc[c] # "none" => linked[c]
    BY <1>0, <1>t, <2>1 DEF Endings, Unlinked
  <2> QED  BY <1>0, <1>t, <2>1, <2>2 DEF Endings, Unlinked
<1>4. CASE Close
  <2>1. /\ pc = "close" /\ pc' = "unlink" /\ chan' = chan /\ buf_len'[chan] = -1
        /\ UNCHANGED <<cpc, file, linked>>
        /\ \A c \in Channels \ {chan} : buf_len'[c] = buf_len[c]
    BY <1>t, <1>4 DEF Close, child
  <2> QED  BY <1>0, <1>t, <2>1 DEF Endings, Unlinked, Ended
<1>5. CASE Unlink
  <2>1. /\ pc = "unlink" /\ pc' = "reap" /\ chan' = chan /\ linked'[chan] = FALSE
        /\ UNCHANGED <<cpc, file, buf_len>>
        /\ \A c \in Channels \ {chan} : linked'[c] = linked[c]
    BY <1>t, <1>5 DEF Unlink, child
  <2> QED  BY <1>0, <1>t, <2>1 DEF Endings, Unlinked, Ended
<1>6. CASE Reap
  <2>1. /\ pc = "reap" /\ Ended(chan) /\ UNCHANGED <<cpc, file, linked, buf_len>>
        /\ \/ chan = "small" /\ chan' = "large" /\ pc' = "close"
           \/ chan = "large" /\ pc' = "exit" /\ chan' = chan
    BY <1>6 DEF Reap, shared, child
  <2>2. CASE chan = "small" /\ chan' = "large" /\ pc' = "close"
    BY <1>0, <1>t, <2>1, <2>2 DEF Endings, Unlinked, Ended
  <2>3. CASE chan = "large" /\ pc' = "exit" /\ chan' = chan
    <3>1. \A c \in Channels : Ended(c)'
      BY <1>0, <2>1, <2>3 DEF Endings, Ended
    <3> QED  BY <1>0, <1>t, <2>1, <2>3, <3>1 DEF Endings, Unlinked
  <2> QED  BY <2>1, <2>2, <2>3
<1>7. ASSUME NEW c \in Channels, ChildNext(c) PROVE Endings'
  <2>1. /\ UNCHANGED <<pc, chan, linked>> /\ ~Ended(c) /\ cpc[c] # "none" /\ cpc'[c] # "none"
        /\ \A d \in Channels \ {c} :
             cpc'[d] = cpc[d] /\ file'[d] = file[d] /\ buf_len'[d] = buf_len[d]
    BY <1>t, <1>7 DEF ChildNext, Connect, ReadEnter, ReadCopy, ReadLeave, Filter, WriteFile,
                      WriteFails, parent, shared, Ended
  <2>2. StartFailed' => StartFailed
    BY <2>1 DEF StartFailed
  <2>3. /\ chan' = "large" /\ pc' \in {"close", "unlink", "reap"} => Ended("small")'
        /\ pc' = "exit" /\ ~StartFailed' => \A d \in Channels : Ended(d)'
    <3>1. \A d \in Channels : Ended(d) => Ended(d)'
      BY <2>1 DEF Ended
    <3>2. StartFailed => StartFailed'
      BY <2>1 DEF StartFailed
    <3> QED  BY <1>0, <2>1, <3>1, <3>2 DEF Endings
  <2>4. /\ cpc'[c] \in {"forked", "late"} =>
             /\ cpc[c] = "forked" /\ cpc'[c] = "late" /\ ~linked[c]
             /\ file'[c] = file[c] /\ buf_len'[c] = buf_len[c]
    BY <1>t, <1>7 DEF ChildNext, Connect, ReadEnter, ReadCopy, ReadLeave, Filter, WriteFile,
                      WriteFails, shared
  <2> QED  BY <1>0, <2>1, <2>3, <2>4 DEF Endings, Unlinked
<1>8. CASE UNCHANGED vars
  BY <1>0, <1>8 DEF vars, parent, shared, child, Endings, Unlinked, Ended, StartFailed
<1> QED
  BY <1>1, <1>2, <1>3, <1>4, <1>5, <1>6, <1>7, <1>8 DEF Next, ParentNext

\* What a child finds in its buffer has been sent to it, and the -1 by the parent's end.
LEMMA SentStep == ASSUME IInv, TypeOK', [Next]_vars PROVE Sent'
<1> USE DEF Wait, Post
<1>0. /\ TypeOK /\ Started /\ OneToken /\ LineHeld /\ Filled /\ Sent
      /\ chan \in Channels /\ left \in Nat /\ i \in 0 .. BufSize /\ line \in Seq(Chars)
      /\ read_mutex \in [Channels -> Nat] /\ buf_len \in [Channels -> -1 .. BufSize]
      /\ buf \in [Channels -> [1 .. BufSize -> Chars \cup {Zero}]]
      /\ cpc \in [Channels -> {"none", "forked", "wait", "copy", "filter", "done", "late", "failed"}]
  BY DEF IInv, TypeOK
<1>1. CASE StartChild
  <2>1. /\ pc = "start" /\ pc' \in {"start", "read"} /\ cpc'[chan] = "forked"
        /\ read_mutex'[chan] = 0 /\ buf_len'[chan] = 0
        /\ \A c \in Channels \ {chan} :
             cpc'[c] = cpc[c] /\ read_mutex'[c] = read_mutex[c] /\ buf_len'[c] = buf_len[c]
    BY <1>0, <1>1 DEF StartChild, GoOn, SharedInit
  <2> QED  BY <1>0, <2>1 DEF Sent, Closed, Unlinked, Writing, Copying
<1>2. CASE StartFails
  <2>1. /\ pc = "start" /\ pc' = "exit" /\ cpc' = cpc /\ cpc[chan] = "none"
        /\ \A c \in Channels \ {chan} : read_mutex'[c] = read_mutex[c] /\ buf_len'[c] = buf_len[c]
    BY <1>0, <1>2 DEF StartFails, SharedInit, Started, shared, child
  <2> QED  BY <1>0, <2>1 DEF Sent, Closed, Unlinked, Writing, Copying
<1>3. CASE ReadLine \/ ReadEnd \/ WriteEnter
  <2>1. /\ UNCHANGED <<read_mutex, buf, buf_len, child>> /\ pc \in {"read", "enter"}
        /\ pc' \in {"enter", "copy", "close"} /\ pc' = "copy" => i' = 0
    BY <1>3 DEF ReadLine, ReadEnd, WriteEnter, shared
  <2> QED  BY <1>0, <2>1 DEF Sent, Closed, Unlinked, Writing, Copying, child
<1>4. CASE WriteCopy
  <2>1. i + 1 \in 1 .. BufSize
    BY <1>0, <1>4 DEF WriteCopy, NeedToWrite
  <2>2. /\ pc = "copy" /\ UNCHANGED <<pc, chan, line, read_mutex, buf_len, cpc>> /\ i' = i + 1
        /\ buf'[chan][i + 1] = line[i + 1]
        /\ \A k \in 1 .. i : buf'[chan][k] = buf[chan][k]
    BY <1>0, <1>4, <2>1 DEF WriteCopy, child
  <2>3. \A k \in 1 .. i : buf[chan][k] = line[k]
    BY <1>0, <2>2 DEF Sent, Writing
  <2>4. \A k \in 1 .. i' : buf'[chan][k] = line'[k]
    <3> TAKE k \in 1 .. i'
    <3>1. i \in Nat /\ i' = i + 1 /\ line' = line
      BY <1>0, <2>2
    <3>2. k \in 1 .. i \/ k = i + 1
      BY <3>1
    <3> QED  BY <2>2, <2>3, <3>1, <3>2
  <2> QED  BY <1>0, <2>2, <2>4 DEF Sent, Closed, Unlinked, Writing, Copying
<1>5. CASE WriteLeave
  <2>1. /\ pc = "copy" /\ pc' \in {"enter", "read"} /\ cpc' = cpc
        /\ buf_len'[chan] = NeedToWrite /\ NeedToWrite > 0
        /\ \A c \in Channels \ {chan} : read_mutex'[c] = read_mutex[c] /\ buf_len'[c] = buf_len[c]
    BY <1>0, <1>5 DEF WriteLeave, Rest, NeedToWrite, LineHeld, child
  <2> QED  BY <1>0, <2>1 DEF Sent, Closed, Unlinked, Writing, Copying
<1>6. CASE Close
  <2>1. /\ pc = "close" /\ pc' = "unlink" /\ chan' = chan /\ cpc' = cpc /\ buf_len'[chan] = -1
        /\ \A c \in Channels \ {chan} : read_mutex'[c] = read_mutex[c] /\ buf_len'[c] = buf_len[c]
    BY <1>0, <1>6 DEF Close, child
  <2> QED  BY <1>0, <2>1 DEF Sent, Closed, Unlinked, Writing, Copying
<1>7. CASE Unlink \/ Reap
  <2>1. /\ UNCHANGED <<read_mutex, buf_len, cpc>> /\ pc' # "copy"
        /\ \A c \in Channels : Closed(c) => Closed(c)'
    BY <1>0, <1>7 DEF Unlink, Reap, shared, child, Closed, Unlinked
  <2> QED  BY <1>0, <2>1 DEF Sent, Writing, Copying
<1>8. ASSUME NEW c \in Channels, ChildNext(c) PROVE Sent'
  <2>1. /\ UNCHANGED <<pc, chan, i, line, buf>>
        /\ \A d \in Channels \ {c} :
             cpc'[d] = cpc[d] /\ read_mutex'[d] = read_mutex[d] /\ buf_len'[d] = buf_len[d]
    BY <1>0, <1>8 DEF ChildNext, Connect, ReadEnter, ReadCopy, ReadLeave, Filter, WriteFile,
                      WriteFails, parent, shared
  <2>2. \A d \in Channels : Closed(d)' = Closed(d)
    BY <2>1 DEF Closed, Unlinked
  <2>3. cpc'[c] # "none" /\ (read_mutex'[c] > 0 \/ Copying(c)') => buf_len'[c] # 0
    <3>1. CASE ReadLeave(c)
      <4>1. read_mutex[c] = 0
        <5>1. write_mutex[c] \in Nat /\ read_mutex[c] \in Nat /\ cpc[c] = "copy"
          BY <1>0, <3>1 DEF ReadLeave, TypeOK
        <5>2. write_mutex[c] + read_mutex[c] + (IF Writing(c) THEN 1 ELSE 0) + 1 = 1
          BY <1>0, <5>1 DEF OneToken, Copying
        <5> QED  BY <5>1, <5>2
      <4> QED  BY <1>0, <3>1, <4>1 DEF ReadLeave, Copying
    <3>2. CASE ReadEnter(c)
      BY <1>0, <3>2 DEF ReadEnter, Sent
    <3>3. CASE Connect(c) \/ ReadCopy(c) \/ Filter(c) \/ WriteFile(c) \/ WriteFails(c)
      BY <1>0, <3>3 DEF Connect, ReadCopy, Filter, WriteFile, WriteFails, Sent, Copying, shared
    <3> QED  BY <1>8, <3>1, <3>2, <3>3 DEF ChildNext
  <2>4. /\ buf_len'[c] = -1 => buf_len[c] = -1
        /\ cpc'[c] = "done" => buf_len'[c] = 0 /\ Closed(c)
    <3>1. CASE ReadLeave(c)
      <4>1. /\ buf_len'[c] = 0 /\ cpc'[c] = (IF buf_len[c] > 0 THEN "filter" ELSE "done")
            /\ cpc[c] = "copy" /\ buf_len[c] \in -1 .. BufSize
        BY <1>0, <3>1 DEF ReadLeave
      <4>2. buf_len[c] # 0
        BY <1>0, <4>1 DEF Sent, Copying
      <4> QED  BY <1>0, <4>1, <4>2 DEF Sent
    <3>2. CASE Connect(c) \/ ReadEnter(c) \/ ReadCopy(c) \/ Filter(c) \/ WriteFile(c) \/ WriteFails(c)
      <4>1. buf_len' = buf_len /\ cpc'[c] # "done"
        <5>1. CASE Connect(c)     BY <1>0, <5>1 DEF Connect, shared
        <5>2. CASE ReadEnter(c)   BY <1>0, <5>2 DEF ReadEnter
        <5>3. CASE ReadCopy(c)    BY <1>0, <5>3 DEF ReadCopy, shared
        <5>4. CASE Filter(c)      BY <1>0, <5>4 DEF Filter, shared
        <5>5. CASE WriteFile(c) \/ WriteFails(c)  BY <1>0, <5>5 DEF WriteFile, WriteFails, shared
        <5> QED  BY <3>2, <5>1, <5>2, <5>3, <5>4, <5>5
      <4> QED  BY <4>1
    <3> QED  BY <1>8, <3>1, <3>2 DEF ChildNext
  <2>5. \A k \in 1 .. i : Writing(c) => buf[c][k] = line[k]
    BY <1>0 DEF Sent
  <2> QED  BY <1>0, <2>1, <2>2, <2>3, <2>4, <2>5 DEF Sent, Writing, Copying
<1>9. CASE UNCHANGED vars
  BY <1>0, <1>9 DEF vars, parent, shared, child, Sent, Closed, Unlinked, Writing, Copying
<1> QED
  BY <1>1, <1>2, <1>3, <1>4, <1>5, <1>6, <1>7, <1>8, <1>9 DEF Next, ParentNext

\* Nothing is in a buffer or a file before the first line is read.
LEMMA UnusedStep == ASSUME IInv, [Next]_vars PROVE Unused'
<1> USE DEF Wait, Post
<1>0. TypeOK /\ Started /\ OneToken /\ Sent /\ Unused
  BY DEF IInv
<1>1. CASE StartChild
  <2>1. /\ pc = "start" /\ chan \in Channels /\ file' = file
        /\ cpc'[chan] = "forked" /\ buf_len'[chan] = 0
        /\ \A c \in Channels \ {chan} : cpc'[c] = cpc[c] /\ buf_len'[c] = buf_len[c]
    BY <1>0, <1>1 DEF StartChild, SharedInit, TypeOK
  <2> QED  BY <1>0, <2>1 DEF Unused
<1>2. CASE ParentNext /\ ~StartChild
  <2>1. pc' # "start"
    BY <1>2 DEF ParentNext, StartFails, ReadLine, ReadEnd, WriteEnter, WriteCopy, WriteLeave, Rest,
                Close, Unlink, Reap
  <2> QED  BY <2>1 DEF Unused
<1>3. ASSUME NEW c \in Channels, ChildNext(c) PROVE Unused'
  <2>0. pc' = pc
    BY <1>3 DEF ChildNext, Connect, ReadEnter, ReadCopy, ReadLeave, Filter, WriteFile, WriteFails,
                parent
  <2>1. CASE pc = "start"
    <3>1. cpc[c] \in {"forked", "wait"} /\ (cpc[c] = "wait" => read_mutex[c] = 0) /\ linked[c] \in BOOLEAN
      BY <1>0, <1>3, <2>1 DEF ChildNext, Connect, ReadEnter, ReadCopy, ReadLeave, Filter, WriteFile,
                              WriteFails, Unused, Sent, TypeOK
    <3>2. Connect(c)
      <4>1. ~ReadEnter(c)
        BY <3>1 DEF ReadEnter
      <4>2. ~ReadCopy(c) /\ ~ReadLeave(c) /\ ~Filter(c) /\ ~WriteFile(c) /\ ~WriteFails(c)
        BY <3>1 DEF ReadCopy, ReadLeave, Filter, WriteFile, WriteFails
      <4> QED  BY <1>3, <4>1, <4>2 DEF ChildNext
    <3>3. linked[c]
      BY <1>0, <2>1, <3>1 DEF IInv, Endings, Unlinked
    <3>4. /\ cpc'[c] \in {"wait", "failed"} /\ UNCHANGED <<buf_len, file>>
          /\ \A d \in Channels \ {c} : cpc'[d] = cpc[d]
      BY <1>0, <3>2, <3>3 DEF Connect, TypeOK, shared
    <3> QED  BY <1>0, <2>0, <2>1, <3>4 DEF Unused
  <2>2. CASE pc # "start"
    BY <2>0, <2>2 DEF Unused
  <2> QED  BY <2>1, <2>2
<1>4. CASE UNCHANGED vars
  BY <1>0, <1>4 DEF vars, parent, shared, child, Unused
<1> QED  BY <1>1, <1>2, <1>3, <1>4 DEF Next

\* The parent closes its children once it has read everything.
LEMMA InputReadStep == ASSUME IInv, [Next]_vars PROVE InputRead'
<1> USE DEF Wait, Post
<1>0. InputRead
  BY DEF IInv
<1>1. CASE ParentNext
  BY <1>0, <1>1 DEF ParentNext, StartChild, GoOn, StartFails, ReadLine, ReadEnd, WriteEnter,
                    WriteCopy, WriteLeave, Rest, Close, Unlink, Reap, InputRead
<1>2. ASSUME NEW c \in Channels, ChildNext(c) PROVE InputRead'
  <2>1. parent' = parent
    BY <1>2 DEF ChildNext, Connect, ReadEnter, ReadCopy, ReadLeave, Filter, WriteFile, WriteFails
  <2> QED  BY <1>0, <2>1 DEF InputRead, parent
<1>3. CASE UNCHANGED vars
  BY <1>0, <1>3 DEF vars, parent, InputRead
<1> QED  BY <1>1, <1>2, <1>3 DEF Next

\* filter never runs beyond the end of what was read.
LEMMA FilteringStep == ASSUME IInv, [Next]_vars PROVE Filtering'
<1> USE DEF Wait, Post
<1>0. TypeOK /\ Filtering
  BY DEF IInv
<1>1. CASE child' = child
  BY <1>0, <1>1 DEF child, Filtering
<1>2. CASE StartChild
  <2>1. /\ UNCHANGED <<bufin, pos>> /\ \A c \in Channels : cpc'[c] = "filter" => cpc[c] = "filter"
    BY <1>0, <1>2 DEF StartChild, TypeOK
  <2> QED  BY <1>0, <2>1 DEF Filtering
<1>3. ASSUME NEW c \in Channels, ChildNext(c) PROVE Filtering'
  <2>1. pos[c] \in Nat /\ Len(bufin[c]) \in Nat
    BY <1>0, TextLemma DEF TypeOK
  <2>2. \A d \in Channels \ {c} : cpc'[d] = cpc[d] /\ pos'[d] = pos[d] /\ bufin'[d] = bufin[d]
    BY <1>0, <1>3 DEF ChildNext, Connect, ReadEnter, ReadCopy, ReadLeave, Filter, WriteFile,
                      WriteFails, TypeOK
  <2>3. cpc'[c] = "filter" => pos'[c] =< Len(bufin'[c])
    <3>1. CASE Filter(c)
      <4>1. pos'[c] = pos[c] + 1 /\ bufin' = bufin /\ pos[c] < Len(bufin[c])
        BY <1>0, <3>1 DEF Filter, TypeOK
      <4> QED  BY <2>1, <4>1
    <3>2. CASE ReadLeave(c)
      BY <1>0, <2>1, <3>2 DEF ReadLeave, TypeOK
    <3>3. CASE Connect(c) \/ ReadEnter(c) \/ WriteFile(c) \/ WriteFails(c)
      BY <1>0, <3>3 DEF Connect, ReadEnter, WriteFile, WriteFails, TypeOK
    <3>4. CASE ReadCopy(c)
      BY <1>0, <3>4 DEF ReadCopy
    <3> QED  BY <1>3, <3>1, <3>2, <3>3, <3>4 DEF ChildNext
  <2> QED  BY <1>0, <2>2, <2>3 DEF Filtering
<1> QED
  BY <1>1, <1>2, <1>3 DEF Next, ParentNext, vars, StartFails, ReadLine, ReadEnd, WriteEnter,
     WriteCopy, WriteLeave, Close, Unlink, Reap

\* The invariant: one token per channel, the buffer filled with the line while it is passed
\* on, and the channels closed one after the other.
THEOREM Invariance == Spec => []IInv
<1>1. IInv /\ [Next]_vars => IInv'
  BY TypeStep, StartedStep, TokenStep, LineStep, FilledStep, TornStep, EndingsStep, SentStep,
     UnusedStep, InputReadStep, FilteringStep DEF IInv
<1> QED  BY <1>1, InitHolds, PTL DEF Spec

\* Every variable stays in its type, for every input and under every failure.
THEOREM TypeCorrect == Spec => []TypeOK
BY Invariance, PTL DEF IInv

\* Parent and child are never in the buffer together: to be there, each holds the token.
THEOREM HandedOver == Spec => []BufferExclusive
<1>1. IInv => BufferExclusive
  <2> SUFFICES ASSUME IInv, NEW c \in Channels, Writing(c), Copying(c) PROVE FALSE
    BY DEF BufferExclusive
  <2>1. write_mutex[c] \in Nat /\ read_mutex[c] \in Nat
    BY DEF IInv, TypeOK
  <2>2. write_mutex[c] + read_mutex[c] + 1 + 1 = 1
    BY DEF IInv, OneToken, Copying
  <2> QED  BY <2>1, <2>2
<1> QED  BY <1>1, Invariance, PTL

\* A child reads what the parent wrote, all of it from one line, whatever fails.
THEOREM NoTornRead == Spec => []NothingTorn
BY Invariance, PTL DEF IInv

\* EndsComplete: close_file_process leaves no child behind, and the race of shm_unlink with
\* a child's shared_connect is harmless: the loser had nothing to read.
THEOREM NobodyLeftBehind == Spec => []EndsComplete
<1>1. ASSUME IInv PROVE EndsComplete
  <2> SUFFICES ASSUME pc = "exit", ~StartFailed, NEW c \in Channels
               PROVE  Ended(c) /\ (cpc[c] = "late" => file[c] = <<>> /\ buf_len[c] = -1)
    BY DEF EndsComplete
  <2> QED  BY <1>1 DEF IInv, Endings
<1> QED  BY <1>1, Invariance, PTL

-----------------------------------------------------------------------------------
(* The refinement of LineSorter.  shared_buf_write starts at the beginning of the   *)
(* line in every round, so it holds for lines that one round can hand over, and for *)
(* longer ones of which every piece looks the same.                                 *)

Whole(l) == Len(l) =< BufSize \/ \A j, k \in 1 .. Len(l) : l[j] = l[k]

\* No input has a line that the handover by pieces can garble.
NoLongLine == \A text \in Inputs : \A k \in 1 .. Len(text) : Whole(text[k])

\* What the parent has in hand is such a line, and a line that fits is still all there.
Fitting ==
  /\ \A k \in 1 .. Len(todo) : Whole(todo[k])
  /\ pc \in {"enter", "copy"} => Whole(line) /\ (Len(line) =< BufSize => left = Len(line))

LEMMA FittingInit == ASSUME NoLongLine, Init PROVE Fitting
BY DEF NoLongLine, Init, Fitting

LEMMA FittingStep == ASSUME IInv, Fitting, [Next]_vars PROVE Fitting'
<1>0. TypeOK /\ LineHeld
  BY DEF IInv
<1>1. CASE ReadLine
  <2>1. /\ todo \in Seq(Lines) /\ todo # <<>> /\ line' = Head(todo) /\ todo' = Tail(todo)
        /\ left' = Len(line')
    BY <1>0, <1>1 DEF ReadLine, TypeOK
  <2>2. /\ Len(todo) \in Nat \ {0} /\ Len(todo') = Len(todo) - 1 /\ line' = todo[1]
        /\ \A k \in 1 .. Len(todo') : todo'[k] = todo[k + 1] /\ k + 1 \in 1 .. Len(todo)
    BY <2>1
  <2>3. Whole(line') /\ \A k \in 1 .. Len(todo') : Whole(todo'[k])
    BY <2>2 DEF Fitting
  <2> QED  BY <2>1, <2>3 DEF Fitting, Whole
<1>2. CASE WriteLeave
  <2>1. /\ todo' = todo /\ pc = "copy" /\ left' = Rest /\ left \in Nat
        /\ pc' = "enter" => line' = line /\ Rest > 0
        /\ pc' \in {"enter", "read"}
    BY <1>0, <1>2 DEF WriteLeave, TypeOK, Rest, NeedToWrite
  <2>2. pc' = "enter" => ~(Len(line) =< BufSize)
    <3> SUFFICES ASSUME pc' = "enter", Len(line) =< BufSize PROVE FALSE
      OBVIOUS
    <3>1. left = Len(line) /\ left - NeedToWrite > 0
      BY <2>1 DEF Fitting, Rest
    <3> QED  BY <2>1, <3>1 DEF NeedToWrite
  <2> QED  BY <2>1, <2>2 DEF Fitting, Whole
<1>3. CASE ParentNext /\ ~ReadLine /\ ~WriteLeave
  <2>1. /\ todo' = todo /\ line' = line /\ left' = left
        /\ pc' \in {"enter", "copy"} => pc \in {"enter", "copy"}
    BY <1>3 DEF ParentNext, StartChild, GoOn, StartFails, ReadEnd, WriteEnter, WriteCopy, Close,
                Unlink, Reap
  <2> QED  BY <2>1 DEF Fitting, Whole
<1>4. ASSUME NEW c \in Channels, ChildNext(c) PROVE Fitting'
  <2>1. parent' = parent
    BY <1>4 DEF ChildNext, Connect, ReadEnter, ReadCopy, ReadLeave, Filter, WriteFile, WriteFails
  <2> QED  BY <2>1 DEF parent, Fitting, Whole
<1>5. CASE UNCHANGED vars
  BY <1>5 DEF vars, parent, Fitting, Whole
<1> QED  BY <1>1, <1>2, <1>3, <1>4, <1>5 DEF Next

Symbols == Chars \cup {Zero}

LEMMA Texts ==
  ASSUME TypeOK, NEW c \in Channels
  PROVE  /\ bufin[c] \in Seq(Symbols) /\ bufout[c] \in Seq(Symbols) /\ file[c] \in Seq(Symbols)
         /\ buf[c] \in [1 .. BufSize -> Symbols] /\ line \in Seq(Symbols)
         /\ buf_len[c] \in -1 .. BufSize /\ pos[c] \in Nat
<1>1. bufin[c] \in Text /\ bufout[c] \in Text /\ file[c] \in Text
  BY DEF TypeOK
<1>2. Text = Seq(Symbols)
  BY DEF Text, Symbols
<1>3. buf[c] \in [1 .. BufSize -> Symbols] /\ buf_len[c] \in -1 .. BufSize /\ pos[c] \in Nat
  BY DEF TypeOK, Symbols
<1>4. line \in Seq(Symbols)
  BY DEF TypeOK, Symbols
<1> QED  BY <1>1, <1>2, <1>3, <1>4

\* A beginning of what a buffer holds.
LEMMA BufferText ==
  ASSUME NEW b \in [1 .. BufSize -> Symbols], NEW n \in 0 .. BufSize
  PROVE  /\ SubSeq(b, 1, n) \in Seq(Symbols) /\ Len(SubSeq(b, 1, n)) = n
         /\ \A k \in 1 .. n : SubSeq(b, 1, n)[k] = b[k]
<1>1. b \in Seq(Symbols) /\ Len(b) = BufSize
  OBVIOUS
<1> QED  BY <1>1

LEMMA TextTypes ==
  ASSUME IInv, NEW c \in Channels
  PROVE  /\ InLine(c) \in Seq(Symbols) /\ InChild(c) \in Seq(Symbols)
         /\ InBuffer(c) \in Seq(Symbols) /\ OnTheWay(c) \in Seq(Symbols)
         /\ Output(c) \in Seq(Symbols) /\ file[c] \in Seq(Symbols)
<1>0. TypeOK /\ LineHeld /\ Filtering
  BY DEF IInv
<1>1. /\ line \in Seq(Symbols) /\ Len(line) \in Nat
      /\ bufin[c] \in Seq(Symbols) /\ pos[c] \in Nat /\ Len(bufin[c]) \in Nat
      /\ bufout[c] \in Seq(Symbols) /\ file[c] \in Seq(Symbols) /\ <<>> \in Seq(Symbols)
  BY <1>0, Texts
<1>b. buf[c] \in [1 .. BufSize -> Symbols] /\ buf_len[c] \in -1 .. BufSize
  BY <1>0, Texts
<1>l. /\ pc \in {"enter", "copy"} => left \in 1 .. Len(line)
      /\ cpc[c] = "filter" => pos[c] =< Len(bufin[c])
  BY <1>0 DEF LineHeld, Filtering
<1>2. pc \in {"enter", "copy"} => SubSeq(line, Len(line) - left + 1, Len(line)) \in Seq(Symbols)
  <2> SUFFICES ASSUME pc \in {"enter", "copy"}
               PROVE  SubSeq(line, Len(line) - left + 1, Len(line)) \in Seq(Symbols)
    OBVIOUS
  <2>1. Len(line) - left \in 0 .. Len(line)
    BY <1>1, <1>l
  <2> QED  BY <1>1, <1>l, <2>1, CutInTwo
<1>3. cpc[c] = "filter" => SubSeq(bufin[c], pos[c] + 1, Len(bufin[c])) \in Seq(Symbols)
  <2> SUFFICES ASSUME cpc[c] = "filter" PROVE SubSeq(bufin[c], pos[c] + 1, Len(bufin[c])) \in Seq(Symbols)
    OBVIOUS
  <2>1. pos[c] \in 0 .. Len(bufin[c])
    BY <1>1, <1>l
  <2> QED  BY <1>1, <1>l, <2>1, CutInTwo
<1>4. InBuffer(c) \in Seq(Symbols)
  BY <1>b, <1>1, BufferText DEF InBuffer
<1>5. InLine(c) \in Seq(Symbols) /\ InChild(c) \in Seq(Symbols) /\ Output(c) \in Seq(Symbols)
  BY <1>1, <1>2, <1>3 DEF InLine, InChild, Output
<1>6. OnTheWay(c) \in Seq(Symbols)
  BY <1>1, <1>4, <1>5 DEF OnTheWay
<1> QED  BY <1>1, <1>4, <1>5, <1>6

\* A step that moves no text into or out of a piece, and ends and breaks nothing.
LEMMA Unmoved ==
  ASSUME todo' = todo, file' = file, pc' = "exit" <=> pc = "exit",
         \A c \in Channels : /\ OnTheWay(c)' = OnTheWay(c) /\ Output(c)' = Output(c)
                             /\ cpc'[c] = "failed" <=> cpc[c] = "failed"
  PROVE  [Sorter!SorterNext]_(Sorter!svars)
<1>1. (pc = "exit")' = (pc = "exit")
  OBVIOUS
<1>2. /\ [c \in Channels |-> OnTheWay(c)]' = [c \in Channels |-> OnTheWay(c)]
      /\ [c \in Channels |-> Output(c)]' = [c \in Channels |-> Output(c)]
      /\ [c \in Channels |-> cpc[c] = "failed"]' = [c \in Channels |-> cpc[c] = "failed"]
  OBVIOUS
<1>3. UNCHANGED Sorter!svars
  BY <1>1, <1>2 DEF Sorter!svars
<1> QED  BY <1>3

\* A child that fails loses the text that was on its way to its file.
LEMMA BreakMaps ==
  ASSUME MayFail, NEW c \in Channels, cpc[c] # "failed", cpc'[c] = "failed",
         OnTheWay(c)' = <<>>, Output(c)' = <<>>, todo' = todo, pc' = pc,
         NEW n \in 0 .. Len(Output(c)),
         file' = [file EXCEPT ![c] = @ \o SubSeq(Output(c), 1, n)],
         \A d \in Channels \ {c} : /\ OnTheWay(d)' = OnTheWay(d) /\ Output(d)' = Output(d)
                                 /\ cpc'[d] = cpc[d]
  PROVE  Sorter!Break(c)
<1>1. /\ [d \in Channels |-> OnTheWay(d)]' = [[d \in Channels |-> OnTheWay(d)] EXCEPT ![c] = <<>>]
      /\ [d \in Channels |-> Output(d)]' = [[d \in Channels |-> Output(d)] EXCEPT ![c] = <<>>]
      /\ [d \in Channels |-> Output(d)][c] = Output(c)
  OBVIOUS
<1>2. /\ [d \in Channels |-> cpc[d] = "failed"]' = [[d \in Channels |-> cpc[d] = "failed"] EXCEPT ![c] = TRUE]
      /\ ~[d \in Channels |-> cpc[d] = "failed"][c]
  OBVIOUS
<1>3. (pc = "exit")' = (pc = "exit")
  OBVIOUS
<1> QED  BY <1>1, <1>2, <1>3 DEF Sorter!Break

\* The steps of the parent before it has read anything: it starts the children or gives up.
LEMMA StartMaps ==
  ASSUME IInv, StartChild \/ StartFails
  PROVE  [Sorter!SorterNext]_(Sorter!svars)
<1>0. TypeOK /\ Started /\ Unused /\ pc = "start" /\ todo' = todo /\ file' = file
  BY DEF IInv, StartChild, StartFails, child
<1>1. \A c \in Channels : /\ InLine(c) = <<>> /\ InChild(c) = <<>> /\ InBuffer(c) = <<>>
                          /\ Output(c) = <<>> /\ file[c] = <<>> /\ OnTheWay(c) = <<>>
  <2>1. <<>> \o <<>> = <<>> /\ <<>> \o <<>> \o <<>> = <<>>
    OBVIOUS
  <2> QED  BY <1>0, <2>1 DEF Unused, InLine, InChild, InBuffer, Output, OnTheWay
<1>2. \A c \in Channels : /\ InLine(c)' = <<>> /\ InChild(c)' = <<>> /\ InBuffer(c)' = <<>>
                          /\ Output(c)' = <<>> /\ (cpc'[c] = "failed" <=> cpc[c] = "failed")
  <2>1. pc' \in {"start", "read", "exit"} /\ \A c \in Channels : buf_len'[c] = 0
    <3>1. buf_len' = buf_len \/ buf_len' = [buf_len EXCEPT ![chan] = 0]
      BY DEF StartChild, StartFails, SharedInit, shared
    <3>2. \A c \in Channels : buf_len'[c] = 0
      BY <1>0, <3>1 DEF Unused, TypeOK
    <3> QED  BY <1>0, <3>2 DEF StartChild, GoOn, StartFails
  <2>2. \A c \in Channels : cpc'[c] = cpc[c] \/ (cpc'[c] = "forked" /\ cpc[c] = "none")
    BY <1>0 DEF StartChild, StartFails, child, TypeOK, Started
  <2> QED  BY <1>0, <2>1, <2>2 DEF InLine, InChild, InBuffer, Output, Unused
<1>3. \A c \in Channels : OnTheWay(c)' = <<>>
  <2>1. <<>> \o <<>> = <<>> /\ <<>> \o <<>> \o <<>> = <<>>
    OBVIOUS
  <2> QED  BY <1>2, <2>1 DEF OnTheWay
<1>4. CASE StartFails
  <2>1. MayFail /\ pc' = "exit" /\ cpc' = cpc
    BY <1>4 DEF StartFails, child
  <2>2. /\ [c \in Channels |-> OnTheWay(c)]' = [c \in Channels |-> OnTheWay(c)]
        /\ [c \in Channels |-> Output(c)]' = [c \in Channels |-> Output(c)]
        /\ [c \in Channels |-> cpc[c] = "failed"]' = [c \in Channels |-> cpc[c] = "failed"]
    BY <1>1, <1>2, <1>3
  <2>3. (pc = "exit") = FALSE /\ (pc' = "exit") = TRUE
    BY <1>0, <2>1
  <2>4. \A c \in Channels : /\ [d \in Channels |-> OnTheWay(d)][c] = <<>>
                            /\ [d \in Channels |-> Output(d)][c] = <<>>
    BY <1>1
  <2>5. Sorter!GiveUp
    BY <1>0, <1>1, <2>1, <2>2, <2>3, <2>4 DEF Sorter!GiveUp, Sorter!Channels
  <2> QED  BY <2>5 DEF Sorter!SorterNext
<1>5. CASE StartChild
  <2>1. pc' # "exit"
    BY <1>0, <1>5 DEF StartChild, GoOn
  <2> QED  BY <1>0, <1>1, <1>2, <1>3, <2>1, Unmoved
<1> QED  BY <1>4, <1>5

\* The line is taken when get_line has it.
LEMMA ReadMaps ==
  ASSUME IInv, ReadLine
  PROVE  [Sorter!SorterNext]_(Sorter!svars)
<1>0. /\ TypeOK /\ todo # <<>> /\ todo' = Tail(todo) /\ pc = "read" /\ pc' = "enter"
      /\ UNCHANGED <<shared, child>> /\ line' = Head(todo) /\ left' = Len(line')
  BY DEF IInv, ReadLine
<1>1. \A c \in Channels : /\ InLine(c) = <<>> /\ InChild(c)' = InChild(c)
                          /\ InBuffer(c)' = InBuffer(c)
                          /\ Output(c)' = Output(c) /\ cpc'[c] = cpc[c]
  BY <1>0 DEF InLine, InChild, InBuffer, Output, child, shared
<1>2. Sorter!Target(Head(todo)) \in Channels
  BY DEF Sorter!Target
<1>p. PICK d \in Channels : d = Sorter!Target(Head(todo))
  BY <1>2
<1>3. chan' = d /\ Head(todo) \in Seq(Symbols)
  <2>1. Head(todo) \in Lines
    BY <1>0 DEF TypeOK
  <2> QED  BY <1>0, <1>p, <2>1 DEF ReadLine, FileFor, Sorter!Target, Lines, Symbols
<1>4. InLine(d)' = Head(todo) /\ \A c \in Channels \ {d} : InLine(c)' = <<>>
  <2>1. SubSeq(line', Len(line') - left' + 1, Len(line')) = line'
    <3>1. Len(line') - left' + 1 = 1
      BY <1>0, <1>3, NothingAdded
    <3> QED  BY <1>0, <1>3, <3>1, NothingAdded
  <2> QED  BY <1>0, <1>3, <2>1 DEF InLine
<1>5. \A c \in Channels \ {d} : OnTheWay(c)' = OnTheWay(c)
  BY <1>1, <1>4 DEF OnTheWay
<1>6. OnTheWay(d)' = IF cpc[d] = "failed" THEN OnTheWay(d) ELSE OnTheWay(d) \o Head(todo)
  <2>1. InChild(d) \o InBuffer(d) \in Seq(Symbols)
    BY TextTypes
  <2>2. (InChild(d) \o InBuffer(d)) \o <<>> = InChild(d) \o InBuffer(d)
    BY <2>1, NothingAdded
  <2> QED  BY <1>1, <1>4, <2>2 DEF OnTheWay
<1>7. Sorter!Take
  <2>1. [c \in Channels |-> OnTheWay(c)]' =
          IF [c \in Channels |-> cpc[c] = "failed"][d] THEN [c \in Channels |-> OnTheWay(c)]
          ELSE [[c \in Channels |-> OnTheWay(c)] EXCEPT ![d] = @ \o Head(todo)]
    BY <1>5, <1>6
  <2>2. /\ [c \in Channels |-> Output(c)]' = [c \in Channels |-> Output(c)]
        /\ [c \in Channels |-> cpc[c] = "failed"]' = [c \in Channels |-> cpc[c] = "failed"]
    BY <1>1
  <2>3. (pc = "exit") = FALSE /\ (pc' = "exit") = FALSE /\ file' = file
    BY <1>0 DEF child
  <2> QED  BY <1>0, <1>p, <2>1, <2>2, <2>3 DEF Sorter!Take
<1> QED  BY <1>7 DEF Sorter!SorterNext

\* A piece of the line is in the buffer: the text has only moved, if the line is whole.
LEMMA WriteMaps ==
  ASSUME IInv, Fitting, WriteLeave
  PROVE  [Sorter!SorterNext]_(Sorter!svars)
<1>0. /\ TypeOK /\ pc = "copy" /\ pc' \in {"enter", "read"} /\ UNCHANGED <<todo, chan, buf, child>>
      /\ chan \in Channels /\ buf_len \in [Channels -> -1 .. BufSize]
      /\ buf_len' = [buf_len EXCEPT ![chan] = NeedToWrite] /\ i = NeedToWrite
      /\ left' = Rest
  BY DEF IInv, WriteLeave, TypeOK
<1>p. PICK d \in Channels : d = chan
  BY <1>0
<1> DEFINE n == NeedToWrite
           p == InLine(d)
<1>1. /\ line \in Seq(Symbols) /\ Len(line) \in Nat /\ left \in 1 .. Len(line)
      /\ n \in 1 .. left /\ n =< BufSize /\ Rest = left - n
  BY <1>0 DEF IInv, TypeOK, LineHeld, NeedToWrite, Rest, Symbols
<1>2. /\ p \in Seq(Symbols) /\ Len(p) = left
      /\ \A k \in 1 .. left : p[k] = line[Len(line) - left + k]
  <2>1. p = SubSeq(line, Len(line) - left + 1, Len(line))
    BY <1>0, <1>p DEF InLine
  <2>2. Len(line) - left + 1 \in 1 .. Len(line)
    BY <1>1
  <2> HIDE DEF p
  <2> QED  BY <1>1, <2>1, <2>2
<1>3. InBuffer(d) = <<>> /\ buf_len[d] = 0 /\ \A k \in 1 .. n : buf[d][k] = line[k]
  BY <1>0, <1>p DEF IInv, Filled, Sent, Writing, InBuffer
<1>4. InBuffer(d)' = SubSeq(p, 1, n)
  <2>1. InBuffer(d)' = SubSeq(buf[d], 1, n)
    BY <1>0, <1>1, <1>p DEF InBuffer
  <2>2. /\ SubSeq(buf[d], 1, n) \in Seq(Symbols) /\ Len(SubSeq(buf[d], 1, n)) = n
        /\ \A k \in 1 .. n : SubSeq(buf[d], 1, n)[k] = buf[d][k]
    <3>1. buf[d] \in [1 .. BufSize -> Symbols] /\ n \in 0 .. BufSize
      BY <1>0, <1>1 DEF TypeOK, Symbols
    <3> HIDE DEF n
    <3> QED  BY <3>1, BufferText
  <2>3. \A k \in 1 .. n : line[k] = p[k]
    <3>1. CASE Len(line) =< BufSize
      <4>1. left = Len(line)
        BY <1>0, <3>1 DEF Fitting
      <4> HIDE DEF n, p
      <4> QED  BY <1>1, <1>2, <4>1
    <3>2. CASE \A j, k \in 1 .. Len(line) : line[j] = line[k]
      <4> TAKE k \in 1 .. n
      <4>1. k \in 1 .. Len(line) /\ Len(line) - left + k \in 1 .. Len(line) /\ k \in 1 .. left
        BY <1>1
      <4> HIDE DEF n, p
      <4> QED  BY <1>2, <3>2, <4>1
    <3> QED  BY <1>0, <3>1, <3>2 DEF Fitting, Whole
  <2>4. /\ SubSeq(p, 1, n) \in Seq(Symbols) /\ Len(SubSeq(p, 1, n)) = n
        /\ \A k \in 1 .. n : SubSeq(p, 1, n)[k] = p[k]
    <3> HIDE DEF p, n
    <3> QED  BY <1>1, <1>2
  <2>5. \A k \in 1 .. n : SubSeq(buf[d], 1, n)[k] = SubSeq(p, 1, n)[k]
    BY <1>3, <2>2, <2>3, <2>4
  <2> HIDE DEF p, n
  <2> QED  BY <2>1, <2>2, <2>4, <2>5, SameElements
<1>5. InLine(d)' = SubSeq(p, n + 1, Len(p))
  <2>1. SubSeq(p, n + 1, Len(p)) \in Seq(Symbols) /\ Len(SubSeq(p, n + 1, Len(p))) = left - n
        /\ \A k \in 1 .. left - n : SubSeq(p, n + 1, Len(p))[k] = p[n + k]
    <3> HIDE DEF p, n
    <3> QED  BY <1>1, <1>2
  <2>2. CASE left - n > 0
    <3>1. pc' = "enter" /\ line' = line /\ left' = left - n
      BY <1>1, <2>2 DEF WriteLeave
    <3> DEFINE q == SubSeq(line, Len(line) - (left - n) + 1, Len(line))
    <3>2. InLine(d)' = q
      BY <1>0, <1>p, <3>1 DEF InLine
    <3> HIDE DEF p, n
    <3>3. /\ q \in Seq(Symbols) /\ Len(q) = left - n
          /\ \A k \in 1 .. left - n : q[k] = line[Len(line) - left + (n + k)]
      BY <1>1, <2>2
    <3>4. \A k \in 1 .. left - n : p[n + k] = line[Len(line) - left + (n + k)]
      BY <1>1, <1>2
    <3>5. \A k \in 1 .. left - n : q[k] = SubSeq(p, n + 1, Len(p))[k]
      BY <2>1, <3>3, <3>4
    <3> HIDE DEF q
    <3> QED  BY <2>1, <3>2, <3>3, <3>5, SameElements
  <2>3. CASE left - n = 0
    <3>1. pc' = "read"
      BY <1>1, <2>3 DEF WriteLeave
    <3>2. InLine(d)' = <<>>
      BY <3>1 DEF InLine
    <3> HIDE DEF p, n
    <3> QED  BY <2>1, <2>3, <3>2
  <2> QED  BY <1>1, <2>2, <2>3
<1>6. \A c \in Channels : /\ InChild(c)' = InChild(c) /\ Output(c)' = Output(c) /\ cpc'[c] = cpc[c]
                          /\ c # d => /\ InLine(c)' = <<>> /\ InLine(c) = <<>>
                                      /\ InBuffer(c)' = InBuffer(c)
  BY <1>0, <1>p DEF InChild, Output, InLine, InBuffer, child
<1>7. OnTheWay(d)' = OnTheWay(d)
  <2>1. InChild(d) \in Seq(Symbols)
    BY TextTypes
  <2>2. Joined(InChild(d), SubSeq(p, 1, n), SubSeq(p, n + 1, Len(p))) = Joined(InChild(d), <<>>, p)
    <3> HIDE DEF p, n
    <3>1. n \in 0 .. Len(p)
      BY <1>1, <1>2
    <3> QED  BY <1>2, <2>1, <3>1, PieceCut
  <2>3. cpc[d] # "failed" => /\ OnTheWay(d) = Joined(InChild(d), InBuffer(d), InLine(d))
                            /\ OnTheWay(d)' = Joined(InChild(d)', InBuffer(d)', InLine(d)')
    BY <1>6 DEF OnTheWay, Joined
  <2>4. cpc[d] = "failed" => OnTheWay(d) = <<>> /\ OnTheWay(d)' = <<>>
    BY <1>6 DEF OnTheWay
  <2> QED  BY <1>3, <1>4, <1>5, <1>6, <2>2, <2>3, <2>4
<1>8. \A c \in Channels : OnTheWay(c)' = OnTheWay(c)
  BY <1>6, <1>7 DEF OnTheWay
<1> QED  BY <1>0, <1>6, <1>8, Unmoved DEF child

\* The parent's steps that pass no text on, and its end once both children have ended.
LEMMA CloseMaps ==
  ASSUME IInv, ReadEnd \/ WriteEnter \/ WriteCopy \/ Close \/ Unlink \/ Reap
  PROVE  [Sorter!SorterNext]_(Sorter!svars)
<1>0. /\ TypeOK /\ OneToken /\ Started /\ Filled /\ Endings /\ Sent /\ InputRead
      /\ UNCHANGED <<todo, child>> /\ pc # "exit" /\ pc # "start"
      /\ line' = line /\ left' = left /\ chan \in Channels
      /\ write_mutex \in [Channels -> Nat] /\ buf_len \in [Channels -> -1 .. BufSize]
  BY DEF IInv, ReadEnd, WriteEnter, WriteCopy, Close, Unlink, Reap, TypeOK
<1>1. \A c \in Channels : /\ InChild(c)' = InChild(c) /\ Output(c)' = Output(c)
                          /\ cpc'[c] = cpc[c] /\ cpc[c] # "none"
  BY <1>0 DEF InChild, Output, child, Started
<1>2. \A c \in Channels : InLine(c)' = InLine(c)
  <2>1. CASE WriteEnter \/ WriteCopy
    BY <1>0, <2>1 DEF WriteEnter, WriteCopy, InLine
  <2>2. CASE ReadEnd \/ Close \/ Unlink \/ Reap
    <3>1. pc \notin {"enter", "copy"} /\ pc' \notin {"enter", "copy"}
      BY <2>2 DEF ReadEnd, Close, Unlink, Reap
    <3> QED  BY <3>1 DEF InLine
  <2> QED  BY <2>1, <2>2
<1>3. \A c \in Channels : InBuffer(c)' = InBuffer(c)
  <2>1. CASE ReadEnd \/ WriteEnter \/ Unlink \/ Reap
    <3>1. buf' = buf /\ buf_len' = buf_len
      BY <2>1 DEF ReadEnd, WriteEnter, Unlink, Reap, shared
    <3> QED  BY <3>1 DEF InBuffer
  <2>2. CASE WriteCopy
    <3>1. /\ buf_len' = buf_len /\ \A c \in Channels \ {chan} : buf'[c] = buf[c]
          /\ buf_len[chan] = 0
      BY <1>0, <2>2 DEF WriteCopy, Filled, Writing, TypeOK
    <3> QED  BY <3>1 DEF InBuffer
  <2>3. CASE Close
    <3>1. buf_len[chan] = 0
      BY <1>0, <2>3 DEF Close, Filled, Started, Wait
    <3>2. /\ buf' = buf /\ buf_len'[chan] = -1
          /\ \A c \in Channels \ {chan} : buf_len'[c] = buf_len[c]
      BY <1>0, <2>3 DEF Close
    <3> QED  BY <3>1, <3>2 DEF InBuffer
  <2> QED  BY <2>1, <2>2, <2>3
<1>4. \A c \in Channels : OnTheWay(c)' = OnTheWay(c)
  BY <1>1, <1>2, <1>3 DEF OnTheWay
<1>5. CASE pc' # "exit"
  BY <1>0, <1>1, <1>4, <1>5, Unmoved DEF child
<1>6. CASE pc' = "exit"
  <2>1. Reap /\ pc = "reap" /\ chan = "large" /\ Ended(chan)
    BY <1>6 DEF ReadEnd, WriteEnter, WriteCopy, Close, Unlink, Reap
  <2>2. todo = <<>> /\ \A c \in Channels : Ended(c)
    BY <1>0, <2>1 DEF InputRead, Endings
  <2>3. \A c \in Channels : cpc[c] # "failed" => buf_len[c] =< 0
    BY <1>0, <2>2 DEF Ended, Sent, Endings
  <2>4. \A c \in Channels : cpc[c] # "failed" => OnTheWay(c) = <<>> /\ Output(c) = <<>>
    <3>1. <<>> \o <<>> = <<>> /\ <<>> \o <<>> \o <<>> = <<>>
      OBVIOUS
    <3>2. \A c \in Channels : cpc[c] # "failed" =>
            InChild(c) = <<>> /\ InLine(c) = <<>> /\ InBuffer(c) = <<>> /\ Output(c) = <<>>
      BY <1>0, <2>1, <2>2, <2>3 DEF InChild, InLine, InBuffer, Output, Ended
    <3> QED  BY <3>1, <3>2 DEF OnTheWay
  <2>5. /\ [c \in Channels |-> OnTheWay(c)]' = [c \in Channels |-> OnTheWay(c)]
        /\ [c \in Channels |-> Output(c)]' = [c \in Channels |-> Output(c)]
        /\ [c \in Channels |-> cpc[c] = "failed"]' = [c \in Channels |-> cpc[c] = "failed"]
    BY <1>1, <1>4
  <2>6. (pc = "exit") = FALSE /\ (pc' = "exit") = TRUE /\ file' = file
    BY <1>0, <1>6 DEF child
  <2>7. \/ \A c \in Channels : /\ [d \in Channels |-> OnTheWay(d)][c] = <<>>
                               /\ [d \in Channels |-> Output(d)][c] = <<>>
        \/ \E c \in Channels : [d \in Channels |-> cpc[d] = "failed"][c]
    BY <2>4
  <2>8. Sorter!End
    BY <1>0, <2>2, <2>5, <2>6, <2>7 DEF Sorter!End, Sorter!Channels
  <2> QED  BY <2>8 DEF Sorter!SorterNext
<1> QED  BY <1>5, <1>6

\* A child that connects, or fails to, and one that takes what is in its buffer.
LEMMA ConnectMaps ==
  ASSUME IInv, NEW c \in Channels, Connect(c) \/ ReadEnter(c) \/ ReadCopy(c)
  PROVE  [Sorter!SorterNext]_(Sorter!svars)
<1>0. /\ TypeOK /\ UNCHANGED <<parent, buf, buf_len, pos, bufout, file>>
      /\ cpc[c] \in {"forked", "wait", "copy"} /\ cpc'[c] # "filter"
      /\ cpc'[c] = "failed" => MayFail
      /\ \A d \in Channels \ {c} : cpc'[d] = cpc[d] /\ bufin'[d] = bufin[d]
  <2>1. TypeOK  BY DEF IInv
  <2>2. CASE Connect(c)    BY <2>1, <2>2 DEF Connect, TypeOK, shared
  <2>3. CASE ReadEnter(c)  BY <2>1, <2>3 DEF ReadEnter, TypeOK
  <2>4. CASE ReadCopy(c)   BY <2>1, <2>4 DEF ReadCopy, TypeOK, shared
  <2> QED  BY <2>2, <2>3, <2>4
<1>1. \A d \in Channels : /\ InChild(d)' = InChild(d) /\ Output(d)' = Output(d)
                          /\ InLine(d)' = InLine(d) /\ InBuffer(d)' = InBuffer(d)
  BY <1>0 DEF InChild, Output, InLine, InBuffer, parent
<1>2. \A d \in Channels \ {c} : OnTheWay(d)' = OnTheWay(d)
  BY <1>0, <1>1 DEF OnTheWay
<1>3. pc' = pc /\ todo' = todo
  BY <1>0 DEF parent
<1>4. CASE cpc'[c] # "failed"
  <2>1. OnTheWay(c)' = OnTheWay(c)
    BY <1>0, <1>1, <1>4 DEF OnTheWay
  <2> QED  BY <1>0, <1>1, <1>2, <1>3, <1>4, <2>1, Unmoved
<1>5. CASE cpc'[c] = "failed"
  <2>1. Output(c) = <<>> /\ Output(c)' = <<>> /\ OnTheWay(c)' = <<>>
    BY <1>0, <1>1, <1>5 DEF Output, OnTheWay
  <2>2. file[c] \o SubSeq(Output(c), 1, 0) = file[c] /\ 0 \in 0 .. Len(Output(c))
    <3>1. file[c] \in Seq(Symbols) /\ <<>> \in Seq(Symbols) /\ Len(<<>>) = 0
      BY TextTypes
    <3> QED  BY <2>1, <3>1, NothingAdded
  <2>3. file' = [file EXCEPT ![c] = @ \o SubSeq(Output(c), 1, 0)]
    BY <1>0, <2>2 DEF TypeOK
  <2>4. Sorter!Break(c)
    BY <1>0, <1>1, <1>2, <1>3, <1>5, <2>1, <2>2, <2>3, BreakMaps
  <2> QED  BY <2>4 DEF Sorter!SorterNext, Sorter!Channels
<1> QED  BY <1>4, <1>5

\* A child leaves the buffer, all of it in its bufin: the text has only moved.
LEMMA ReadLeaveMaps ==
  ASSUME IInv, NEW c \in Channels, ReadLeave(c)
  PROVE  [Sorter!SorterNext]_(Sorter!svars)
<1>0. /\ TypeOK /\ NothingTorn /\ UNCHANGED <<parent, buf, bufin, file>>
      /\ cpc[c] = "copy" /\ cpc'[c] = (IF buf_len[c] > 0 THEN "filter" ELSE "done")
      /\ pos'[c] = 0 /\ bufout'[c] = <<>> /\ Len(bufin[c]) >= buf_len[c] /\ buf_len'[c] = 0
      /\ buf_len[c] \in -1 .. BufSize
      /\ \A d \in Channels \ {c} : /\ cpc'[d] = cpc[d] /\ pos'[d] = pos[d]
                                   /\ bufout'[d] = bufout[d] /\ buf_len'[d] = buf_len[d]
  BY DEF IInv, ReadLeave, TypeOK
<1>1. \A d \in Channels : InLine(d)' = InLine(d)
  BY <1>0 DEF InLine, parent
<1>2. \A d \in Channels \ {c} : /\ InChild(d)' = InChild(d) /\ Output(d)' = Output(d)
                               /\ OnTheWay(d)' = OnTheWay(d)
  BY <1>0, <1>1 DEF InChild, InBuffer, Output, OnTheWay
<1>3. Output(c)' = Output(c)
  BY <1>0 DEF Output
<1>4. InChild(c) = <<>> /\ InChild(c)' = InBuffer(c) /\ InBuffer(c)' = <<>>
  <2>1. CASE buf_len[c] > 0
    <3>1. bufin[c] \in Seq(Symbols) /\ Len(bufin[c]) \in Nat
      BY <1>0, Texts
    <3>2. \A k \in 1 .. Len(bufin[c]) : k =< buf_len[c] /\ bufin[c][k] = buf[c][k]
      BY <1>0 DEF NothingTorn, Copying
    <3>3. Len(bufin[c]) = buf_len[c]
      BY <1>0, <2>1, <3>1, <3>2
    <3>4. /\ InBuffer(c) \in Seq(Symbols) /\ Len(InBuffer(c)) = buf_len[c]
          /\ \A k \in 1 .. buf_len[c] : InBuffer(c)[k] = buf[c][k]
      <4>1. buf[c] \in [1 .. BufSize -> Symbols] /\ buf_len[c] \in 0 .. BufSize
        <5>1. buf[c] \in [1 .. BufSize -> Symbols]
          BY <1>0, Texts
        <5> QED  BY <1>0, <2>1, <5>1
      <4> QED  BY <2>1, <4>1, BufferText DEF InBuffer
    <3>5. bufin[c] = InBuffer(c)
      BY <3>1, <3>2, <3>3, <3>4, SameElements
    <3>6. InChild(c)' = SubSeq(bufin[c], 1, Len(bufin[c]))
      BY <1>0, <2>1 DEF InChild
    <3>7. InChild(c) = <<>> /\ InBuffer(c)' = <<>>
      BY <1>0 DEF InChild, InBuffer
    <3> QED  BY <3>1, <3>5, <3>6, <3>7, NothingAdded
  <2>2. CASE ~(buf_len[c] > 0)
    BY <1>0, <2>2 DEF InChild, InBuffer
  <2> QED  BY <2>1, <2>2
<1>5. OnTheWay(c)' = OnTheWay(c)
  <2>1. Joined(InBuffer(c), <<>>, InLine(c)) = Joined(<<>>, InBuffer(c), InLine(c))
    <3>1. InBuffer(c) \o <<>> = <<>> \o InBuffer(c)
      BY TextTypes, NothingAdded
    <3> QED  BY <3>1 DEF Joined
  <2>2. /\ OnTheWay(c) = Joined(InChild(c), InBuffer(c), InLine(c))
        /\ OnTheWay(c)' = Joined(InChild(c)', InBuffer(c)', InLine(c)')
    BY <1>0 DEF OnTheWay, Joined
  <2> QED  BY <1>1, <1>4, <2>1, <2>2
<1>6. \A d \in Channels : cpc'[d] = "failed" <=> cpc[d] = "failed"
  BY <1>0
<1> QED  BY <1>0, <1>2, <1>3, <1>5, <1>6, Unmoved DEF parent

\* One character of the piece is filtered.
LEMMA FilterMaps ==
  ASSUME IInv, NEW c \in Channels, Filter(c)
  PROVE  [Sorter!SorterNext]_(Sorter!svars)
<1> DEFINE ch == bufin[c][pos[c] + 1]
<1>0. /\ TypeOK /\ UNCHANGED <<parent, shared, cpc, bufin, file>>
      /\ cpc[c] = "filter" /\ pos[c] < Len(bufin[c]) /\ pos'[c] = pos[c] + 1
      /\ bufout'[c] = IF ch \in Vowels THEN bufout[c] ELSE Append(bufout[c], ch)
      /\ \A d \in Channels \ {c} : pos'[d] = pos[d] /\ bufout'[d] = bufout[d]
  BY DEF IInv, Filter, TypeOK
<1>1. \A d \in Channels : InLine(d)' = InLine(d) /\ InBuffer(d)' = InBuffer(d)
  BY <1>0 DEF InLine, InBuffer, parent, shared
<1>2. \A d \in Channels \ {c} : /\ InChild(d)' = InChild(d) /\ Output(d)' = Output(d)
                               /\ OnTheWay(d)' = OnTheWay(d)
  BY <1>0, <1>1 DEF InChild, Output, OnTheWay
<1>3. InChild(c) # <<>> /\ Head(InChild(c)) = ch /\ InChild(c)' = Tail(InChild(c))
  <2>1. bufin[c] \in Seq(Symbols) /\ pos[c] \in Nat /\ pos[c] + 1 \in 1 .. Len(bufin[c])
    BY <1>0, Texts
  <2>2. InChild(c) = SubSeq(bufin[c], pos[c] + 1, Len(bufin[c]))
    BY <1>0 DEF InChild
  <2>3. InChild(c)' = SubSeq(bufin[c], (pos[c] + 1) + 1, Len(bufin[c]))
    BY <1>0 DEF InChild
  <2> QED  BY <2>1, <2>2, <2>3, FromHere
<1>4. /\ OnTheWay(c) # <<>> /\ Head(OnTheWay(c)) = ch /\ OnTheWay(c)' = Tail(OnTheWay(c))
  <2>1. InLine(c) \in Seq(Symbols) /\ InChild(c) \in Seq(Symbols) /\ InBuffer(c) \in Seq(Symbols)
    BY TextTypes
  <2>2. OnTheWay(c) = Joined(InChild(c), InBuffer(c), InLine(c))
    BY <1>0 DEF OnTheWay, Joined
  <2>3. OnTheWay(c)' = Joined(Tail(InChild(c)), InBuffer(c), InLine(c))
    BY <1>0, <1>1, <1>3 DEF OnTheWay, Joined
  <2> HIDE DEF ch
  <2> QED  BY <1>3, <2>1, <2>2, <2>3, TakeFirst
<1>5. Output(c)' = IF Head(OnTheWay(c)) \in Vowels THEN Output(c)
                   ELSE Append(Output(c), Head(OnTheWay(c)))
  BY <1>0, <1>4 DEF Output
<1>6. Sorter!Sift(c)
  <2>1. UNCHANGED <<todo, file, cpc>> /\ (pc = "exit")' = (pc = "exit")
    BY <1>0 DEF parent
  <2> HIDE DEF ch
  <2> QED  BY <1>2, <1>4, <1>5, <2>1 DEF Sorter!Sift
<1> QED  BY <1>6 DEF Sorter!SorterNext, Sorter!Channels

\* The filtered piece is written to the file, or as much of it as the file takes.
LEMMA WriteFileMaps ==
  ASSUME IInv, NEW c \in Channels, WriteFile(c) \/ WriteFails(c)
  PROVE  [Sorter!SorterNext]_(Sorter!svars)
<1>0. /\ TypeOK /\ UNCHANGED <<parent, shared, bufin, pos, bufout>>
      /\ cpc[c] = "filter" /\ pos[c] = Len(bufin[c])
      /\ \A d \in Channels \ {c} : cpc'[d] = cpc[d]
      /\ WriteFile(c) => cpc'[c] = "wait"
      /\ WriteFails(c) => cpc'[c] = "failed"
  BY DEF IInv, WriteFile, WriteFails, TypeOK
<1>1. \A d \in Channels : InLine(d)' = InLine(d) /\ InBuffer(d)' = InBuffer(d)
  BY <1>0 DEF InLine, InBuffer, parent, shared
<1>2. \A d \in Channels \ {c} : /\ InChild(d)' = InChild(d) /\ Output(d)' = Output(d)
                               /\ OnTheWay(d)' = OnTheWay(d)
  BY <1>0, <1>1 DEF InChild, Output, OnTheWay
<1>t. bufout[c] \in Seq(Symbols) /\ file[c] \in Seq(Symbols) /\ bufin[c] \in Seq(Symbols)
  BY <1>0, Texts
<1>3. /\ InChild(c) = <<>> /\ InChild(c)' = <<>> /\ Output(c) = bufout[c] /\ Output(c)' = <<>>
  BY <1>0, <1>t, NothingAdded DEF InChild, Output
<1>4. pc' = pc /\ todo' = todo
  BY <1>0 DEF parent
<1>5. CASE WriteFile(c)
  <2>1. OnTheWay(c)' = OnTheWay(c)
    BY <1>0, <1>1, <1>3, <1>5 DEF OnTheWay
  <2>2. file' = [file EXCEPT ![c] = @ \o Output(c)]
    BY <1>3, <1>5 DEF WriteFile
  <2>3. CASE Output(c) = <<>>
    <3>1. file' = file
      BY <1>0, <1>t, <2>2, <2>3, NothingAdded DEF TypeOK
    <3> QED  BY <1>0, <1>2, <1>3, <1>4, <1>5, <2>1, <2>3, <3>1, Unmoved
  <2>4. CASE Output(c) # <<>>
    <3>1. /\ [d \in Channels |-> OnTheWay(d)]' = [d \in Channels |-> OnTheWay(d)]
          /\ [d \in Channels |-> Output(d)]' = [[d \in Channels |-> Output(d)] EXCEPT ![c] = <<>>]
          /\ [d \in Channels |-> Output(d)][c] = Output(c)
      BY <1>2, <1>3, <2>1
    <3>2. /\ [d \in Channels |-> cpc[d] = "failed"]' = [d \in Channels |-> cpc[d] = "failed"]
          /\ (pc = "exit")' = (pc = "exit")
      BY <1>0, <1>4, <1>5
    <3>3. Sorter!Store(c)
      BY <1>4, <2>2, <2>4, <3>1, <3>2 DEF Sorter!Store
    <3> QED  BY <3>3 DEF Sorter!SorterNext, Sorter!Channels
  <2> QED  BY <2>3, <2>4
<1>6. CASE WriteFails(c)
  <2>1. OnTheWay(c)' = <<>>
    BY <1>0, <1>6 DEF OnTheWay
  <2>2. PICK n \in 0 .. Len(bufout[c]) : file' = [file EXCEPT ![c] = @ \o SubSeq(bufout[c], 1, n)]
    BY <1>6 DEF WriteFails
  <2>3. MayFail
    BY <1>6 DEF WriteFails
  <2>4. Sorter!Break(c)
    BY <1>0, <1>2, <1>3, <1>4, <1>6, <2>1, <2>2, <2>3, BreakMaps
  <2> QED  BY <2>4 DEF Sorter!SorterNext, Sorter!Channels
<1> QED  BY <1>5, <1>6

\* ImplementsSorter, for every input without a line that is cut: whatever fails, the parent,
\* the shared memory and the children of os_exercise_04 bring each line to its file, once,
\* whole and in order.  With a longer line it is false.
THEOREM SorterImplemented ==
  ASSUME NoLongLine
  PROVE  Spec => ImplementsSorter
<1>1. Init => Sorter!SorterInit
  <2> SUFFICES ASSUME Init PROVE Sorter!SorterInit
    OBVIOUS
  <2>1. <<>> \o <<>> = <<>> /\ <<>> \o <<>> \o <<>> = <<>>
    OBVIOUS
  <2>2. \A c \in Channels : OnTheWay(c) = <<>> /\ Output(c) = <<>>
    BY <2>1 DEF Init, OnTheWay, Output, InChild, InBuffer, InLine
  <2>3. /\ [c \in Channels |-> OnTheWay(c)] = [c \in Channels |-> <<>>]
        /\ [c \in Channels |-> Output(c)] = [c \in Channels |-> <<>>]
    BY <2>2
  <2>4. /\ [c \in Channels |-> cpc[c] = "failed"] = [c \in Channels |-> FALSE]
        /\ file = [c \in Channels |-> <<>>] /\ (pc = "exit") = FALSE
    <3>1. \A c \in Channels : (cpc[c] = "failed") = FALSE
      BY DEF Init
    <3>2. file = [c \in Channels |-> <<>>]
      BY DEF Init
    <3>3. (pc = "exit") = FALSE
      BY DEF Init
    <3> QED  BY <3>1, <3>2, <3>3
  <2>5. Sorter!Channels = Channels
    BY DEF Sorter!Channels
  <2> QED  BY ONLY <2>3, <2>4, <2>5 DEF Sorter!SorterInit
<1>2. IInv /\ Fitting /\ [Next]_vars => [Sorter!SorterNext]_(Sorter!svars)
  <2> SUFFICES ASSUME IInv, Fitting, [Next]_vars PROVE [Sorter!SorterNext]_(Sorter!svars)
    OBVIOUS
  <2>1. CASE UNCHANGED vars
    <3>1. \A c \in Channels : OnTheWay(c)' = OnTheWay(c) /\ Output(c)' = Output(c)
      BY <2>1 DEF OnTheWay, Output, InChild, InBuffer, InLine, vars, parent, shared, child
    <3> QED  BY <2>1, <3>1, Unmoved DEF vars, parent, child
  <2> QED
    BY <2>1, StartMaps, ReadMaps, WriteMaps, CloseMaps, ConnectMaps, ReadLeaveMaps, FilterMaps,
       WriteFileMaps DEF Next, ParentNext, ChildNext
<1>3. Init => Fitting
  BY FittingInit
<1>4. IInv /\ Fitting /\ [Next]_vars => Fitting'
  BY FittingStep
<1> QED  BY <1>1, <1>2, <1>3, <1>4, Invariance, PTL DEF Spec, ImplementsSorter, Sorter!SorterSpec
=================================================================================
