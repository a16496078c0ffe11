-------------------------------- MODULE LineSorter --------------------------------
(***********************************************************************************)
(* What os_exercise_02 and os_exercise_04 promise: every line of the input is      *)
(* appended, without the characters their filter drops and in the order of the     *)
(* input, to the file for short or for long lines, and the program ends when all   *)
(* of them are there.  What is dropped is each program's own is_vowel.  A          *)
(* file that can no longer be written keeps what it has and gets nothing more.     *)
(***********************************************************************************)
EXTENDS Naturals, Sequences

CONSTANTS Dropped,   \* the characters that is_vowel() takes out
          Limit,     \* the longest line that counts as short
          MayFail    \* may the processes or the files fail

Channels == {"small", "large"}
Target(line) == IF Len(line) > Limit THEN "large" ELSE "small"

VARIABLES todo,      \* the lines not yet read
          pending,   \* for each file, the text read that has not been filtered
          kept,      \* the text filtered that is not yet in the file
          file,      \* the contents of each file
          broken,    \* does the file refuse any more text
          ended      \* has the program ended

svars == <<todo, pending, kept, file, broken, ended>>

SorterInit == /\ pending = [c \in Channels |-> <<>>]
              /\ kept    = [c \in Channels |-> <<>>]
              /\ file    = [c \in Channels |-> <<>>]
              /\ broken  = [c \in Channels |-> FALSE]
              /\ ended   = FALSE

Take == /\ todo # <<>> /\ ~ended
        /\ LET c == Target(Head(todo))
           IN pending' = IF broken[c] THEN pending
                         ELSE [pending EXCEPT ![c] = @ \o Head(todo)]
        /\ todo' = Tail(todo)
        /\ UNCHANGED <<kept, file, broken, ended>>

\* The next character is kept, or dropped.
Sift(c) == /\ pending[c] # <<>>
           /\ kept' = [kept EXCEPT ![c] = IF Head(pending[c]) \in Dropped THEN @
                                          ELSE Append(@, Head(pending[c]))]
           /\ pending' = [pending EXCEPT ![c] = Tail(@)]
           /\ UNCHANGED <<todo, file, broken, ended>>

Store(c) == /\ kept[c] # <<>>
            /\ file' = [file EXCEPT ![c] = @ \o kept[c]]
            /\ kept' = [kept EXCEPT ![c] = <<>>]
            /\ UNCHANGED <<todo, pending, broken, ended>>

\* The file takes a part of what was kept; the rest is lost, and so is what comes later.
Break(c) == /\ MayFail /\ ~broken[c] /\ broken' = [broken EXCEPT ![c] = TRUE]
            /\ \E n \in 0 .. Len(kept[c]) :
                 file' = [file EXCEPT ![c] = @ \o SubSeq(kept[c], 1, n)]
            /\ pending' = [pending EXCEPT ![c] = <<>>]
            /\ kept' = [kept EXCEPT ![c] = <<>>]
            /\ UNCHANGED <<todo, ended>>

\* All the input is in its files, unless one of them broke.
End == /\ ~ended /\ ended' = TRUE
       /\ \/ todo = <<>> /\ \A c \in Channels : pending[c] = <<>> /\ kept[c] = <<>>
          \/ \E c \in Channels : broken[c]
       /\ UNCHANGED <<todo, pending, kept, file, broken>>

\* The program cannot start its processes: it reads and stores nothing.
GiveUp == /\ MayFail /\ ~ended /\ ended' = TRUE
          /\ \A c \in Channels : pending[c] = <<>> /\ kept[c] = <<>> /\ file[c] = <<>>
          /\ UNCHANGED <<todo, pending, kept, file, broken>>

SorterNext == \/ Take \/ End \/ GiveUp
              \/ \E c \in Channels : Sift(c) \/ Store(c) \/ Break(c)
SorterSpec == SorterInit /\ [][SorterNext]_svars
===================================================================================
