------------------------------- MODULE SorterLemmas -------------------------------
(*********************************************************************************)
(* What the two routers do to a text that is passed on in pieces: a character      *)
(* moves from the front of one piece to the end of the piece before it, a piece    *)
(* is cut in two, and the first character of the first piece is taken.            *)
(*********************************************************************************)
EXTENDS Naturals, Sequences, SequenceTheorems, TLAPS

LEMMA SameElements ==
  ASSUME NEW S, NEW s \in Seq(S), NEW t \in Seq(S), Len(s) = Len(t),
         \A k \in 1 .. Len(s) : s[k] = t[k]
  PROVE  s = t
OBVIOUS

\* Nothing before or behind a text.
LEMMA NothingAdded ==
  ASSUME NEW S, NEW s \in Seq(S)
  PROVE  /\ <<>> \o s = s /\ s \o <<>> = s /\ <<>> \in Seq(S) /\ Len(<<>>) = 0
         /\ SubSeq(s, 1, Len(s)) = s /\ SubSeq(s, Len(s) + 1, Len(s)) = <<>>
         /\ SubSeq(s, 1, 0) = <<>> /\ Len(s) \in Nat /\ (Len(s) = 0 <=> s = <<>>)
<1>1. <<>> \o s = s /\ s \o <<>> = s
  BY ConcatEmptySeq
<1>2. SubSeq(s, 1, Len(s)) = s
  BY SubSeqFull
<1>3. SubSeq(s, Len(s) + 1, Len(s)) = <<>> /\ SubSeq(s, 1, 0) = <<>>
  OBVIOUS
<1> QED  BY <1>1, <1>2, <1>3

\* A text from position k on: its first character, and the rest.
LEMMA FromHere ==
  ASSUME NEW S, NEW s \in Seq(S), NEW k \in 1 .. Len(s)
  PROVE  /\ SubSeq(s, k, Len(s)) \in Seq(S) /\ SubSeq(s, k + 1, Len(s)) \in Seq(S)
         /\ SubSeq(s, k, Len(s)) # <<>> /\ s[k] \in S
         /\ Head(SubSeq(s, k, Len(s))) = s[k]
         /\ Tail(SubSeq(s, k, Len(s))) = SubSeq(s, k + 1, Len(s))
<1>1. /\ SubSeq(s, k, Len(s)) \in Seq(S) /\ SubSeq(s, k + 1, Len(s)) \in Seq(S)
      /\ Len(SubSeq(s, k, Len(s))) = Len(s) - k + 1 /\ Len(s) \in k .. Len(s) /\ s[k] \in S
  OBVIOUS
<1>2. SubSeq(s, k, Len(s)) # <<>>
  <2>1. \A t \in Seq(S) : Len(t) > 0 => t # <<>>
    OBVIOUS
  <2>2. Len(SubSeq(s, k, Len(s))) > 0
    BY <1>1
  <2> QED  BY ONLY <1>1, <2>1, <2>2
<1> QED  BY <1>1, <1>2, HeadTailOfSubSeq

\* A text in three pieces.
Joined(a, p, l) == (a \o p) \o l

LEMMA JoinedType ==
  ASSUME NEW S, NEW a \in Seq(S), NEW p \in Seq(S), NEW l \in Seq(S)
  PROVE  Joined(a, p, l) \in Seq(S)
BY DEF Joined

\* Pieces that are not there.
LEMMA JoinedEmpty ==
  ASSUME NEW S, NEW p \in Seq(S)
  PROVE  /\ Joined(<<>>, <<>>, p) = p /\ Joined(<<>>, p, <<>>) = p /\ Joined(p, <<>>, <<>>) = p
BY NothingAdded DEF Joined

LEMMA JoinedMore ==
  ASSUME NEW S, NEW a \in Seq(S), NEW p \in Seq(S), NEW l \in Seq(S)
  PROVE  Joined(a, p, <<>>) \o l = Joined(a, p, l)
<1>1. a \o p \in Seq(S)
  OBVIOUS
<1>2. (a \o p) \o <<>> = a \o p
  BY <1>1, NothingAdded
<1> QED  BY <1>2 DEF Joined

\* The first character of the last piece goes to the end of the one before it.
LEMMA HandOver ==
  ASSUME NEW S, NEW a \in Seq(S), NEW p \in Seq(S), NEW l \in Seq(S), l # <<>>
  PROVE  Joined(a, Append(p, Head(l)), Tail(l)) = Joined(a, p, l)
<1>1. Head(l) \in S /\ Tail(l) \in Seq(S) /\ l = <<Head(l)>> \o Tail(l)
  <2>1. Head(l) \in S /\ Tail(l) \in Seq(S)
    OBVIOUS
  <2>2. <<Head(l)>> \in Seq(S) /\ <<Head(l)>> \o Tail(l) \in Seq(S)
    BY <2>1
  <2>3. Len(<<Head(l)>> \o Tail(l)) = Len(l) /\ \A k \in 1 .. Len(l) : (<<Head(l)>> \o Tail(l))[k] = l[k]
    BY <2>1
  <2> QED  BY <2>1, <2>2, <2>3, SameElements
<1>2. Append(p, Head(l)) = p \o <<Head(l)>> /\ <<Head(l)>> \in Seq(S)
  BY <1>1, AppendIsConcat
<1>3. (a \o (p \o <<Head(l)>>)) \o Tail(l) = ((a \o p) \o <<Head(l)>>) \o Tail(l)
  BY <1>1, <1>2, ConcatAssociative
<1>4. ((a \o p) \o <<Head(l)>>) \o Tail(l) = (a \o p) \o (<<Head(l)>> \o Tail(l))
  <2>1. a \o p \in Seq(S)
    OBVIOUS
  <2> QED  BY <1>1, <1>2, <2>1, ConcatAssociative
<1>5. Joined(a, Append(p, Head(l)), Tail(l)) = (a \o p) \o l
  BY <1>1, <1>2, <1>3, <1>4 DEF Joined
<1> QED  BY <1>5 DEF Joined

\* A piece cut in two is the same text.
LEMMA CutInTwo ==
  ASSUME NEW S, NEW s \in Seq(S), NEW n \in 0 .. Len(s)
  PROVE  /\ SubSeq(s, 1, n) \in Seq(S) /\ SubSeq(s, n + 1, Len(s)) \in Seq(S)
         /\ Len(SubSeq(s, 1, n)) = n
         /\ SubSeq(s, 1, n) \o SubSeq(s, n + 1, Len(s)) = s
<1> DEFINE t == SubSeq(s, 1, n)
           u == SubSeq(s, n + 1, Len(s))
<1>1. /\ t \in Seq(S) /\ Len(t) = n /\ \A j \in 1 .. n : t[j] = s[j]
      /\ u \in Seq(S) /\ Len(u) = Len(s) - n /\ \A j \in 1 .. Len(u) : u[j] = s[n + j]
      /\ Len(s) \in Nat
  OBVIOUS
<1> HIDE DEF t, u
<1>2. t \o u \in Seq(S) /\ Len(t \o u) = Len(s)
  BY <1>1
<1>3. \A j \in 1 .. Len(s) : (t \o u)[j] = s[j]
  <2> TAKE j \in 1 .. Len(s)
  <2>1. CASE j =< n
    BY <1>1, <2>1
  <2>2. CASE j > n
    <3>1. (t \o u)[j] = u[j - n] /\ j - n \in 1 .. Len(u)
      BY <1>1, <2>2
    <3> QED  BY <1>1, <3>1
  <2> QED  BY <1>1, <2>1, <2>2
<1>4. t \o u = s
  BY <1>2, <1>3, SameElements
<1> QED  BY <1>1, <1>4 DEF t, u

\* A piece of which the beginning moves on.
LEMMA PieceMoves ==
  ASSUME NEW S, NEW p \in Seq(S), NEW l \in Seq(S), NEW n \in 0 .. Len(p)
  PROVE  Joined(SubSeq(p, 1, n), SubSeq(p, n + 1, Len(p)), l) = Joined(<<>>, p, l)
<1>1. SubSeq(p, 1, n) \o SubSeq(p, n + 1, Len(p)) = p
  BY CutInTwo
<1>2. <<>> \o p = p
  BY NothingAdded
<1> QED  BY <1>1, <1>2 DEF Joined

\* A piece of which the beginning goes before the piece in front of it has moved on.
LEMMA PieceCut ==
  ASSUME NEW S, NEW a \in Seq(S), NEW p \in Seq(S), NEW n \in 0 .. Len(p)
  PROVE  Joined(a, SubSeq(p, 1, n), SubSeq(p, n + 1, Len(p))) = Joined(a, <<>>, p)
<1> DEFINE u == SubSeq(p, 1, n)
           v == SubSeq(p, n + 1, Len(p))
<1>0. u \in Seq(S) /\ v \in Seq(S)
  BY CutInTwo
<1>1. u \o v = p
  BY CutInTwo
<1> HIDE DEF u, v
<1>2. (a \o u) \o v = a \o (u \o v)
  BY <1>0, ConcatAssociative
<1>3. a \o <<>> = a
  BY NothingAdded
<1> QED  BY <1>1, <1>2, <1>3 DEF Joined, u, v

\* The first character of a text in three pieces is that of the first one that has any.
LEMMA TakeFirst ==
  ASSUME NEW S, NEW a \in Seq(S), NEW p \in Seq(S), NEW l \in Seq(S), a # <<>>
  PROVE  /\ Joined(a, p, l) # <<>> /\ Head(Joined(a, p, l)) = Head(a)
         /\ Tail(Joined(a, p, l)) = Joined(Tail(a), p, l)
<1>1. a \o p \in Seq(S) /\ a \o p # <<>> /\ Head(a \o p) = Head(a)
  OBVIOUS
<1>2. \A s, t \in Seq(S) : s # <<>> => s \o t # <<>> /\ Head(s \o t) = Head(s) /\ Tail(s \o t) = Tail(s) \o t
  <2> TAKE s, t \in Seq(S)
  <2> HAVE s # <<>>
  <2>1. s \o t \in Seq(S) /\ s \o t # <<>> /\ Head(s \o t) = Head(s)
    OBVIOUS
  <2>2. /\ Tail(s \o t) \in Seq(S) /\ Tail(s) \in Seq(S) /\ Tail(s) \o t \in Seq(S)
        /\ Len(Tail(s \o t)) = Len(Tail(s) \o t)
    BY <2>1
  <2>3. \A k \in 1 .. Len(Tail(s \o t)) : Tail(s \o t)[k] = (Tail(s) \o t)[k]
    BY <2>1, <2>2
  <2> QED  BY <2>1, <2>2, <2>3, SameElements
<1> QED  BY <1>1, <1>2 DEF Joined
===================================================================================
