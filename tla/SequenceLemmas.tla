--------------------------- MODULE SequenceLemmas ---------------------------
(* What appending, concatenating and cutting do to the elements of a        *)
(* sequence: the facts that the proofs about queues and streams keep using. *)
EXTENDS Naturals, Sequences, TLAPS

\* What follows the head moves up by one.
LEMMA TailElements ==
  ASSUME NEW S, NEW s \in Seq(S), s # <<>>
  PROVE  /\ Len(Tail(s)) = Len(s) - 1
         /\ \A i \in 1..Len(Tail(s)) : i + 1 \in 1..Len(s) /\ Tail(s)[i] = s[i + 1]
  OBVIOUS

\* Appending adds one element after the others, which stay.
LEMMA AppendElements ==
  ASSUME NEW S, NEW s \in Seq(S), NEW x \in S
  PROVE  LET t == Append(s, x)
         IN  /\ t \in Seq(S) /\ t # <<>> /\ Len(s) \in Nat
             /\ Len(t) = Len(s) + 1 /\ t[Len(t)] = x
             /\ \A i \in 1..Len(s) : i \in 1..Len(t) /\ t[i] = s[i]
             /\ \A i \in 1..Len(t) : i \in 1..Len(s) \/ i = Len(t)
<1> DEFINE t == Append(s, x)
<1>1. t \in Seq(S) /\ t # <<>> /\ Len(s) \in Nat
  OBVIOUS
<1>2. Len(t) = Len(s) + 1 /\ t[Len(s) + 1] = x /\ \A i \in 1..Len(s) : t[i] = s[i]
  OBVIOUS
<1> HIDE DEF t
<1>3. \A i \in 1..Len(t) : i \in 1..Len(s) \/ i = Len(t)
  BY <1>1, <1>2
<1>4. \A i \in 1..Len(s) : i \in 1..Len(t)
  BY <1>1, <1>2
<1> QED
  BY <1>1, <1>2, <1>3, <1>4 DEF t

\* What is put behind a sequence makes it longer by its own length.
LEMMA ConcatLength ==
  ASSUME NEW S, NEW p \in Seq(S), NEW q \in Seq(S), NEW r, r = p \o q
  PROVE  /\ r \in Seq(S) /\ Len(p) \in Nat /\ Len(q) \in Nat /\ Len(r) \in Nat
         /\ Len(r) = Len(p) + Len(q) /\ Len(r) >= Len(p)
         /\ q # <<>> => Len(r) > Len(p)
<1>1. r \in Seq(S) /\ Len(p) \in Nat /\ Len(q) \in Nat /\ Len(r) \in Nat
  OBVIOUS
<1>2. Len(r) = Len(p) + Len(q)
  OBVIOUS
<1>3. q # <<>> => Len(q) > 0
  OBVIOUS
<1> QED
  BY <1>1, <1>2, <1>3

\* A stream in its three parts: what was given away, the frame, the queue.
Stream(g, f, s) == g \o f \o s

\* A queue of a stream grows at the end of the stream.
LEMMA AppendToStream ==
  ASSUME NEW S, NEW g \in Seq(S), NEW f \in Seq(S), NEW s \in Seq(S), NEW x \in S
  PROVE  Stream(g, f, Append(s, x)) = Append(Stream(g, f, s), x)
  BY DEF Stream

\* The head of the queue that becomes a frame of its own stays in its place.
LEMMA HeadToFrame ==
  ASSUME NEW S, NEW g \in Seq(S), NEW s \in Seq(S), s # <<>>
  PROVE  Stream(g, <<Head(s)>>, Tail(s)) = Stream(g, <<>>, s)
  BY DEF Stream

\* The head of the queue that is added to the frame stays in its place.
LEMMA HeadJoinsFrame ==
  ASSUME NEW S, NEW g \in Seq(S), NEW f \in Seq(S), NEW s \in Seq(S), s # <<>>
  PROVE  Stream(g, Append(f, Head(s)), Tail(s)) = Stream(g, f, s)
<1>1. Append(f, Head(s)) \o Tail(s) = f \o s
  OBVIOUS
<1>2. Head(s) \in S /\ Tail(s) \in Seq(S) /\ Append(f, Head(s)) \in Seq(S)
  OBVIOUS
<1>3. \A a \in Seq(S), b \in Seq(S), c \in Seq(S) : (a \o b) \o c = a \o (b \o c)
  OBVIOUS
<1>4. (g \o Append(f, Head(s))) \o Tail(s) = g \o (Append(f, Head(s)) \o Tail(s))
  BY <1>2, <1>3, Zenon
<1>5. (g \o f) \o s = g \o (f \o s)
  BY <1>3, Zenon
<1> QED
  BY <1>1, <1>4, <1>5, Zenon DEF Stream

\* A frame that is flushed stays in its place.
LEMMA FrameFlushed ==
  ASSUME NEW S, NEW g \in Seq(S), NEW f \in Seq(S), NEW s \in Seq(S)
  PROVE  Stream(g \o f, <<>>, s) = Stream(g, f, s)
  BY DEF Stream

\* A stretch of a sequence does not change when the sequence grows.
LEMMA StretchStays ==
  ASSUME NEW S, NEW s \in Seq(S), NEW x \in S, NEW i \in Nat, NEW n \in Nat, n <= Len(s)
  PROVE  SubSeq(Append(s, x), i + 1, n) = SubSeq(s, i + 1, n)
  OBVIOUS

\* A stretch grows by the element that follows it.
LEMMA StretchGrows ==
  ASSUME NEW S, NEW s \in Seq(S), NEW i \in Nat, NEW n \in Nat, i <= n, n < Len(s)
  PROVE  SubSeq(s, i + 1, n + 1) = Append(SubSeq(s, i + 1, n), s[n + 1])
  OBVIOUS

\* A prefix of a stretch is the stretch of the prefix's length.
LEMMA StretchPrefix ==
  ASSUME NEW S, NEW s \in Seq(S), NEW i \in Nat, NEW p \in Seq(S), NEW q \in Seq(S),
         i + Len(p \o q) <= Len(s), p \o q = SubSeq(s, i + 1, i + Len(p \o q))
  PROVE  p = SubSeq(s, i + 1, i + Len(p))
  OBVIOUS
=============================================================================
