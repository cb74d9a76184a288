----------------------------- MODULE HubProofs ------------------------------
(***************************************************************************)
(* Proofs about Hub, for any connections, any capacity of their channels   *)
(* and any number of ticks; and that Hub implements Feed.                  *)
(*                                                                         *)
(* Both rest on the pipeline of a subscriber: what was written to it, what *)
(* writePump has in hand, and what its channel holds.  A message moves     *)
(* along it without leaving it, a broadcast adds to its end, and a failed  *)
(* write takes one out.                                                    *)
(***************************************************************************)
EXTENDS Hub, SequenceTheorems, TLAPS

Sorted(p) == \A j, k \in 1..Len(p) : j < k => p[j] < p[k]

Within(p, a, b) == \A k \in 1..Len(p) : p[k] > a /\ p[k] <= b

InHand(c) == IF writing[c] = 0 THEN <<>> ELSE <<writing[c]>>
-----------------------------------------------------------------------------
(***************************************************************************)
(* Sequences.                                                              *)
(***************************************************************************)
\* p has the elements of s, m and q in this order.
Joined(p, s, m, q) ==
    /\ Len(p) = Len(s) + Len(m) + Len(q)
    /\ \A k \in 1..(Len(s) + Len(m) + Len(q)) :
          p[k] = IF k <= Len(s) THEN s[k]
                 ELSE IF k <= Len(s) + Len(m) THEN m[k - Len(s)]
                 ELSE q[k - Len(s) - Len(m)]

LEMMA Elements ==
    ASSUME NEW S, NEW s \in Seq(S), NEW m \in Seq(S), NEW q \in Seq(S)
    PROVE  s \o m \o q \in Seq(S) /\ Joined(s \o m \o q, s, m, q)
<1>1. /\ s \o m \in Seq(S) /\ Len(s \o m) = Len(s) + Len(m)
      /\ \A k \in 1..(Len(s) + Len(m)) :
            (s \o m)[k] = IF k <= Len(s) THEN s[k] ELSE m[k - Len(s)]
  BY ConcatProperties
<1>2. /\ (s \o m) \o q \in Seq(S)
      /\ Len((s \o m) \o q) = Len(s \o m) + Len(q)
      /\ \A k \in 1..(Len(s \o m) + Len(q)) :
            ((s \o m) \o q)[k] = IF k <= Len(s \o m) THEN (s \o m)[k] ELSE q[k - Len(s \o m)]
  BY <1>1, ConcatProperties
<1>3. Len(s) \in Nat /\ Len(m) \in Nat /\ Len(q) \in Nat
  BY LenProperties
<1>4. /\ Len(s \o m \o q) = Len(s) + Len(m) + Len(q)
      /\ \A k \in 1..(Len(s) + Len(m) + Len(q)) :
            (s \o m \o q)[k] = IF k <= Len(s) THEN s[k]
                               ELSE IF k <= Len(s) + Len(m) THEN m[k - Len(s)]
                               ELSE q[k - Len(s) - Len(m)]
  BY <1>1, <1>2, <1>3
<1> QED
  BY <1>2, <1>4 DEF Joined

\* A sequence begins with its head: h is a sequence of it alone, r the rest.
LEMMA HeadMoves ==
    ASSUME NEW S, NEW s \in Seq(S), NEW q \in Seq(S), NEW h \in Seq(S), NEW r \in Seq(S),
           NEW z \in Seq(S), Len(z) = 0,
           Len(h) = 1, h[1] = q[1], Len(q) = Len(r) + 1, \A k \in 1..Len(r) : r[k] = q[k + 1],
           NEW p \in Seq(S), NEW e \in Seq(S), Joined(p, s, h, r), Joined(e, s, z, q)
    PROVE  p = e
<1>1. Len(s) \in Nat /\ Len(q) \in Nat /\ Len(r) \in Nat
  BY LenProperties
<1>2. /\ Len(p) = Len(s) + 1 + Len(r)
      /\ \A k \in 1..(Len(s) + 1 + Len(r)) :
           p[k] = IF k <= Len(s) THEN s[k] ELSE IF k <= Len(s) + 1 THEN h[k - Len(s)]
                                           ELSE r[k - Len(s) - 1]
  BY DEF Joined
<1>3. /\ Len(e) = Len(s) + Len(q)
      /\ \A k \in 1..(Len(s) + Len(q)) : e[k] = IF k <= Len(s) THEN s[k] ELSE q[k - Len(s)]
  BY <1>1 DEF Joined
<1>4. ASSUME NEW k \in 1..(Len(s) + Len(q)) PROVE p[k] = e[k]
  <2>1. CASE k <= Len(s)
    BY <2>1, <1>1, <1>2, <1>3
  <2>2. CASE k = Len(s) + 1
    <3>1. p[k] = h[1] /\ e[k] = q[1]
      BY <2>2, <1>1, <1>2, <1>3
    <3> QED
      BY <3>1
  <2>3. CASE k > Len(s) + 1
    <3>1. p[k] = r[k - Len(s) - 1] /\ e[k] = q[k - Len(s)]
      BY <2>3, <1>1, <1>2, <1>3
    <3>2. k - Len(s) - 1 \in 1..Len(r) /\ (k - Len(s) - 1) + 1 = k - Len(s)
      BY <2>3, <1>1
    <3> QED
      BY <3>1, <3>2
  <2> QED
    BY <1>1, <2>1, <2>2, <2>3
<1>5. Len(p) = Len(e) /\ Len(p) = Len(s) + Len(q)
  BY <1>1, <1>2, <1>3
<1> QED
  BY <1>4, <1>5, SeqEqual

\* writePump takes the head of the channel.
LEMMA PipeTake ==
    ASSUME NEW S, NEW s \in Seq(S), NEW q \in Seq(S), q /= <<>>
    PROVE  s \o <<Head(q)>> \o Tail(q) = s \o <<>> \o q
<1>1. /\ Head(q) \in S /\ Tail(q) \in Seq(S) /\ Len(Tail(q)) = Len(q) - 1
      /\ \A k \in 1..Len(Tail(q)) : Tail(q)[k] = q[k + 1]
  BY HeadTailProperties
<1>2. Len(q) \in Nat /\ Head(q) = q[1] /\ Len(q) = Len(Tail(q)) + 1
  BY <1>1, LenProperties
<1>3. <<Head(q)>> \in Seq(S) /\ Len(<<Head(q)>>) = 1 /\ <<Head(q)>>[1] = q[1]
  BY <1>1, <1>2
<1>4. <<>> \in Seq(S) /\ Len(<<>>) = 0
  BY EmptySeq
<1> DEFINE h == <<Head(q)>>  r == Tail(q)
<1>5. h \in Seq(S) /\ r \in Seq(S)
  BY <1>1, <1>3
<1>6. s \o h \o r \in Seq(S) /\ Joined(s \o h \o r, s, h, r)
  <2> HIDE DEF h, r
  <2> QED BY <1>5, Elements
<1>7. s \o <<>> \o q \in Seq(S) /\ Joined(s \o <<>> \o q, s, <<>>, q)
  BY <1>4, Elements
<1> HIDE DEF h, r
<1>8. s \o h \o r = s \o <<>> \o q
  <2>1. Len(h) = 1 /\ h[1] = q[1]
    BY <1>3 DEF h
  <2>2. Len(q) = Len(r) + 1 /\ \A k \in 1..Len(r) : r[k] = q[k + 1]
    BY <1>1, <1>2 DEF r
  <2> QED
    BY <1>4, <1>5, <1>6, <1>7, <2>1, <2>2, HeadMoves
<1> QED
  BY <1>8 DEF h, r

\* writePump has written what it had in hand.
LEMMA PipeWrite ==
    ASSUME NEW S, NEW s \in Seq(S), NEW q \in Seq(S), NEW w \in S
    PROVE  Append(s, w) \o <<>> \o q = s \o <<w>> \o q
<1>1. Append(s, w) = s \o <<w>>
  BY AppendIsConcat
<1>2. Append(s, w) \in Seq(S)
  BY AppendProperties
<1>3. Append(s, w) \o <<>> = Append(s, w)
  BY <1>2, ConcatEmptySeq
<1> QED
  BY <1>1, <1>3

\* A broadcast has room in the channel.
LEMMA PipeAppend ==
    ASSUME NEW S, NEW s \in Seq(S), NEW m \in Seq(S), NEW q \in Seq(S), NEW t \in S,
           NEW p, NEW r, p = s \o m \o q, r = s \o m \o Append(q, t)
    PROVE  r = Append(p, t)
<1>1. s \o m \in Seq(S) /\ (s \o m) \o q \in Seq(S) /\ <<t>> \in Seq(S)
  BY ConcatProperties
<1>2. Append(q, t) = q \o <<t>> /\ Append(s \o m \o q, t) = ((s \o m) \o q) \o <<t>>
  BY <1>1, AppendIsConcat
<1>3. ((s \o m) \o q) \o <<t>> = (s \o m) \o (q \o <<t>>)
  BY <1>1, ConcatAssociative
<1> QED
  BY <1>2, <1>3

\* An element m taken out of the middle leaves the rest in order.
LEMMA MiddleDrops ==
    ASSUME NEW a \in Int, NEW b \in Int, NEW s \in Seq(Int), NEW q \in Seq(Int),
           NEW m \in Seq(Int), NEW z \in Seq(Int), Len(m) = 1, Len(z) = 0,
           NEW p \in Seq(Int), NEW e \in Seq(Int), Joined(p, s, m, q), Joined(e, s, z, q),
           Sorted(p), Within(p, a, b)
    PROVE  Sorted(e) /\ Within(e, a, b)
<1> DEFINE Place(k) == IF k <= Len(s) THEN k ELSE k + 1
<1>2. Len(s) \in Nat /\ Len(q) \in Nat
  BY LenProperties
<1>3. Len(p) = Len(s) + 1 + Len(q)
      /\ \A k \in 1..(Len(s) + 1 + Len(q)) :
           p[k] = IF k <= Len(s) THEN s[k] ELSE IF k <= Len(s) + 1 THEN m[k - Len(s)]
                                           ELSE q[k - Len(s) - 1]
  BY DEF Joined
<1>4. Len(e) = Len(s) + Len(q)
      /\ \A k \in 1..(Len(s) + Len(q)) : e[k] = IF k <= Len(s) THEN s[k] ELSE q[k - Len(s)]
  BY <1>2 DEF Joined
<1>6. ASSUME NEW k \in 1..Len(e) PROVE Place(k) \in 1..Len(p) /\ e[k] = p[Place(k)]
  <2>0. k \in 1..(Len(s) + Len(q)) /\ k \in Nat
    BY <1>2, <1>4
  <2>1. CASE k <= Len(s)
    <3>1. k \in 1..(Len(s) + 1 + Len(q)) /\ Place(k) = k
      BY <2>0, <2>1, <1>2
    <3>2. p[k] = s[k]
      BY <2>1, <3>1, <1>3
    <3>3. e[k] = s[k]
      BY <2>0, <2>1, <1>4
    <3> HIDE DEF Place
    <3> QED
      BY <3>1, <3>2, <3>3, <1>3
  <2>2. CASE ~(k <= Len(s))
    <3>1. k + 1 \in 1..(Len(s) + 1 + Len(q)) /\ Place(k) = k + 1
      BY <2>0, <2>2, <1>2
    <3>2. ~(k + 1 <= Len(s)) /\ ~(k + 1 <= Len(s) + 1) /\ (k + 1) - Len(s) - 1 = k - Len(s)
      BY <2>0, <2>2, <1>2
    <3>3. p[k + 1] = q[(k + 1) - Len(s) - 1]
      BY <3>1, <3>2, <1>3, Zenon
    <3>4. e[k] = q[k - Len(s)]
      BY <2>0, <2>2, <1>4
    <3> HIDE DEF Place
    <3> QED
      BY <3>1, <3>2, <3>3, <3>4, <1>3, Zenon
  <2> QED
    BY <2>1, <2>2
<1>7. \A j, k \in 1..Len(e) : j < k => Place(j) < Place(k)
  BY <1>2, <1>4
<1> HIDE DEF Place
<1>8. Sorted(e)
  BY <1>6, <1>7 DEF Sorted
<1>9. Within(e, a, b)
  BY <1>6 DEF Within
<1> QED
  BY <1>8, <1>9

\* writePump has lost what it had in hand.
LEMMA PipeDrop ==
    ASSUME NEW a \in Int, NEW b \in Int, NEW s \in Seq(Int), NEW q \in Seq(Int), NEW w \in Int,
           Sorted(s \o <<w>> \o q), Within(s \o <<w>> \o q, a, b)
    PROVE  Sorted(s \o <<>> \o q) /\ Within(s \o <<>> \o q, a, b)
<1>1. <<w>> \in Seq(Int) /\ Len(<<w>>) = 1 /\ <<>> \in Seq(Int) /\ Len(<<>>) = 0
  BY EmptySeq
<1>2. s \o <<w>> \o q \in Seq(Int) /\ Joined(s \o <<w>> \o q, s, <<w>>, q)
  BY <1>1, Elements
<1>3. s \o <<>> \o q \in Seq(Int) /\ Joined(s \o <<>> \o q, s, <<>>, q)
  BY <1>1, Elements
<1> QED
  BY <1>1, <1>2, <1>3, MiddleDrops

\* The one element of m comes after those of s.
LEMMA MiddleIsNewer ==
    ASSUME NEW a \in Int, NEW b \in Int, NEW s \in Seq(Int), NEW q \in Seq(Int),
           NEW m \in Seq(Int), Len(m) = 1, NEW p, Joined(p, s, m, q),
           Sorted(p), Within(p, a, b)
    PROVE  m[1] > a /\ m[1] <= b /\ (Len(s) > 0 => s[Len(s)] < m[1])
<1>1. PICK n \in Nat : n = Len(s)
  BY LenProperties
<1>2. Len(q) \in Nat
  BY LenProperties
<1>3. /\ Len(p) = n + 1 + Len(q)
      /\ \A k \in 1..(n + 1 + Len(q)) :
           p[k] = IF k <= n THEN s[k] ELSE IF k <= n + 1 THEN m[k - n] ELSE q[k - n - 1]
  BY <1>1 DEF Joined
<1>4. n + 1 \in 1..Len(p) /\ p[n + 1] = m[1]
  <2>1. n + 1 \in 1..(n + 1 + Len(q)) /\ ~(n + 1 <= n) /\ n + 1 <= n + 1 /\ (n + 1) - n = 1
    BY <1>2
  <2>2. p[n + 1] = m[(n + 1) - n]
    BY <1>3, <2>1, Zenon
  <2> QED
    BY <1>3, <2>1, <2>2, Zenon
<1>5. m[1] > a /\ m[1] <= b
  BY <1>4 DEF Within
<1>6. ASSUME n > 0 PROVE s[n] < m[1]
  <2>1. n \in 1..(n + 1 + Len(q)) /\ n <= n /\ n < n + 1
    BY <1>2, <1>6
  <2>2. p[n] = s[n]
    BY <1>3, <2>1, Zenon
  <2>3. p[n] < p[n + 1]
    BY <1>3, <1>4, <2>1 DEF Sorted
  <2> QED
    BY <1>4, <2>2, <2>3
<1> QED
  BY <1>1, <1>5, <1>6

\* A new tick at the end of a pipeline.
LEMMA Appended ==
    ASSUME NEW a \in Int, NEW b \in Int, NEW p \in Seq(Int), a <= b, Sorted(p), Within(p, a, b)
    PROVE  Sorted(Append(p, b + 1)) /\ Within(Append(p, b + 1), a, b + 1)
<1>1. /\ Len(Append(p, b + 1)) = Len(p) + 1 /\ Len(p) \in Nat
      /\ \A k \in 1..Len(p) : Append(p, b + 1)[k] = p[k] /\ p[k] \in Int
      /\ Append(p, b + 1)[Len(p) + 1] = b + 1
  BY AppendProperties, LenProperties, ElementOfSeq
<1> DEFINE r == Append(p, b + 1)
<1> HIDE DEF r
<1>2. \A k \in 1..Len(r) : k \in 1..Len(p) \/ k = Len(p) + 1
  BY <1>1 DEF r
<1>3. Within(r, a, b + 1)
  <2> SUFFICES ASSUME NEW k \in 1..Len(r) PROVE r[k] > a /\ r[k] <= b + 1
    BY DEF Within
  <2>1. CASE k \in 1..Len(p)
    BY <2>1, <1>1 DEF r, Within
  <2>2. CASE k = Len(p) + 1
    BY <2>2, <1>1 DEF r
  <2> QED
    BY <1>2, <2>1, <2>2
<1>4. Sorted(r)
  <2> SUFFICES ASSUME NEW j \in 1..Len(r), NEW k \in 1..Len(r), j < k PROVE r[j] < r[k]
    BY DEF Sorted
  <2>1. j \in 1..Len(p)
    BY <1>1 DEF r
  <2>2. CASE k \in 1..Len(p)
    BY <2>1, <2>2, <1>1 DEF r, Sorted
  <2>3. CASE k = Len(p) + 1
    BY <2>1, <2>3, <1>1 DEF r, Within
  <2> QED
    BY <1>2, <2>2, <2>3
<1> QED
  BY <1>3, <1>4 DEF r

\* r lists the numbers from a + 1 on, and t lists one more.
LEMMA ListExtends ==
    ASSUME NEW a \in Nat, NEW n \in Nat, NEW r \in Seq(Int), NEW t \in Seq(Int),
           Len(r) = n, \A k \in 1..n : r[k] = a + k,
           Len(t) = n + 1, \A k \in 1..(n + 1) : t[k] = a + k
    PROVE  Append(r, a + n + 1) = t
<1>1. /\ Append(r, a + n + 1) \in Seq(Int) /\ Len(Append(r, a + n + 1)) = n + 1
      /\ \A k \in 1..n : Append(r, a + n + 1)[k] = r[k]
      /\ Append(r, a + n + 1)[n + 1] = a + n + 1
  BY AppendProperties
<1>2. ASSUME NEW k \in 1..(n + 1) PROVE Append(r, a + n + 1)[k] = t[k]
  <2>1. CASE k \in 1..n
    BY <2>1, <1>1
  <2>2. CASE k = n + 1
    <3>1. t[n + 1] = a + n + 1
      OBVIOUS
    <3> QED
      BY <2>2, <3>1, <1>1
  <2> QED
    BY <2>1, <2>2
<1> QED
  BY <1>1, <1>2, SeqEqual

\* The ticks since a, and one more.
LEMMA RunExtends ==
    ASSUME NEW a \in Nat, NEW b \in Nat, a <= b
    PROVE  Append([k \in 1..(b - a) |-> a + k], b + 1) = [k \in 1..((b + 1) - a) |-> a + k]
<1>1. PICK n \in Nat : n = b - a
  OBVIOUS
<1> DEFINE r == [k \in 1..n |-> a + k]  t == [k \in 1..(n + 1) |-> a + k]
<1>2. r \in Seq(Int) /\ Len(r) = n /\ \A k \in 1..n : r[k] = a + k
  OBVIOUS
<1>3. t \in Seq(Int) /\ Len(t) = n + 1 /\ \A k \in 1..(n + 1) : t[k] = a + k
  OBVIOUS
<1>4. Append(r, a + n + 1) = t
  <2> HIDE DEF r, t
  <2> QED
    BY <1>2, <1>3, ListExtends
<1>5. a + n + 1 = b + 1 /\ (b + 1) - a = n + 1
  BY <1>1
<1> QED
  BY <1>1, <1>4, <1>5
-----------------------------------------------------------------------------
(***************************************************************************)
(* The inductive invariant: types, and for each connection the following.  *)
(***************************************************************************)
\* Before it is registered nothing has been put into it.
Fresh(c) ==
    rd[c] \in {"none", "accepted"} =>
        /\ wr[c] = "none" /\ writing[c] = 0 /\ since[c] = 0 /\ c \notin subs
        /\ send[c] = <<>> /\ sent[c] = <<>>

\* writePump has a message in hand while it writes.
Hand(c) == wr[c] = "write" <=> writing[c] /= 0

InPipe(c) ==
    /\ since[c] <= ticks
    /\ Sorted(Pipeline(c)) /\ Within(Pipeline(c), since[c], ticks)

Complete(c) ==
    (c \in subs \ full /\ conn[c] = "open") =>
        Pipeline(c) = [k \in 1..(ticks - since[c]) |-> since[c] + k]

Read(c) == c \in subs => rd[c] \in {"read", "forget"}

CInv(c) == Fresh(c) /\ Hand(c) /\ InPipe(c) /\ Complete(c) /\ Read(c)

IInv == TypeOK /\ \A c \in Clients : CInv(c)

LEMMA PipelineOfHand ==
    ASSUME NEW c
    PROVE  Pipeline(c) = sent[c] \o InHand(c) \o send[c]
BY DEF Pipeline, InHand

LEMMA PipelineGrows ==
    ASSUME NEW S, NEW c, NEW t \in S,
           sent[c] \in Seq(S), InHand(c) \in Seq(S), send[c] \in Seq(S),
           Pipeline(c)' = sent[c] \o InHand(c) \o Append(send[c], t)
    PROVE  Pipeline(c)' = Append(Pipeline(c), t)
<1>1. Pipeline(c) = sent[c] \o InHand(c) \o send[c]
  BY PipelineOfHand
<1> DEFINE from == sent[c]  hand == InHand(c)  chan == send[c]  after == Pipeline(c)'
           before == Pipeline(c)
<1>2. from \in Seq(S) /\ hand \in Seq(S) /\ chan \in Seq(S) /\ t \in S
  OBVIOUS
<1>3. before = from \o hand \o chan /\ after = from \o hand \o Append(chan, t)
  BY <1>1
<1> HIDE DEF from, hand, chan, before, after
<1>4. after = Append(before, t)
  BY ONLY <1>2, <1>3, PipeAppend
<1> QED
  BY <1>4 DEF before, after

LEMMA PartsTyped ==
    ASSUME TypeOK, NEW c \in Clients
    PROVE  /\ sent[c] \in Seq(1..MaxTicks) /\ send[c] \in Seq(1..MaxTicks)
           /\ sent[c] \in Seq(Int) /\ send[c] \in Seq(Int)
           /\ writing[c] \in 0..MaxTicks /\ since[c] \in Nat /\ ticks \in Nat
           /\ InHand(c) \in Seq(1..MaxTicks)
           /\ Pipeline(c) \in Seq(Int)
<1>1. /\ sent[c] \in Seq(1..MaxTicks) /\ send[c] \in Seq(1..MaxTicks)
      /\ writing[c] \in 0..MaxTicks /\ since[c] \in 0..MaxTicks /\ ticks \in 0..MaxTicks
  BY DEF TypeOK
<1>2. 1..MaxTicks \subseteq Int
  BY MaxTicksAssumption
<1>3. sent[c] \in Seq(Int) /\ send[c] \in Seq(Int)
  BY <1>1, <1>2, SeqMonotonic
<1>4. InHand(c) \in Seq(1..MaxTicks)
  <2>1. CASE writing[c] = 0
    BY <2>1, EmptySeq DEF InHand
  <2>2. CASE writing[c] /= 0
    <3>1. writing[c] \in 1..MaxTicks
      BY <1>1, <2>2, MaxTicksAssumption
    <3> QED
      BY <2>2, <3>1 DEF InHand
  <2> QED
    BY <2>1, <2>2
<1>5. sent[c] \o InHand(c) \o send[c] \in Seq(1..MaxTicks)
  BY <1>1, <1>4, Elements
<1>6. Pipeline(c) \in Seq(Int)
  BY <1>2, <1>5, PipelineOfHand, SeqMonotonic
<1> QED
  BY <1>1, <1>3, <1>4, <1>6, MaxTicksAssumption

\* A step that leaves what a connection is made of alone.
LEMMA Untouched ==
    ASSUME NEW c \in Clients, CInv(c), TypeOK,
           sent'[c] = sent[c], writing'[c] = writing[c], send'[c] = send[c],
           since'[c] = since[c], ticks' = ticks,
           rd'[c] = rd[c] \/ rd'[c] \in {"forget", "accepted"} \/ (c \notin subs' /\ rd'[c] = "end"),
           rd'[c] = "accepted" => rd[c] \in {"none", "accepted"},
           wr'[c] = wr[c] \/ (wr[c] = "select" /\ wr'[c] = "end"),
           wr'[c] = wr[c] \/ wr[c] /= "none",
           c \in subs' => c \in subs,
           c \in full => c \in full',
           conn'[c] = "open" => conn[c] = "open" \/ c \notin subs
    PROVE  CInv(c)'
<1>1. Pipeline(c)' = Pipeline(c)
  BY DEF Pipeline
<1>2. Fresh(c)'
  BY DEF CInv, Fresh, Hand
<1>3. Hand(c)' /\ Read(c)'
  BY DEF CInv, Hand, Read, Fresh
<1>4. InPipe(c)'
  BY <1>1 DEF CInv, InPipe, Sorted, Within
<1>5. Complete(c)'
  BY <1>1 DEF CInv, Complete
<1> QED
  BY <1>2, <1>3, <1>4, <1>5 DEF CInv
-----------------------------------------------------------------------------
LEMMA InitInvariant == Init => IInv
<1> SUFFICES ASSUME Init PROVE IInv
  OBVIOUS
<1>1. TypeOK
  <2>1. ticks \in 0..MaxTicks
    BY MaxTicksAssumption DEF Init
  <2>2. \A c \in Clients : Len(send[c]) <= Cap
    BY CapAssumption DEF Init
  <2>3. /\ send \in [Clients -> Seq(1..MaxTicks)] /\ sent \in [Clients -> Seq(1..MaxTicks)]
        /\ writing \in [Clients -> 0..MaxTicks] /\ since \in [Clients -> 0..MaxTicks]
    BY MaxTicksAssumption DEF Init
  <2> QED
    BY <2>1, <2>2, <2>3 DEF Init, TypeOK
<1>2. ASSUME NEW c \in Clients PROVE CInv(c)
  <2>1. sent[c] = <<>> /\ send[c] = <<>> /\ InHand(c) = <<>>
    BY DEF Init, InHand
  <2>2. Pipeline(c) = <<>>
    <3>1. <<>> \o <<>> = <<>>
      BY EmptySeq, ConcatEmptySeq
    <3> QED
      BY <2>1, <3>1, PipelineOfHand
  <2>3. Sorted(Pipeline(c)) /\ Within(Pipeline(c), since[c], ticks)
    BY <2>2 DEF Sorted, Within
  <2>4. Fresh(c) /\ Hand(c) /\ Complete(c) /\ Read(c) /\ since[c] <= ticks
    BY DEF Init, Fresh, Hand, Complete, Read
  <2> QED
    BY <2>3, <2>4 DEF CInv, InPipe
<1> QED
  BY <1>1, <1>2 DEF IInv

LEMMA StepInvariant == IInv /\ [Next]_vars => IInv'
<1> SUFFICES ASSUME IInv, [Next]_vars PROVE IInv'
  OBVIOUS
<1>0. TypeOK /\ \A c \in Clients : CInv(c)
  BY DEF IInv
<1> USE MaxTicksAssumption, CapAssumption
<1>1. ASSUME Broadcast PROVE IInv'
  <2>1. ticks \in 0..MaxTicks /\ ticks' = ticks + 1 /\ ticks' \in 1..MaxTicks
    BY <1>0, <1>1 DEF Broadcast, TypeOK
  <2>2. ASSUME NEW c \in Clients
        PROVE  /\ send'[c] \in Seq(1..MaxTicks) /\ Len(send'[c]) <= Cap
               /\ send'[c] = IF c \in subs /\ Len(send[c]) < Cap
                             THEN Append(send[c], ticks + 1) ELSE send[c]
    <3>1. send[c] \in Seq(1..MaxTicks) /\ Len(send[c]) <= Cap /\ Len(send[c]) \in Nat
      BY <1>0, PartsTyped, LenProperties DEF TypeOK
    <3>2. send'[c] = IF c \in subs /\ Len(send[c]) < Cap THEN Append(send[c], ticks + 1)
                                                        ELSE send[c]
      BY <1>1 DEF Broadcast
    <3>3. /\ Append(send[c], ticks + 1) \in Seq(1..MaxTicks)
          /\ Len(Append(send[c], ticks + 1)) = Len(send[c]) + 1
      BY <2>1, <3>1, AppendProperties
    <3>4. CASE c \in subs /\ Len(send[c]) < Cap
      <4>1. send'[c] = Append(send[c], ticks + 1)
        BY <3>2, <3>4
      <4>2. Len(send[c]) + 1 <= Cap
        BY <3>1, <3>4
      <4>3. Len(send'[c]) <= Cap
        BY <3>3, <4>1, <4>2
      <4> QED
        BY <3>2, <3>3, <4>1, <4>3, Zenon
    <3>5. CASE ~(c \in subs /\ Len(send[c]) < Cap)
      BY <3>1, <3>2, <3>5
    <3> QED
      BY <3>4, <3>5
  <2>3. TypeOK'
    <3>1. send' \in [Clients -> Seq(1..MaxTicks)]
      <4>1. send' = [c \in Clients |-> send'[c]]
        BY <1>1 DEF Broadcast
      <4> QED
        BY <2>2, <4>1
    <3>2. \A c \in Clients : Len(send'[c]) <= Cap
      BY <2>2
    <3>3. full' \subseteq Clients /\ ticks' \in 0..MaxTicks
      BY <1>0, <1>1, <2>1 DEF Broadcast, TypeOK
    <3> QED
      BY <1>0, <1>1, <3>1, <3>2, <3>3 DEF Broadcast, TypeOK
  <2>4. ASSUME NEW c \in Clients PROVE CInv(c)'
    <3>0. CInv(c) /\ UNCHANGED <<rd, wr, writing, since, sent, subs, conn>>
      BY <1>0, <1>1 DEF Broadcast
    <3>1. InHand(c)' = InHand(c)
      BY <3>0 DEF InHand
    <3>2. Hand(c)' /\ Read(c)'
      BY <3>0 DEF CInv, Hand, Read
    <3>3. Fresh(c)'
      BY <3>0, <2>2 DEF CInv, Fresh
    <3>4. since[c] \in Nat /\ ticks \in Nat /\ since[c] <= ticks /\ Pipeline(c) \in Seq(Int)
          /\ Sorted(Pipeline(c)) /\ Within(Pipeline(c), since[c], ticks)
      BY <1>0, <3>0, PartsTyped DEF CInv, InPipe
    <3>5. CASE c \in subs /\ Len(send[c]) < Cap
      <4>1. Pipeline(c)' = Append(Pipeline(c), ticks + 1)
        <5>1. Pipeline(c)' = sent[c] \o InHand(c) \o Append(send[c], ticks + 1)
          BY <2>2, <3>0, <3>1, <3>5, PipelineOfHand DEF Pipeline, InHand
        <5>2. sent[c] \in Seq(1..MaxTicks) /\ InHand(c) \in Seq(1..MaxTicks)
              /\ send[c] \in Seq(1..MaxTicks) /\ ticks + 1 \in 1..MaxTicks
          BY <1>0, <2>1, PartsTyped
        <5> QED
          BY <5>1, <5>2, PipelineGrows
      <4> DEFINE p == Pipeline(c)
      <4>2. InPipe(c)'
        <5>1. Sorted(Append(p, ticks + 1)) /\ Within(Append(p, ticks + 1), since[c], ticks + 1)
          BY <3>4, Appended
        <5>2. Sorted(Pipeline(c)') /\ Within(Pipeline(c)', since[c], ticks + 1)
          BY <4>1, <5>1
        <5> QED
          BY <2>1, <3>0, <3>4, <5>2 DEF InPipe, Sorted, Within
      <4>3. Complete(c)'
        <5> SUFFICES ASSUME c \in subs' \ full', conn'[c] = "open"
                     PROVE  Pipeline(c)' = [k \in 1..((ticks + 1) - since[c]) |-> since[c] + k]
          BY <2>1, <3>0 DEF Complete
        <5>1. c \in subs \ full /\ conn[c] = "open"
          BY <1>1, <3>0 DEF Broadcast
        <5>2. p = [k \in 1..(ticks - since[c]) |-> since[c] + k]
          BY <3>0, <5>1 DEF CInv, Complete
        <5> QED
          BY <3>4, <4>1, <5>2, RunExtends
      <4> QED
        BY <3>2, <3>3, <4>2, <4>3 DEF CInv
    <3>6. CASE ~(c \in subs /\ Len(send[c]) < Cap)
      <4>1. Pipeline(c)' = Pipeline(c)
        BY <2>2, <3>0, <3>6 DEF Pipeline
      <4>2. InPipe(c)'
        BY <2>1, <3>0, <3>4, <4>1, PartsTyped DEF InPipe, Sorted, Within
      <4>3. c \notin subs' \ full'
        <5>1. c \in subs => Len(send[c]) = Cap
          BY <1>0, <3>6, PartsTyped, LenProperties DEF TypeOK
        <5> QED
          BY <1>1, <3>0, <5>1 DEF Broadcast
      <4> QED
        BY <3>2, <3>3, <4>2, <4>3 DEF CInv, Complete
    <3> QED
      BY <3>5, <3>6
  <2> QED
    BY <2>3, <2>4 DEF IInv
<1>2. ASSUME NEW e \in Clients, Accept(e) PROVE IInv'
  <2>1. TypeOK'
    BY <1>0, <1>2 DEF Accept, TypeOK
  <2>2. ASSUME NEW c \in Clients PROVE CInv(c)'
    <3>1. Fresh(c)
      BY <1>0 DEF CInv
    <3> QED
      BY <1>0, <1>2, <3>1, Untouched DEF Accept, TypeOK, Fresh
  <2> QED
    BY <2>1, <2>2 DEF IInv
<1>3. ASSUME NEW e \in Clients, Register(e) PROVE IInv'
  <2>1. TypeOK'
    BY <1>0, <1>3 DEF Register, TypeOK
  <2>2. ASSUME NEW c \in Clients, c /= e PROVE CInv(c)'
    BY <1>0, <1>3, <2>2, Untouched DEF Register, TypeOK
  <2>3. CInv(e)'
    <3>1. wr[e] = "none" /\ writing[e] = 0 /\ send[e] = <<>> /\ sent[e] = <<>>
      BY <1>0, <1>3 DEF Register, CInv, Fresh
    <3>2. /\ rd'[e] = "read" /\ wr'[e] = "select" /\ since'[e] = ticks /\ ticks' = ticks
          /\ writing'[e] = 0 /\ send'[e] = <<>> /\ sent'[e] = <<>>
      BY <1>0, <1>3, <3>1 DEF Register, TypeOK
    <3>3. Pipeline(e)' = <<>>
      <4>1. <<>> \o <<>> = <<>>
        BY EmptySeq, ConcatEmptySeq
      <4> QED
        BY <3>2, <4>1 DEF Pipeline
    <3>4. ticks \in Nat
      BY <1>0 DEF TypeOK
    <3>5. InPipe(e)'
      BY <3>2, <3>3, <3>4 DEF InPipe, Sorted, Within
    <3>6. Complete(e)'
      BY <3>2, <3>3, <3>4 DEF Complete
    <3> QED
      BY <3>2, <3>5, <3>6 DEF CInv, Fresh, Hand, Read
  <2> QED
    BY <2>1, <2>2, <2>3 DEF IInv
<1>4. ASSUME NEW e \in Clients, Take(e) PROVE IInv'
  <2>0. /\ send[e] \in Seq(1..MaxTicks) /\ sent[e] \in Seq(1..MaxTicks) /\ send[e] /= <<>>
        /\ wr[e] = "select" /\ writing[e] = 0 /\ Len(send[e]) <= Cap
    BY <1>0, <1>4, PartsTyped DEF Take, CInv, Hand, TypeOK
  <2>1. /\ Head(send[e]) \in 1..MaxTicks /\ Tail(send[e]) \in Seq(1..MaxTicks)
        /\ Len(Tail(send[e])) <= Cap
    <3>1. /\ Head(send[e]) \in 1..MaxTicks /\ Tail(send[e]) \in Seq(1..MaxTicks)
          /\ Len(Tail(send[e])) = Len(send[e]) - 1 /\ Len(send[e]) \in Nat
      BY <2>0, HeadTailProperties, LenProperties
    <3> QED
      BY <2>0, <3>1
  <2>2. /\ writing'[e] = Head(send[e]) /\ send'[e] = Tail(send[e]) /\ wr'[e] = "write"
        /\ sent'[e] = sent[e]
    BY <1>0, <1>4 DEF Take, TypeOK
  <2>3. TypeOK'
    BY <1>0, <1>4, <2>1 DEF Take, TypeOK
  <2>4. ASSUME NEW c \in Clients, c /= e PROVE CInv(c)'
    BY <1>0, <1>4, <2>4, Untouched DEF Take, TypeOK
  <2>5. CInv(e)'
    <3>1. Pipeline(e)' = Pipeline(e)
      <4>1. Pipeline(e)' = sent[e] \o <<Head(send[e])>> \o Tail(send[e])
        <5>1. writing'[e] /= 0
          BY <2>1, <2>2
        <5> QED
          BY <2>2, <5>1, Zenon DEF Pipeline
      <4>2. Pipeline(e) = sent[e] \o <<>> \o send[e]
        BY <2>0 DEF Pipeline
      <4> QED
        BY <2>0, <4>1, <4>2, PipeTake, Zenon
    <3>2. Hand(e)'
      BY <2>1, <2>2 DEF Hand
    <3>3. Fresh(e)' /\ Read(e)'
      BY <1>0, <1>4, <2>0 DEF Take, CInv, Fresh, Read
    <3>4. InPipe(e)' /\ Complete(e)'
      BY <1>0, <1>4, <3>1 DEF Take, CInv, InPipe, Complete, Sorted, Within
    <3> QED
      BY <3>2, <3>3, <3>4 DEF CInv
  <2> QED
    BY <2>3, <2>4, <2>5 DEF IInv
<1>5. ASSUME NEW e \in Clients, Write(e) PROVE IInv'
  <2>0. /\ send[e] \in Seq(1..MaxTicks) /\ sent[e] \in Seq(1..MaxTicks)
        /\ wr[e] = "write" /\ writing[e] \in 1..MaxTicks
    <3>1. writing[e] \in 0..MaxTicks /\ writing[e] /= 0 /\ wr[e] = "write"
      BY <1>0, <1>5 DEF Write, CInv, Hand, TypeOK
    <3> QED
      BY <1>0, <3>1, PartsTyped
  <2>1. Append(sent[e], writing[e]) \in Seq(1..MaxTicks)
    BY <2>0, AppendProperties
  <2>2. /\ writing'[e] = 0 /\ send'[e] = send[e] /\ wr'[e] = "select"
        /\ sent'[e] = Append(sent[e], writing[e])
    BY <1>0, <1>5 DEF Write, TypeOK
  <2>3. TypeOK'
    BY <1>0, <1>5, <2>1 DEF Write, TypeOK
  <2>4. ASSUME NEW c \in Clients, c /= e PROVE CInv(c)'
    BY <1>0, <1>5, <2>4, Untouched DEF Write, TypeOK
  <2>5. CInv(e)'
    <3>1. Pipeline(e)' = Pipeline(e)
      <4>1. Pipeline(e)' = Append(sent[e], writing[e]) \o <<>> \o send[e]
        BY <2>2 DEF Pipeline
      <4>2. Pipeline(e) = sent[e] \o <<writing[e]>> \o send[e]
        <5>1. InHand(e) = <<writing[e]>>
          BY <2>0 DEF InHand
        <5> QED
          BY <5>1, PipelineOfHand
      <4> QED
        BY <2>0, <4>1, <4>2, PipeWrite, Zenon
    <3>2. Hand(e)'
      BY <2>2 DEF Hand
    <3>3. Fresh(e)' /\ Read(e)'
      BY <1>0, <1>5, <2>0 DEF Write, CInv, Fresh, Read
    <3>4. InPipe(e)' /\ Complete(e)'
      BY <1>0, <1>5, <3>1 DEF Write, CInv, InPipe, Complete, Sorted, Within
    <3> QED
      BY <3>2, <3>3, <3>4 DEF CInv
  <2> QED
    BY <2>3, <2>4, <2>5 DEF IInv
<1>6. ASSUME NEW e \in Clients, WriteFails(e) PROVE IInv'
  <2>0. /\ send[e] \in Seq(Int) /\ sent[e] \in Seq(Int) /\ since[e] \in Int /\ ticks \in Int
        /\ wr[e] = "write" /\ writing[e] \in Int /\ writing[e] /= 0
    BY <1>0, <1>6, PartsTyped DEF WriteFails, CInv, Hand
  <2>2. /\ writing'[e] = 0 /\ send'[e] = send[e] /\ wr'[e] = "end" /\ sent'[e] = sent[e]
        /\ conn'[e] = "closed"
    BY <1>0, <1>6 DEF WriteFails, TypeOK
  <2>3. TypeOK'
    BY <1>0, <1>6 DEF WriteFails, TypeOK
  <2>4. ASSUME NEW c \in Clients, c /= e PROVE CInv(c)'
    BY <1>0, <1>6, <2>4, Untouched DEF WriteFails, TypeOK
  <2>5. CInv(e)'
    <3>1. Pipeline(e)' = sent[e] \o <<>> \o send[e]
      BY <2>2 DEF Pipeline
    <3>2. Sorted(sent[e] \o <<writing[e]>> \o send[e])
          /\ Within(sent[e] \o <<writing[e]>> \o send[e], since[e], ticks)
      BY <1>0, <2>0 DEF CInv, InPipe, Pipeline
    <3>3. Sorted(sent[e] \o <<>> \o send[e])
          /\ Within(sent[e] \o <<>> \o send[e], since[e], ticks)
      BY <2>0, <3>2, PipeDrop
    <3>4. InPipe(e)'
      <4> DEFINE q == sent[e] \o <<>> \o send[e]
      <4>1. Sorted(q) /\ Within(q, since[e], ticks) /\ Pipeline(e)' = q
        BY <3>1, <3>3
      <4>2. since'[e] = since[e] /\ ticks' = ticks /\ since[e] <= ticks
        BY <1>0, <1>6 DEF WriteFails, CInv, InPipe
      <4> HIDE DEF q
      <4> QED
        BY <4>1, <4>2 DEF InPipe, Sorted, Within
    <3>5. Hand(e)' /\ Complete(e)'
      BY <2>2 DEF Hand, Complete
    <3>6. Fresh(e)' /\ Read(e)'
      BY <1>0, <1>6, <2>0 DEF WriteFails, CInv, Fresh, Read
    <3> QED
      BY <3>4, <3>5, <3>6 DEF CInv
  <2> QED
    BY <2>3, <2>4, <2>5 DEF IInv
<1>7. ASSUME NEW e \in Clients, Done(e) PROVE IInv'
  <2>1. TypeOK'
    BY <1>0, <1>7 DEF Done, TypeOK
  <2>2. ASSUME NEW c \in Clients PROVE CInv(c)'
    BY <1>0, <1>7, Untouched DEF Done, TypeOK
  <2> QED
    BY <2>1, <2>2 DEF IInv
<1>8. ASSUME NEW e \in Clients, ReadFails(e) PROVE IInv'
  <2>1. TypeOK'
    BY <1>0, <1>8 DEF ReadFails, TypeOK
  <2>2. ASSUME NEW c \in Clients PROVE CInv(c)'
    BY <1>0, <1>8, Untouched DEF ReadFails, TypeOK
  <2> QED
    BY <2>1, <2>2 DEF IInv
<1>9. ASSUME NEW e \in Clients, Forget(e) PROVE IInv'
  <2>1. TypeOK'
    BY <1>0, <1>9 DEF Forget, TypeOK
  <2>2. ASSUME NEW c \in Clients PROVE CInv(c)'
    BY <1>0, <1>9, Untouched DEF Forget, TypeOK
  <2> QED
    BY <2>1, <2>2 DEF IInv
<1>10. ASSUME NEW e \in Clients, ClientCloses(e) PROVE IInv'
  <2>1. TypeOK'
    BY <1>0, <1>10 DEF ClientCloses, TypeOK
  <2>2. ASSUME NEW c \in Clients PROVE CInv(c)'
    BY <1>0, <1>10, Untouched DEF ClientCloses, TypeOK
  <2> QED
    BY <2>1, <2>2 DEF IInv
<1>11. ASSUME NEW e \in Clients, CloseOne(e) PROVE IInv'
  <2>1. TypeOK'
    BY <1>0, <1>11 DEF CloseOne, TypeOK
  <2>2. ASSUME NEW c \in Clients PROVE CInv(c)'
    BY <1>0, <1>11, Untouched DEF CloseOne, TypeOK
  <2> QED
    BY <2>1, <2>2 DEF IInv
<1>12. ASSUME CloseAll PROVE IInv'
  <2>1. TypeOK'
    BY <1>0, <1>12 DEF CloseAll, TypeOK
  <2>2. ASSUME NEW c \in Clients PROVE CInv(c)'
    BY <1>0, <1>12, Untouched DEF CloseAll, TypeOK
  <2> QED
    BY <2>1, <2>2 DEF IInv
<1>13. ASSUME Exit PROVE IInv'
  <2>1. TypeOK'
    BY <1>0, <1>13 DEF Exit, TypeOK
  <2>2. ASSUME NEW c \in Clients PROVE CInv(c)'
    BY <1>0, <1>13, Untouched DEF Exit, TypeOK
  <2> QED
    BY <2>1, <2>2 DEF IInv
<1>14. ASSUME UNCHANGED vars PROVE IInv'
  <2>1. TypeOK'
    BY <1>0, <1>14 DEF vars, TypeOK
  <2>2. ASSUME NEW c \in Clients PROVE CInv(c)'
    BY <1>0, <1>14, Untouched DEF vars, TypeOK
  <2> QED
    BY <2>1, <2>2 DEF IInv
<1> QED
  BY <1>1, <1>2, <1>3, <1>4, <1>5, <1>6, <1>7, <1>8, <1>9, <1>10, <1>11, <1>12, <1>13, <1>14
     DEF Next, WritePump, ReadPump
-----------------------------------------------------------------------------
\* The inductive invariant.
THEOREM Hub_Invariance == Spec => []IInv
BY InitInvariant, StepInvariant, PTL DEF Spec

\* Types; a subscriber's channel never holds more than its capacity (manager.go:174).
THEOREM Hub_Type == Spec => []TypeOK
<1>1. IInv => TypeOK
  BY DEF IInv
<1> QED
  BY <1>1, Hub_Invariance, PTL

\* A subscriber that no broadcast found full has every tick since it was registered
\* written, in hand or waiting, in order (manager.go:164).
THEOREM Hub_NothingLostButOverflow == Spec => []NothingLostButOverflow
<1>1. IInv => NothingLostButOverflow
  BY DEF IInv, CInv, Complete, NothingLostButOverflow, TypeOK
<1> QED
  BY <1>1, Hub_Invariance, PTL

\* Whatever is dropped, what a subscriber gets comes in order and once.
THEOREM Hub_InOrder == Spec => []InOrder
<1>1. IInv => InOrder
  BY DEF IInv, CInv, InPipe, Sorted, InOrder
<1> QED
  BY <1>1, Hub_Invariance, PTL

\* No registered subscriber is without a reader (manager.go:212).
THEOREM Hub_EntryHasReader == Spec => []EntryHasReader
<1>1. IInv => EntryHasReader
  BY DEF IInv, CInv, Read, EntryHasReader, TypeOK
<1> QED
  BY <1>1, Hub_Invariance, PTL
-----------------------------------------------------------------------------
(***************************************************************************)
(* Hub implements Feed.                                                    *)
(***************************************************************************)
ShownTo(c) == IF sent[c] = <<>> THEN since[c] ELSE Last(sent[c])
StateOf(c) == IF rd[c] \in {"none", "accepted"} THEN "new"
              ELSE IF conn[c] = "open" THEN "on" ELSE "off"

\* The abstract variables, in terms of each connection.
LEMMA Mapping ==
    /\ F!vars = <<ticks, [c \in Clients |-> ShownTo(c)], [c \in Clients |-> StateOf(c)]>>
    /\ F!vars' = <<ticks', [c \in Clients |-> ShownTo(c)'], [c \in Clients |-> StateOf(c)']>>
BY DEF F!vars, ShownTo, StateOf

\* What writePump has in hand is newer than all that it has written.
LEMMA HandIsNewer ==
    ASSUME IInv, NEW c \in Clients, wr[c] = "write"
    PROVE  writing[c] \in (ShownTo(c) + 1)..ticks
<1>1. TypeOK /\ CInv(c)
  BY DEF IInv
<1>2. /\ writing[c] /= 0 /\ writing[c] \in Nat /\ ticks \in Nat /\ since[c] \in Nat
      /\ sent[c] \in Seq(Int) /\ send[c] \in Seq(Int)
  BY <1>1, PartsTyped, MaxTicksAssumption DEF CInv, Hand
<1> DEFINE hand == <<writing[c]>>  p == sent[c] \o hand \o send[c]  n == Len(sent[c])
<1>3. Pipeline(c) = p
  <2>1. InHand(c) = hand
    BY <1>2 DEF InHand
  <2> QED
    BY <2>1, PipelineOfHand
<1>4. hand \in Seq(Int) /\ Len(hand) = 1 /\ hand[1] = writing[c]
  BY <1>2
<1>5. n \in Nat /\ Len(send[c]) \in Nat
  BY <1>2, LenProperties
<1>6. Joined(p, sent[c], hand, send[c])
  BY <1>2, <1>4, Elements
<1>7. Sorted(p) /\ Within(p, since[c], ticks)
  BY <1>1, <1>3 DEF CInv, InPipe
<1>8. hand[1] > since[c] /\ hand[1] <= ticks /\ (n > 0 => sent[c][n] < hand[1])
  <2> HIDE DEF p, hand
  <2> QED
    BY <1>2, <1>4, <1>6, <1>7, MiddleIsNewer
<1> HIDE DEF p, hand
<1>9. writing[c] > since[c] /\ writing[c] <= ticks /\ (n > 0 => sent[c][n] < writing[c])
  BY <1>4, <1>8
<1>10. CASE sent[c] = <<>>
  BY <1>2, <1>9, <1>10 DEF ShownTo
<1>11. CASE sent[c] /= <<>>
  <2>1. n > 0 /\ n \in 1..Len(sent[c])
    BY <1>2, <1>11, EmptySeq
  <2>2. ShownTo(c) = sent[c][n] /\ sent[c][n] \in Int
    BY <1>2, <1>11, <2>1, ElementOfSeq DEF ShownTo, Last
  <2> QED
    BY <1>2, <1>9, <2>1, <2>2
<1> QED
  BY <1>10, <1>11

LEMMA InitMaps == Init => F!Init
<1> SUFFICES ASSUME Init PROVE F!Init
  OBVIOUS
<1>1. \A c \in Clients : ShownTo(c) = 0 /\ StateOf(c) = "new"
  BY DEF Init, ShownTo, StateOf
<1> QED
  BY <1>1 DEF Init, F!Init, ShownTo, StateOf

\* A step that no subscriber and no browser can tell from none.
LEMMA Stutters ==
    ASSUME ticks' = ticks, \A c \in Clients : ShownTo(c)' = ShownTo(c) /\ StateOf(c)' = StateOf(c)
    PROVE  UNCHANGED F!vars
BY Mapping

\* The end of a connection: of one on which ticks are shown, a Leave.
LEMMA Ends ==
    ASSUME TypeOK, NEW e \in Clients, UNCHANGED <<ticks, sent, since, rd>>,
           conn' = [conn EXCEPT ![e] = "closed"]
    PROVE  [F!Next]_(F!vars)
<1>1. \A c \in Clients : ShownTo(c)' = ShownTo(c)
  BY DEF ShownTo
<1>2. \A c \in Clients : conn'[c] = IF c = e THEN "closed" ELSE conn[c]
  BY DEF TypeOK
<1>3. \A c \in Clients : c /= e => StateOf(c)' = StateOf(c)
  BY <1>2 DEF StateOf
<1>4. CASE StateOf(e) /= "on"
  <2>1. StateOf(e)' = StateOf(e)
    BY <1>2, <1>4 DEF StateOf
  <2> QED
    BY <1>1, <1>3, <2>1, Stutters
<1>5. CASE StateOf(e) = "on"
  <2>1. StateOf(e)' = "off"
    BY <1>2, <1>5 DEF StateOf
  <2> DEFINE st == [c \in Clients |-> StateOf(c)]
  <2>2. [c \in Clients |-> StateOf(c)'] = [st EXCEPT ![e] = "off"] /\ st[e] = "on"
    BY <1>3, <1>5, <2>1
  <2>3. [c \in Clients |-> ShownTo(c)'] = [c \in Clients |-> ShownTo(c)]
    BY <1>1
  <2>4. F!Leave(e)
    BY <2>2, <2>3 DEF F!Leave, ShownTo, StateOf
  <2> QED
    BY <2>4 DEF F!Next
<1> QED
  BY <1>4, <1>5

\* Each step of the hub is a step of the feed, or none.
LEMMA StepMaps == IInv /\ IInv' /\ [Next]_vars => [F!Next]_(F!vars)
<1> SUFFICES ASSUME IInv, IInv', [Next]_vars PROVE [F!Next]_(F!vars)
  OBVIOUS
<1>0. TypeOK /\ \A c \in Clients : CInv(c)
  BY DEF IInv
<1>1. ASSUME Broadcast PROVE [F!Next]_(F!vars)
  <2>1. \A c \in Clients : ShownTo(c)' = ShownTo(c) /\ StateOf(c)' = StateOf(c)
    BY <1>1 DEF Broadcast, ShownTo, StateOf
  <2>2. F!Publish
    BY <1>1, <2>1 DEF Broadcast, F!Publish, ShownTo, StateOf
  <2> QED
    BY <2>2 DEF F!Next
<1>2. ASSUME NEW e \in Clients, Accept(e) PROVE [F!Next]_(F!vars)
  <2>1. rd[e] = "none" /\ \A c \in Clients : rd'[c] = IF c = e THEN "accepted" ELSE rd[c]
    BY <1>0, <1>2 DEF Accept, TypeOK
  <2>2. \A c \in Clients : c /= e => conn'[c] = conn[c]
    BY <1>0, <1>2 DEF Accept, TypeOK
  <2>3. \A c \in Clients : ShownTo(c)' = ShownTo(c) /\ StateOf(c)' = StateOf(c)
    BY <1>2, <2>1, <2>2 DEF Accept, ShownTo, StateOf
  <2> QED
    BY <1>2, <2>3, Stutters DEF Accept
<1>3. ASSUME NEW e \in Clients, Register(e) PROVE [F!Next]_(F!vars)
  <2>1. /\ rd[e] = "accepted" /\ \A c \in Clients : rd'[c] = IF c = e THEN "read" ELSE rd[c]
        /\ \A c \in Clients : since'[c] = IF c = e THEN ticks ELSE since[c]
        /\ sent' = sent /\ conn' = conn /\ ticks' = ticks /\ sent[e] = <<>>
    BY <1>0, <1>3 DEF Register, TypeOK, CInv, Fresh
  <2>2. \A c \in Clients : c /= e => ShownTo(c)' = ShownTo(c) /\ StateOf(c)' = StateOf(c)
    BY <2>1 DEF ShownTo, StateOf
  <2>3. StateOf(e) = "new" /\ StateOf(e)' \in {"on", "off"} /\ ShownTo(e)' = ticks
    BY <2>1 DEF ShownTo, StateOf
  <2> DEFINE st == [c \in Clients |-> StateOf(c)]  sh == [c \in Clients |-> ShownTo(c)]
  <2>4. \E x \in {"on", "off"} : [c \in Clients |-> StateOf(c)'] = [st EXCEPT ![e] = x]
    <3>1. [c \in Clients |-> StateOf(c)'] = [st EXCEPT ![e] = StateOf(e)']
      BY <2>2
    <3> QED
      BY <2>3, <3>1
  <2>5. [c \in Clients |-> ShownTo(c)'] = [sh EXCEPT ![e] = ticks]
    BY <2>2, <2>3
  <2>6. st[e] = "new"
    BY <2>3
  <2>7. F!Join(e)
    BY <2>1, <2>4, <2>5, <2>6 DEF F!Join, ShownTo, StateOf
  <2> QED
    BY <2>7 DEF F!Next
<1>4. ASSUME NEW e \in Clients, Write(e) PROVE [F!Next]_(F!vars)
  <2>1. /\ wr[e] = "write" /\ conn[e] = "open" /\ conn' = conn /\ rd' = rd /\ since' = since
        /\ ticks' = ticks /\ sent'[e] = Append(sent[e], writing[e])
        /\ \A c \in Clients : c /= e => sent'[c] = sent[c]
    BY <1>0, <1>4 DEF Write, TypeOK
  <2>2. rd[e] \notin {"none", "accepted"}
    BY <1>0, <2>1 DEF CInv, Fresh
  <2>3. ShownTo(e)' = writing[e]
    <3>1. sent[e] \in Seq(Int) /\ writing[e] \in Int
      BY <1>0, PartsTyped
    <3>2. /\ Append(sent[e], writing[e]) \in Seq(Int) /\ Len(sent[e]) \in Nat
          /\ Len(Append(sent[e], writing[e])) = Len(sent[e]) + 1
          /\ Append(sent[e], writing[e])[Len(sent[e]) + 1] = writing[e]
      BY <3>1, AppendProperties, LenProperties
    <3>3. sent'[e] /= <<>>
      BY <2>1, <3>2, EmptySeq
    <3>4. Last(sent'[e]) = writing[e]
      BY <2>1, <3>2 DEF Last
    <3> QED
      BY <3>3, <3>4 DEF ShownTo
  <2>4. \A c \in Clients : StateOf(c)' = StateOf(c) /\ (c /= e => ShownTo(c)' = ShownTo(c))
    BY <2>1 DEF StateOf, ShownTo
  <2> DEFINE st == [c \in Clients |-> StateOf(c)]  sh == [c \in Clients |-> ShownTo(c)]
  <2>5. st[e] = "on" /\ sh[e] = ShownTo(e)
    BY <2>1, <2>2 DEF StateOf
  <2>6. [c \in Clients |-> ShownTo(c)'] = [sh EXCEPT ![e] = writing[e]]
    BY <2>3, <2>4
  <2>7. [c \in Clients |-> StateOf(c)'] = st
    BY <2>4
  <2>8. writing[e] \in (sh[e] + 1)..ticks
    BY <2>1, <2>5, HandIsNewer
  <2>9. \E m \in (sh[e] + 1)..ticks : [c \in Clients |-> ShownTo(c)'] = [sh EXCEPT ![e] = m]
    BY <2>6, <2>8
  <2>10. F!Show(e)
    BY <2>1, <2>5, <2>7, <2>9 DEF F!Show, ShownTo, StateOf
  <2> QED
    BY <2>10 DEF F!Next
<1>5. ASSUME NEW e \in Clients, WriteFails(e) PROVE [F!Next]_(F!vars)
  BY <1>0, <1>5, Ends DEF WriteFails
<1>6. ASSUME NEW e \in Clients, ClientCloses(e) PROVE [F!Next]_(F!vars)
  BY <1>0, <1>6, Ends DEF ClientCloses
<1>7. ASSUME NEW e \in Clients, CloseOne(e) PROVE [F!Next]_(F!vars)
  BY <1>0, <1>7, Ends DEF CloseOne
<1>8. ASSUME UNCHANGED <<ticks, conn, sent, since>>,
             \A c \in Clients : rd'[c] \in {"none", "accepted"} <=> rd[c] \in {"none", "accepted"}
      PROVE  [F!Next]_(F!vars)
  <2>1. \A c \in Clients : ShownTo(c)' = ShownTo(c) /\ StateOf(c)' = StateOf(c)
    BY <1>8 DEF ShownTo, StateOf
  <2> QED
    BY <1>8, <2>1, Stutters
<1>9. ASSUME NEW e \in Clients, ReadFails(e) \/ Forget(e) PROVE [F!Next]_(F!vars)
  <2>1. \A c \in Clients : rd'[c] \in {"none", "accepted"} <=> rd[c] \in {"none", "accepted"}
    BY <1>0, <1>9 DEF ReadFails, Forget, TypeOK
  <2> QED
    BY <1>8, <1>9, <2>1 DEF ReadFails, Forget
<1>10. ASSUME NEW e \in Clients, Take(e) \/ Done(e) PROVE [F!Next]_(F!vars)
  BY <1>8, <1>10 DEF Take, Done
<1>11. ASSUME CloseAll \/ Exit \/ UNCHANGED vars PROVE [F!Next]_(F!vars)
  BY <1>8, <1>11 DEF CloseAll, Exit, vars
<1> QED
  BY <1>1, <1>2, <1>3, <1>4, <1>5, <1>6, <1>7, <1>9, <1>10, <1>11
     DEF Next, WritePump, ReadPump

\* The hub keeps the promise of the lossy feed: ticks in order, none twice, none from
\* before the subscriber joined, none after its connection ended.
THEOREM Hub_ImplementsFeed == Spec => FeedSpec
BY InitMaps, StepMaps, Hub_Invariance, PTL DEF Spec, FeedSpec, F!Spec
=============================================================================
