-------------------------- MODULE SlotDeltaProofs --------------------------
(***************************************************************************)
(* Proofs about SlotDelta, for any period and window, any set of slots and *)
(* any finite set of builders.                                             *)
(***************************************************************************)
EXTENDS SlotDelta, FiniteSetTheorems, WellFoundedInduction, TLAPS

Bucket == [ts : Nat, vals : Nat]
-----------------------------------------------------------------------------
(***************************************************************************)
(* The arithmetic of periods.                                              *)
(***************************************************************************)
LEMMA TruncateFacts ==
    ASSUME NEW t \in Nat
    PROVE  /\ Truncate(t) \in 0..t
           /\ t <= Truncate(t) + BucketSec - 1
           /\ Truncate(t) % BucketSec = 0
<1>1. t % BucketSec \in 0..(BucketSec - 1) /\ t = BucketSec * (t \div BucketSec) + (t % BucketSec)
  BY BucketAssumption
<1>2. t \div BucketSec \in Nat
  BY BucketAssumption
<1>3. Truncate(t) = BucketSec * (t \div BucketSec)
  BY <1>1, <1>2, BucketAssumption DEF Truncate
<1>4. (BucketSec * (t \div BucketSec)) % BucketSec = 0
  BY <1>2, BucketAssumption
<1>5. BucketSec * (t \div BucketSec) \in Nat
  BY <1>2, BucketAssumption
<1> QED
  BY <1>1, <1>3, <1>4, <1>5, BucketAssumption

LEMMA TruncateMonotone ==
    ASSUME NEW t \in Nat, NEW u \in Nat, t <= u
    PROVE  Truncate(t) <= Truncate(u)
<1>1. t \div BucketSec <= u \div BucketSec /\ t \div BucketSec \in Nat /\ u \div BucketSec \in Nat
  BY BucketAssumption
<1>2. /\ t = BucketSec * (t \div BucketSec) + (t % BucketSec)
      /\ u = BucketSec * (u \div BucketSec) + (u % BucketSec)
  BY BucketAssumption
<1>3. Truncate(t) = BucketSec * (t \div BucketSec) /\ Truncate(u) = BucketSec * (u \div BucketSec)
  BY <1>1, <1>2, BucketAssumption DEF Truncate
<1> QED
  BY <1>1, <1>3, BucketAssumption

\* A new bucket is never too old to stay: it starts at most a period, and so at
\* most a window, before the push.
LEMMA TruncatedIsYoung ==
    ASSUME NEW t \in Nat
    PROVE  Truncate(t) \in Nat /\ Truncate(t) + WindowSec >= t
<1>1. Truncate(t) \in 0..t /\ t <= Truncate(t) + BucketSec - 1
  BY TruncateFacts
<1> HIDE DEF Truncate
<1> QED
  BY <1>1, BucketAssumption, WindowAssumption

LEMMA LeastNatural ==
    ASSUME NEW S, S \subseteq Nat, S /= {}
    PROVE  \E m \in S : \A k \in S : m <= k
<1>1. \E m \in S : \A k \in S : ~ (<<k, m>> \in OpToRel(<, Nat))
  BY NatLessThanWellFounded, WFMin
<1>2. PICK m \in S : \A k \in S : ~ (<<k, m>> \in OpToRel(<, Nat))
  BY <1>1
<1>3. \A k \in S : <<k, m>>[1] < <<k, m>>[2] <=> k < m
  OBVIOUS
<1>4. \A k \in S : <<k, m>> \in OpToRel(<, Nat) <=> k < m
  BY <1>3 DEF OpToRel
<1>5. \A k \in S : ~ (k < m)
  BY <1>2, <1>4
<1>6. \A k \in S : m <= k
  BY <1>5
<1> QED
  BY <1>6
-----------------------------------------------------------------------------
(***************************************************************************)
(* The ring.                                                               *)
(***************************************************************************)

LEMMA BucketAt ==
    ASSUME NEW s \in Seq(Bucket), NEW k \in 1..Len(s)
    PROVE  s[k] \in Bucket /\ s[k].ts \in Nat /\ s[k].vals \in Nat
<1>1. s[k] \in Bucket
  OBVIOUS
<1> QED
  BY <1>1 DEF Bucket

\* f is the first bucket of s that a push at time t keeps.
FirstKept(s, t, f) ==
    /\ f \in 1..(Len(s) + 1)
    /\ \A j \in 1..(f - 1) : s[j].ts + WindowSec < t
    /\ f <= Len(s) => s[f].ts + WindowSec >= t

LEMMA SomeKept ==
    ASSUME NEW s \in Seq(Bucket), NEW t \in Nat
    PROVE  \E f \in 1..(Len(s) + 1) : FirstKept(s, t, f)
<1> DEFINE Young == {k \in 1..Len(s) : s[k].ts + WindowSec >= t}
<1>s. \A k \in 1..Len(s) : s[k].ts \in Nat
  BY BucketAt
<1>t. \A k \in 1..Len(s) : s[k].ts + WindowSec \in Nat
  BY <1>s, WindowAssumption
<1>1. CASE Young = {}
  <2>1. \A j \in 1..Len(s) : s[j].ts + WindowSec < t
    BY <1>1, <1>t
  <2>2. FirstKept(s, t, Len(s) + 1)
    BY <2>1 DEF FirstKept
  <2> QED
    BY <2>2
<1>2. CASE Young /= {}
  <2>1. PICK m \in Young : \A k \in Young : m <= k
    <3>1. Young \subseteq Nat
      OBVIOUS
    <3> HIDE DEF Young
    <3> QED
      BY <1>2, <3>1, LeastNatural
  <2>2. FirstKept(s, t, m)
    BY <2>1, <1>t DEF FirstKept
  <2> QED
    BY <2>1, <2>2
<1> QED
  BY <1>1, <1>2

LEMMA EvictKeeps ==
    ASSUME NEW s \in Seq(Bucket), NEW t \in Nat
    PROVE  \E f \in 1..(Len(s) + 1) : FirstKept(s, t, f) /\ Evict(s, t) = SubSeq(s, f, Len(s))
<1> DEFINE first == CHOOSE k \in 1..(Len(s) + 1) : FirstKept(s, t, k)
<1>1. first \in 1..(Len(s) + 1) /\ FirstKept(s, t, first)
  BY SomeKept
<1>2. first = CHOOSE k \in 1..(Len(s) + 1) :
                 /\ \A j \in 1..(k - 1) : s[j].ts + WindowSec < t
                 /\ k <= Len(s) => s[k].ts + WindowSec >= t
  BY Zenon DEF FirstKept
<1>3. Evict(s, t) = SubSeq(s, first, Len(s))
  BY <1>2, Zenon DEF Evict
<1> HIDE DEF first
<1> QED
  BY <1>1, <1>3

\* What is left of s with a bucket n at its end, from bucket f on.
Kept(s, n, f, e) ==
    /\ e \in Seq(Bucket) /\ Len(e) = Len(s) + 2 - f
    /\ \A k \in 1..Len(e) : e[k] = IF k + f - 1 <= Len(s) THEN s[k + f - 1] ELSE n

\* A push that adds a bucket drops some of the others at the front.
LEMMA ExtendKeeps ==
    ASSUME NEW s \in Seq(Bucket), NEW t \in Nat, NEW v \in Nat
    PROVE  \E f \in 1..(Len(s) + 1) :
              /\ FirstKept(s, t, f)
              /\ Kept(s, [ts |-> Truncate(t), vals |-> v], f, Extend(s, t, v))
<1> DEFINE n == [ts |-> Truncate(t), vals |-> v]
           a == Append(s, n)
<1>1. Truncate(t) \in Nat /\ Truncate(t) + WindowSec >= t
  BY TruncatedIsYoung
<1>2. n \in Bucket /\ n.ts = Truncate(t)
  BY <1>1 DEF Bucket
<1>3. Extend(s, t, v) = Evict(a, t)
  BY DEF Extend
<1> HIDE DEF n
<1>4. /\ a \in Seq(Bucket) /\ Len(a) = Len(s) + 1
      /\ \A k \in 1..Len(a) : a[k] = IF k <= Len(s) THEN s[k] ELSE n
  BY <1>2
<1> HIDE DEF a
<1>5. PICK f \in 1..(Len(a) + 1) : FirstKept(a, t, f) /\ Evict(a, t) = SubSeq(a, f, Len(a))
  BY <1>4, EvictKeeps
<1>6. f \in 1..(Len(s) + 1)
  <2>1. SUFFICES ASSUME f = Len(s) + 2 PROVE FALSE
    BY <1>4, <1>5
  <2>2. a[Len(s) + 1].ts + WindowSec < t
    BY <1>4, <1>5, <2>1 DEF FirstKept
  <2>3. a[Len(s) + 1] = n
    BY <1>4
  <2> QED
    BY <1>1, <1>2, <2>2, <2>3, WindowAssumption
<1>7. FirstKept(s, t, f)
  <2>1. \A j \in 1..(f - 1) : s[j].ts + WindowSec < t
    BY <1>4, <1>5, <1>6 DEF FirstKept
  <2>2. f <= Len(s) => s[f].ts + WindowSec >= t
    BY <1>4, <1>5, <1>6 DEF FirstKept
  <2> QED
    BY <1>6, <2>1, <2>2 DEF FirstKept
<1>8. /\ SubSeq(a, f, Len(a)) \in Seq(Bucket)
      /\ Len(SubSeq(a, f, Len(a))) = Len(a) - f + 1
      /\ \A k \in 1..(Len(a) - f + 1) : SubSeq(a, f, Len(a))[k] = a[k + f - 1]
  BY <1>4, <1>6
<1>9. Kept(s, n, f, SubSeq(a, f, Len(a)))
  BY <1>4, <1>6, <1>8 DEF Kept
<1> QED
  BY <1>3, <1>5, <1>6, <1>7, <1>9 DEF n

\* The front of the ring after a push that adds a bucket, in whatever order the
\* buckets were added.
LEMMA FrontAfterExtend ==
    ASSUME NEW s \in Seq(Bucket), NEW t \in Nat, NEW v \in Nat
    PROVE  LET e == Extend(s, t, v) IN
              /\ e \in Seq(Bucket) /\ Len(e) >= 1
              /\ e[Len(e)] = [ts |-> Truncate(t), vals |-> v]
              /\ e[1].ts + WindowSec >= t
              /\ s /= <<>> => e[1].ts >= s[1].ts
<1> DEFINE n == [ts |-> Truncate(t), vals |-> v]
           e == Extend(s, t, v)
<1>1. PICK f \in 1..(Len(s) + 1) : FirstKept(s, t, f) /\ Kept(s, n, f, e)
  BY ExtendKeeps
<1>2. Truncate(t) \in Nat /\ Truncate(t) + WindowSec >= t
  BY TruncatedIsYoung
<1>3. n.ts = Truncate(t)
  OBVIOUS
<1> HIDE DEF n, e
<1>4. e \in Seq(Bucket) /\ Len(e) = Len(s) + 2 - f
  BY <1>1 DEF Kept
<1>5. e[Len(e)] = n
  BY <1>1, <1>4 DEF Kept
<1>6. e[1] = IF f <= Len(s) THEN s[f] ELSE n
  BY <1>1, <1>4 DEF Kept
<1>7. \A k \in 1..Len(s) : s[k].ts \in Nat
  BY BucketAt
<1>8. e[1].ts \in Nat /\ e[1].ts + WindowSec >= t
  BY <1>1, <1>2, <1>3, <1>6, <1>7 DEF FirstKept
<1>9. s /= <<>> => e[1].ts >= s[1].ts
  <2>1. SUFFICES ASSUME s /= <<>> PROVE e[1].ts >= s[1].ts
    OBVIOUS
  <2>2. Len(s) >= 1
    BY <2>1
  <2>3. CASE f = 1
    BY <1>6, <1>7, <2>2, <2>3
  <2>4. CASE f > 1
    <3>1. s[1].ts + WindowSec < t
      BY <1>1, <2>4 DEF FirstKept
    <3> QED
      BY <1>7, <1>8, <2>2, <3>1, WindowAssumption
  <2> QED
    BY <2>3, <2>4
<1> QED
  BY <1>4, <1>5, <1>8, <1>9 DEF n, e
-----------------------------------------------------------------------------
(***************************************************************************)
(* The maps.                                                               *)
(***************************************************************************)
Count == [n : 0..MaxCount, life : 0..MaxResets]

LEMMA CountsAre ==
    ASSUME NEW c \in Counts
    PROVE  /\ c = [s \in DOMAIN c |-> c[s]] /\ DOMAIN c \subseteq Slots
           /\ \A s \in DOMAIN c : c[s] \in Count
<1>1. PICK S \in SUBSET Slots : c \in [S -> Count]
  BY DEF Counts, Count
<1> QED
  BY <1>1

LEMMA AreCounts ==
    ASSUME NEW S \in SUBSET Slots, NEW c \in [S -> Count]
    PROVE  c \in Counts
BY DEF Counts, Count

LEMMA OverlaidCounts ==
    ASSUME NEW old \in Counts, NEW new \in Counts
    PROVE  /\ Overlaid(old, new) \in Counts
           /\ DOMAIN Overlaid(old, new) = DOMAIN old \cup DOMAIN new
           /\ \A k \in DOMAIN old \cup DOMAIN new :
                 Overlaid(old, new)[k] = IF k \in DOMAIN new THEN new[k] ELSE old[k]
<1>1. /\ DOMAIN old \subseteq Slots /\ \A s \in DOMAIN old : old[s] \in Count
      /\ DOMAIN new \subseteq Slots /\ \A s \in DOMAIN new : new[s] \in Count
  BY CountsAre
<1>2. Overlaid(old, new) \in [DOMAIN old \cup DOMAIN new -> Count]
  BY <1>1 DEF Overlaid
<1>3. Overlaid(old, new) \in Counts
  BY <1>1, <1>2, AreCounts
<1> QED
  BY <1>3 DEF Overlaid

TypedPg ==
    /\ clock \in 0..MaxTime
    /\ counters \in Counts
    /\ resets \in [Slots -> 0..MaxResets]

TypedRing ==
    /\ buckets \in Seq(Bucket)
    /\ DOMAIN maps \subseteq Nat \ {0} /\ \A m \in DOMAIN maps : maps[m] \in Counts
    /\ \A k \in 1..Len(buckets) :
          /\ buckets[k].ts <= clock /\ buckets[k].ts % BucketSec = 0
          /\ buckets[k].vals \in DOMAIN maps

TypedBuilds ==
    /\ pc \in [Builders -> {"idle", "stamp", "push", "oldest", "diff", "done"}]
    /\ read \in [Builders -> Counts]
    /\ now \in [Builders -> 0..MaxTime] /\ \A b \in Builders : now[b] <= clock
    /\ base \in [Builders -> Bucket]
    /\ \A b \in Builders : /\ base[b].ts <= clock
                           /\ pc[b] = "diff" => base[b].vals \in DOMAIN maps
                           /\ pc[b] = "oldest" => buckets /= <<>>
    /\ DOMAIN stat = Builders
    /\ raced \subseteq Builders

Typed == TypedPg /\ TypedRing /\ TypedBuilds

LEMMA TypedMeansTypeOK == Typed => TypeOK
<1> SUFFICES ASSUME Typed PROVE TypeOK
  OBVIOUS
<1>1. \A k \in 1..Len(buckets) : buckets[k].ts \in Nat
  BY BucketAt DEF Typed, TypedRing
<1>2. \A b \in Builders : base[b].ts \in Nat /\ base[b].vals \in Nat
  BY DEF Typed, TypedBuilds, Bucket
<1>3. \A k \in 1..Len(buckets) :
         /\ buckets[k].ts \in 0..clock /\ buckets[k].ts % BucketSec = 0
         /\ buckets[k].vals \in DOMAIN maps
  BY <1>1 DEF Typed, TypedRing, TypedPg
<1>4. \A b \in Builders :
         /\ base[b].ts \in 0..clock
         /\ base[b].vals \in DOMAIN maps \/ (pc[b] /= "diff" /\ base[b].vals \in Nat)
  BY <1>2 DEF Typed, TypedBuilds, TypedPg
<1> QED
  BY <1>3, <1>4 DEF Typed, TypedPg, TypedRing, TypedBuilds, TypeOK

\* There is always a name that is not in use.
LEMMA FreshMapIsFresh ==
    ASSUME TypedRing, TypedBuilds
    PROVE  FreshMap \in Nat \ {0} /\ FreshMap \notin MapsInUse
<1> DEFINE InBuckets == {buckets[k].vals : k \in 1..Len(buckets)}
           InBases   == {base[b].vals : b \in Builders}
<1>1. IsFiniteSet(InBuckets)
  <2>1. [k \in 1..Len(buckets) |-> buckets[k].vals] \in Surjection(1..Len(buckets), InBuckets)
    BY DEF Surjection
  <2>2. Len(buckets) \in Nat
    BY DEF TypedRing
  <2>3. IsFiniteSet(1..Len(buckets))
    BY <2>2, FS_Interval
  <2> QED
    BY <2>1, <2>3, FS_Surjection
<1>2. IsFiniteSet(InBases)
  <2>1. [b \in Builders |-> base[b].vals] \in Surjection(Builders, InBases)
    BY DEF Surjection
  <2> QED
    BY <2>1, BuildersAssumption, FS_Surjection
<1>3. IsFiniteSet(MapsInUse)
  BY <1>1, <1>2, FS_Union DEF MapsInUse
<1> DEFINE c == Cardinality(MapsInUse)
<1>4. c \in Nat
  BY <1>3, FS_CardinalityType
<1>5. Cardinality(1..(c + 1)) = c + 1
  <2> HIDE DEF c
  <2>1. c + 1 \in Int /\ 1 \in Int /\ ~(1 > c + 1) /\ (c + 1) - 1 + 1 = c + 1
    BY <1>4
  <2> QED
    BY <2>1, FS_Interval
<1>6. ~ (1..(c + 1) \subseteq MapsInUse)
  <2>1. 1..(c + 1) \subseteq MapsInUse => Cardinality(1..(c + 1)) <= c
    BY <1>3, FS_Subset
  <2> HIDE DEF c
  <2> QED
    BY <1>4, <1>5, <2>1
<1>7. \E m \in 1..(c + 1) : m \notin MapsInUse
  BY <1>6
<1>8. FreshMap \in 1..(c + 1) /\ FreshMap \notin MapsInUse
  BY <1>7 DEF FreshMap
<1> HIDE DEF c
<1> QED
  BY <1>4, <1>8

LEMMA MapsWithNew ==
    ASSUME TypedRing, TypedBuilds, NEW vals \in Counts
    PROVE  LET new == MapsWith(vals) IN
              /\ DOMAIN new = (MapsInUse \cap DOMAIN maps) \cup {FreshMap}
              /\ new[FreshMap] = vals
              /\ \A m \in MapsInUse \cap DOMAIN maps : new[m] = maps[m] /\ m /= FreshMap
              /\ DOMAIN new \subseteq Nat \ {0} /\ \A m \in DOMAIN new : new[m] \in Counts
<1>1. FreshMap \in Nat \ {0} /\ FreshMap \notin MapsInUse
  BY FreshMapIsFresh
<1>2. DOMAIN maps \subseteq Nat \ {0} /\ \A m \in DOMAIN maps : maps[m] \in Counts
  BY DEF TypedRing
<1> QED
  BY <1>1, <1>2 DEF MapsWith
-----------------------------------------------------------------------------
(***************************************************************************)
(* Type correctness.                                                       *)
(***************************************************************************)
LEMMA InitTyped == Init => Typed
<1> SUFFICES ASSUME Init PROVE Typed
  OBVIOUS
<1>1. Nothing \in Counts
  <2>1. Nothing \in [{} -> Count]
    BY DEF Nothing
  <2> QED
    BY <2>1, AreCounts
<1>2. PICK present \in SUBSET Slots : counters = [s \in present |-> [n |-> 1, life |-> 0]]
  BY DEF Init
<1>3. counters \in [present -> Count]
  BY <1>2, BoundAssumption DEF Count
<1>4. counters \in Counts
  BY <1>3, AreCounts
<1>5. TypedPg
  BY <1>4, BoundAssumption DEF Init, TypedPg
<1>6. TypedRing
  BY DEF Init, TypedRing, Nothing
<1>7. NoBase \in Bucket /\ NoBase.ts = 0
  BY DEF NoBase, Bucket
<1>8. TypedBuilds
  BY <1>1, <1>7, BoundAssumption DEF Init, TypedBuilds
<1> QED
  BY <1>5, <1>6, <1>8 DEF Typed

LEMMA TickTyped == Typed /\ Tick => Typed'
<1> SUFFICES ASSUME Typed, Tick PROVE Typed'
  OBVIOUS
<1>1. /\ clock \in 0..MaxTime /\ clock' = clock + 1 /\ clock' \in 0..MaxTime
      /\ UNCHANGED <<counters, resets, buckets, maps, raced, pc, read, now, base, stat>>
  BY BoundAssumption DEF Typed, TypedPg, Tick, pg, ring, locals
<1>2. TypedPg'
  BY <1>1 DEF Typed, TypedPg
<1>3. TypedRing'
  <2>1. \A k \in 1..Len(buckets) : buckets[k].ts \in Nat
    BY BucketAt DEF Typed, TypedRing
  <2> QED
    BY <1>1, <2>1 DEF Typed, TypedRing
<1>4. TypedBuilds'
  <2>1. \A b \in Builders : base[b].ts \in Nat /\ now[b] \in Nat
    BY DEF Typed, TypedBuilds, Bucket
  <2>2. \A b \in Builders : base[b].ts <= clock' /\ now[b] <= clock'
    BY <1>1, <2>1 DEF Typed, TypedBuilds
  <2> QED
    BY <1>1, <2>2 DEF Typed, TypedBuilds
<1> QED
  BY <1>2, <1>3, <1>4 DEF Typed

LEMMA PostgresTyped ==
    ASSUME Typed, NEW s \in Slots, CounterGrows(s) \/ CounterStarts(s) \/ SlotDropped(s)
    PROVE  Typed'
<1>1. /\ DOMAIN counters \subseteq Slots /\ \A t \in DOMAIN counters : counters[t] \in Count
      /\ counters = [t \in DOMAIN counters |-> counters[t]]
  BY CountsAre DEF Typed, TypedPg
<1>2. UNCHANGED <<clock, buckets, maps, raced, pc, read, now, base, stat>>
  BY DEF CounterGrows, CounterStarts, SlotDropped, ring, locals
<1>3. counters' \in Counts /\ resets' \in [Slots -> 0..MaxResets]
  <2>1. CASE CounterGrows(s)
    <3>1. /\ s \in DOMAIN counters /\ counters[s].n < MaxCount
          /\ counters' = [counters EXCEPT ![s].n = @ + 1]
      BY <2>1 DEF CounterGrows
    <3>2. counters[s] \in Count /\ [counters[s] EXCEPT !.n = @ + 1] \in Count
      BY <1>1, <3>1, BoundAssumption DEF Count
    <3>3. counters' \in [DOMAIN counters -> Count]
      BY <1>1, <3>1, <3>2
    <3>4. counters' \in Counts
      BY <1>1, <3>3, AreCounts
    <3> QED
      BY <2>1, <3>4 DEF CounterGrows, Typed, TypedPg
  <2>2. CASE CounterStarts(s)
    <3>1. resets[s] < MaxResets /\ resets[s] \in 0..MaxResets /\ resets[s] + 1 \in 0..MaxResets
      BY <2>2, BoundAssumption DEF CounterStarts, Typed, TypedPg
    <3>2. [n |-> 0, life |-> resets[s] + 1] \in Count
      BY <3>1, BoundAssumption DEF Count
    <3>3. counters' \in [DOMAIN counters \cup {s} -> Count]
      BY <1>1, <2>2, <3>2 DEF CounterStarts
    <3>4. counters' \in Counts
      BY <1>1, <3>3, AreCounts
    <3>5. resets' \in [Slots -> 0..MaxResets]
      BY <2>2, <3>1 DEF CounterStarts, Typed, TypedPg
    <3> QED
      BY <3>4, <3>5
  <2>3. CASE SlotDropped(s)
    <3>1. counters' \in [DOMAIN counters \ {s} -> Count]
      BY <1>1, <2>3 DEF SlotDropped
    <3>2. counters' \in Counts
      BY <1>1, <3>1, AreCounts
    <3> QED
      BY <2>3, <3>2 DEF SlotDropped, Typed, TypedPg
  <2> QED
    BY <2>1, <2>2, <2>3
<1>4. TypedPg'
  BY <1>2, <1>3 DEF Typed, TypedPg
<1>5. TypedRing' /\ TypedBuilds'
  BY <1>2 DEF Typed, TypedRing, TypedBuilds
<1> QED
  BY <1>4, <1>5 DEF Typed

\* A step of a build other than the push leaves PostgreSQL, the clock and the ring.
LEMMA LocalTyped ==
    ASSUME Typed, NEW b \in Builders, UNCHANGED <<clock, pg, buckets, maps>>, TypedBuilds'
    PROVE  Typed'
<1>1. UNCHANGED <<clock, counters, resets, buckets, maps>>
  BY DEF pg
<1>2. TypedPg' /\ TypedRing'
  BY <1>1 DEF Typed, TypedPg, TypedRing
<1> QED
  BY <1>2 DEF Typed

LEMMA PushTyped ==
    ASSUME Typed, NEW b \in Builders, Push(b)
    PROVE  Typed'
<1>1. TypedPg /\ TypedRing /\ TypedBuilds
  BY DEF Typed
<1>2. UNCHANGED <<clock, counters, resets, read, now, base, stat>> /\ pc[b] = "push"
  BY DEF Push, pg, locals
<1>3. now[b] \in Nat /\ now[b] <= clock /\ read[b] \in Counts /\ clock \in Nat
  BY <1>1 DEF TypedBuilds, TypedPg
<1>4. TypedPg'
  BY <1>1, <1>2 DEF TypedPg
<1>5. \A k \in 1..Len(buckets) : buckets[k].ts \in Nat
  BY <1>1, BucketAt DEF TypedRing
<1>6. TypedRing' /\ buckets' /= <<>> /\ MapsInUse \cap DOMAIN maps \subseteq DOMAIN maps'
  <2>1. CASE Merges(buckets, now[b])
    <3>1. buckets' = buckets /\ buckets /= <<>>
          /\ maps' = [maps EXCEPT ![buckets[Len(buckets)].vals] = Overlaid(@, read[b])]
      BY <2>1 DEF Push, Merges
    <3>2. Len(buckets) \in 1..Len(buckets)
      BY <1>1, <3>1 DEF TypedRing
    <3>3. buckets[Len(buckets)].vals \in DOMAIN maps
      BY <1>1, <3>2 DEF TypedRing
    <3>4. Overlaid(maps[buckets[Len(buckets)].vals], read[b]) \in Counts
      BY <1>1, <1>3, <3>3, OverlaidCounts DEF TypedRing
    <3>5. DOMAIN maps' = DOMAIN maps /\ \A m \in DOMAIN maps' : maps'[m] \in Counts
      BY <1>1, <3>1, <3>3, <3>4 DEF TypedRing
    <3> QED
      BY <1>1, <1>2, <3>1, <3>5 DEF TypedRing
  <2>2. CASE ~ Merges(buckets, now[b])
    <3> DEFINE new == [ts |-> Truncate(now[b]), vals |-> FreshMap]
    <3>1. maps' = MapsWith(read[b]) /\ buckets' = Extend(buckets, now[b], FreshMap)
      BY <2>2 DEF Push
    <3>2. /\ DOMAIN maps' = (MapsInUse \cap DOMAIN maps) \cup {FreshMap}
          /\ DOMAIN maps' \subseteq Nat \ {0} /\ \A m \in DOMAIN maps' : maps'[m] \in Counts
      BY <1>1, <1>3, <3>1, MapsWithNew
    <3>3. FreshMap \in Nat
      BY <1>1, FreshMapIsFresh
    <3>4. buckets \in Seq(Bucket)
      BY <1>1 DEF TypedRing
    <3>5. PICK f \in 1..(Len(buckets) + 1) : Kept(buckets, new, f, buckets')
      BY <1>3, <3>1, <3>3, <3>4, ExtendKeeps
    <3>6. /\ buckets' \in Seq(Bucket) /\ Len(buckets') = Len(buckets) + 2 - f
          /\ \A k \in 1..Len(buckets') :
                buckets'[k] = IF k + f - 1 <= Len(buckets) THEN buckets[k + f - 1] ELSE new
      BY <3>5 DEF Kept
    <3>7. new.ts = Truncate(now[b]) /\ new.vals = FreshMap
      OBVIOUS
    <3>8. Truncate(now[b]) \in 0..now[b] /\ Truncate(now[b]) % BucketSec = 0
      BY <1>3, TruncateFacts
    <3> HIDE DEF new
    <3>9. new.ts <= clock /\ new.ts % BucketSec = 0 /\ new.vals \in DOMAIN maps'
      BY <1>3, <3>2, <3>7, <3>8
    <3>10. \A k \in 1..Len(buckets) : buckets[k].vals \in MapsInUse
      BY DEF MapsInUse
    <3>11. \A k \in 1..Len(buckets) :
              /\ buckets[k].ts <= clock /\ buckets[k].ts % BucketSec = 0
              /\ buckets[k].vals \in DOMAIN maps'
      BY <1>1, <3>2, <3>10 DEF TypedRing
    <3>12. \A k \in 1..Len(buckets') :
              /\ buckets'[k].ts <= clock /\ buckets'[k].ts % BucketSec = 0
              /\ buckets'[k].vals \in DOMAIN maps'
      <4> SUFFICES ASSUME NEW k \in 1..Len(buckets')
                   PROVE  /\ buckets'[k].ts <= clock /\ buckets'[k].ts % BucketSec = 0
                          /\ buckets'[k].vals \in DOMAIN maps'
        OBVIOUS
      <4>1. Len(buckets) \in Nat
        BY <3>4
      <4>2. CASE k + f - 1 <= Len(buckets)
        <5>1. k + f - 1 \in 1..Len(buckets) /\ buckets'[k] = buckets[k + f - 1]
          BY <3>6, <4>1, <4>2
        <5> QED
          BY <3>11, <5>1
      <4>3. CASE ~ (k + f - 1 <= Len(buckets))
        <5>1. buckets'[k] = new
          BY <3>6, <4>3
        <5> QED
          BY <3>9, <5>1
      <4> QED
        BY <4>2, <4>3
    <3>13. buckets' /= <<>>
      BY <3>4, <3>6
    <3> QED
      BY <1>2, <3>2, <3>6, <3>12, <3>13 DEF TypedRing
  <2> QED
    BY <2>1, <2>2
<1>7. pc' \in [Builders -> {"idle", "stamp", "push", "oldest", "diff", "done"}]
      /\ \A e \in Builders : pc'[e] = IF e = b THEN "oldest" ELSE pc[e]
  BY <1>1 DEF Push, Goto, TypedBuilds
<1>8. \A e \in Builders : pc'[e] = "diff" => base'[e].vals \in DOMAIN maps'
  <2>1. \A e \in Builders : base[e].vals \in MapsInUse
    BY DEF MapsInUse
  <2> QED
    BY <1>1, <1>2, <1>6, <1>7, <2>1 DEF TypedBuilds
<1>9. TypedBuilds'
  <2>1. raced' \subseteq Builders
    BY <1>1 DEF Push, Pushed, TypedBuilds
  <2> QED
    BY <1>1, <1>2, <1>6, <1>7, <1>8, <2>1 DEF TypedBuilds
<1> QED
  BY <1>4, <1>6, <1>9 DEF Typed

LEMMA BuildTyped ==
    ASSUME Typed, NEW b \in Builders, Build(b)
    PROVE  Typed'
<1>1. TypedPg /\ TypedRing /\ TypedBuilds
  BY DEF Typed
<1>2. CASE Read(b)
  <2>1. TypedBuilds'
    BY <1>1, <1>2 DEF TypedPg, TypedBuilds, Read, Goto, pg, ring
  <2> QED
    BY <1>2, <2>1, LocalTyped DEF Read, ring
<1>3. CASE Stamp(b)
  <2>1. TypedBuilds'
    BY <1>1, <1>3 DEF TypedPg, TypedBuilds, Stamp, Goto, pg, ring
  <2> QED
    BY <1>3, <2>1, LocalTyped DEF Stamp, ring
<1>4. CASE Push(b)
  BY <1>4, PushTyped
<1>5. CASE Oldest(b)
  <2>1. buckets /= <<>> /\ UNCHANGED <<clock, buckets, maps, raced, read, now, stat>>
    BY <1>1, <1>5 DEF Oldest, TypedBuilds, ring
  <2>2. 1 \in 1..Len(buckets)
    BY <1>1, <2>1 DEF TypedRing
  <2>3. buckets[1] \in Bucket /\ buckets[1].ts <= clock /\ buckets[1].vals \in DOMAIN maps
    BY <1>1, <2>2, BucketAt DEF TypedRing
  <2>4. base' = [base EXCEPT ![b] = buckets[1]] /\ pc' = [pc EXCEPT ![b] = "diff"]
    BY <1>5 DEF Oldest, OldestOf, Goto
  <2>5. TypedBuilds'
    BY <1>1, <2>1, <2>3, <2>4 DEF TypedBuilds
  <2> QED
    BY <1>5, <2>5, LocalTyped DEF Oldest, ring
<1>6. CASE Diff(b)
  <2>1. DOMAIN stat' = DOMAIN stat
    BY <1>6 DEF Diff
  <2>2. UNCHANGED <<clock, buckets, maps, raced, read, now, base>> /\ pc' = [pc EXCEPT ![b] = "done"]
    BY <1>6 DEF Diff, Goto, ring
  <2>3. TypedBuilds'
    BY <1>1, <2>1, <2>2 DEF TypedBuilds
  <2> QED
    BY <1>6, <2>3, LocalTyped DEF Diff, ring
<1>7. CASE Finish(b)
  <2>1. Nothing \in Counts
    <3>1. Nothing \in [{} -> Count]
      BY DEF Nothing
    <3> QED
      BY <3>1, AreCounts
  <2>2. NoBase \in Bucket /\ NoBase.ts = 0 /\ clock \in Nat
    BY <1>1 DEF NoBase, Bucket, TypedPg
  <2>3. TypedBuilds'
    BY <1>1, <1>7, <2>1, <2>2, BoundAssumption DEF TypedBuilds, Finish, Goto, ring
  <2> QED
    BY <1>7, <2>3, LocalTyped DEF Finish
<1> QED
  BY <1>2, <1>3, <1>4, <1>5, <1>6, <1>7 DEF Build

LEMMA NextTyped == Typed /\ [Next]_vars => Typed'
<1> SUFFICES ASSUME Typed, [Next]_vars PROVE Typed'
  OBVIOUS
<1>1. CASE Tick
  BY <1>1, TickTyped
<1>2. CASE \E s \in Slots : CounterGrows(s) \/ CounterStarts(s) \/ SlotDropped(s)
  BY <1>2, PostgresTyped
<1>3. CASE \E b \in Builders : Build(b)
  BY <1>3, BuildTyped
<1>4. CASE UNCHANGED vars
  BY <1>4 DEF vars, pg, ring, locals, Typed, TypedPg, TypedRing, TypedBuilds
<1> QED
  BY <1>1, <1>2, <1>3, <1>4 DEF Next
-----------------------------------------------------------------------------
(***************************************************************************)
(* How far back a difference counts.  The oldest bucket is at most a       *)
(* window behind the newest, whatever the order of the pushes, and the     *)
(* front of the ring only moves to younger buckets: so what a build finds  *)
(* there is near its own push, though others push in between.              *)
(***************************************************************************)
Reach == WindowSec + BucketSec - 1

FrontNear == buckets /= <<>> => buckets[1].ts + WindowSec >= buckets[Len(buckets)].ts

BuildsNear ==
    \A b \in Builders :
        /\ pc[b] = "oldest" => buckets[1].ts + Reach >= now[b]
        /\ pc[b] = "diff" => base[b].ts + Reach >= now[b]

WInv == FrontNear /\ BuildsNear /\ WindowBounded

LEMMA InitNear == Init => WInv
BY DEF Init, WInv, FrontNear, BuildsNear, WindowBounded, Nothing

LEMMA PushNear ==
    ASSUME Typed, WInv, NEW b \in Builders, Push(b)
    PROVE  WInv'
<1>1. TypedPg /\ TypedRing /\ TypedBuilds
  BY DEF Typed
<1>2. UNCHANGED <<now, base, stat>> /\ pc[b] = "push"
  BY DEF Push, locals
<1>3. now[b] \in Nat /\ buckets \in Seq(Bucket)
  BY <1>1 DEF TypedBuilds, TypedRing
<1>4. \A e \in Builders : pc'[e] = IF e = b THEN "oldest" ELSE pc[e]
  BY <1>1 DEF Push, Goto, TypedBuilds
<1>5. /\ buckets' \in Seq(Bucket) /\ Len(buckets') >= 1
      /\ buckets'[1].ts + WindowSec >= buckets'[Len(buckets')].ts
      /\ buckets'[1].ts + Reach >= now[b]
      /\ buckets /= <<>> => buckets'[1].ts >= buckets[1].ts
  <2>1. CASE Merges(buckets, now[b])
    <3>1. buckets' = buckets /\ buckets /= <<>> /\ buckets[Len(buckets)].ts = Truncate(now[b])
      BY <2>1 DEF Push, Merges
    <3>2. Len(buckets) >= 1 /\ 1 \in 1..Len(buckets) /\ Len(buckets) \in 1..Len(buckets)
      BY <1>3, <3>1
    <3>3. buckets[1].ts \in Nat /\ buckets[Len(buckets)].ts \in Nat
      BY <1>3, <3>2, BucketAt
    <3>4. now[b] <= Truncate(now[b]) + BucketSec - 1
      BY <1>3, TruncateFacts
    <3>5. buckets[1].ts + WindowSec >= buckets[Len(buckets)].ts
      BY <3>1 DEF WInv, FrontNear
    <3>6. buckets[1].ts + Reach >= now[b]
      BY <1>3, <3>1, <3>3, <3>4, <3>5, BucketAssumption, WindowAssumption DEF Reach
    <3> QED
      BY <1>3, <3>1, <3>2, <3>3, <3>5, <3>6
  <2>2. CASE ~ Merges(buckets, now[b])
    <3>1. buckets' = Extend(buckets, now[b], FreshMap)
      BY <2>2 DEF Push
    <3>2. FreshMap \in Nat
      BY <1>1, FreshMapIsFresh
    <3>3. /\ buckets' \in Seq(Bucket) /\ Len(buckets') >= 1
          /\ buckets'[Len(buckets')] = [ts |-> Truncate(now[b]), vals |-> FreshMap]
          /\ buckets'[1].ts + WindowSec >= now[b]
          /\ buckets /= <<>> => buckets'[1].ts >= buckets[1].ts
      BY <1>3, <3>1, <3>2, FrontAfterExtend
    <3>4. Truncate(now[b]) \in 0..now[b]
      BY <1>3, TruncateFacts
    <3>5. 1 \in 1..Len(buckets')
      BY <3>3
    <3>6. buckets'[1].ts \in Nat
      BY <3>3, <3>5, BucketAt
    <3>7. buckets'[Len(buckets')].ts = Truncate(now[b])
      BY <3>3
    <3>8. buckets'[1].ts + WindowSec >= buckets'[Len(buckets')].ts
      BY <1>3, <3>3, <3>4, <3>6, <3>7, WindowAssumption
    <3>9. buckets'[1].ts + Reach >= now[b]
      BY <1>3, <3>3, <3>6, BucketAssumption, WindowAssumption DEF Reach
    <3> QED
      BY <3>3, <3>8, <3>9
  <2> QED
    BY <2>1, <2>2
<1>6. FrontNear'
  BY <1>5 DEF FrontNear
<1>7. BuildsNear'
  <2> SUFFICES ASSUME NEW e \in Builders
               PROVE  /\ pc'[e] = "oldest" => buckets'[1].ts + Reach >= now[e]
                      /\ pc'[e] = "diff" => base[e].ts + Reach >= now[e]
    BY <1>2 DEF BuildsNear
  <2>1. CASE e = b
    BY <1>4, <1>5, <2>1
  <2>2. CASE e /= b
    <3>1. pc'[e] = pc[e]
      BY <1>4, <2>2
    <3>2. pc[e] = "diff" => base[e].ts + Reach >= now[e]
      BY DEF WInv, BuildsNear
    <3>3. pc[e] = "oldest" => buckets'[1].ts + Reach >= now[e]
      <4> SUFFICES ASSUME pc[e] = "oldest" PROVE buckets'[1].ts + Reach >= now[e]
        OBVIOUS
      <4>1. buckets /= <<>> /\ buckets[1].ts + Reach >= now[e] /\ now[e] \in Nat
        BY <1>1 DEF WInv, BuildsNear, TypedBuilds
      <4>2. 1 \in 1..Len(buckets) /\ 1 \in 1..Len(buckets')
        BY <1>3, <1>5, <4>1
      <4>3. buckets[1].ts \in Nat /\ buckets'[1].ts \in Nat
        BY <1>3, <1>5, <4>2, BucketAt
      <4> QED
        BY <1>5, <4>1, <4>3, BucketAssumption, WindowAssumption DEF Reach
    <3> QED
      BY <3>1, <3>2, <3>3
  <2> QED
    BY <2>1, <2>2
<1>8. WindowBounded'
  BY <1>2 DEF WInv, WindowBounded
<1> QED
  BY <1>6, <1>7, <1>8 DEF WInv

LEMMA NextNear == Typed /\ WInv /\ [Next]_vars => WInv'
<1> SUFFICES ASSUME Typed, WInv, [Next]_vars PROVE WInv'
  OBVIOUS
<1>1. TypedPg /\ TypedRing /\ TypedBuilds
  BY DEF Typed
<1>2. CASE \E b \in Builders : Push(b)
  BY <1>2, PushNear
<1>3. CASE Tick \/ (\E s \in Slots : CounterGrows(s) \/ CounterStarts(s) \/ SlotDropped(s))
        \/ UNCHANGED vars
  <2>1. UNCHANGED <<buckets, pc, now, base, stat>>
    BY <1>3 DEF Tick, CounterGrows, CounterStarts, SlotDropped, vars, ring, locals
  <2> QED
    BY <2>1 DEF WInv, FrontNear, BuildsNear, WindowBounded
<1>4. CASE \E b \in Builders : Read(b) \/ Stamp(b)
  <2>1. PICK b \in Builders : Read(b) \/ Stamp(b)
    BY <1>4
  <2>2. UNCHANGED <<buckets, base, stat>> /\ (\A e \in Builders \ {b} : now'[e] = now[e])
    BY <1>1, <2>1 DEF Read, Stamp, ring, TypedBuilds
  <2>3. \A e \in Builders : pc'[e] = IF e = b THEN pc'[b] ELSE pc[e]
    BY <1>1, <2>1 DEF Read, Stamp, Goto, TypedBuilds
  <2>4. pc'[b] \in {"stamp", "push"}
    BY <1>1, <2>1 DEF Read, Stamp, Goto, TypedBuilds
  <2>5. BuildsNear'
    BY <2>2, <2>3, <2>4 DEF WInv, BuildsNear
  <2> QED
    BY <2>2, <2>5 DEF WInv, FrontNear, WindowBounded
<1>5. CASE \E b \in Builders : Oldest(b)
  <2>1. PICK b \in Builders : Oldest(b)
    BY <1>5
  <2>2. UNCHANGED <<buckets, now, stat>> /\ pc[b] = "oldest"
        /\ base' = [base EXCEPT ![b] = buckets[1]] /\ pc' = [pc EXCEPT ![b] = "diff"]
    BY <2>1 DEF Oldest, OldestOf, Goto, ring
  <2>3. BuildsNear'
    BY <1>1, <2>2 DEF WInv, BuildsNear, TypedBuilds
  <2> QED
    BY <2>2, <2>3 DEF WInv, FrontNear, WindowBounded
<1>6. CASE \E b \in Builders : Diff(b)
  <2>1. PICK b \in Builders : Diff(b)
    BY <1>6
  <2>2. UNCHANGED <<buckets, now, base>> /\ pc[b] = "diff" /\ pc' = [pc EXCEPT ![b] = "done"]
    BY <2>1 DEF Diff, Goto, ring
  <2>3. BuildsNear'
    BY <1>1, <2>2 DEF WInv, BuildsNear, TypedBuilds
  <2> DEFINE w == IF now[b] - base[b].ts < 1 THEN 1 ELSE now[b] - base[b].ts
  <2>4. w \in 1..Reach
    <3>1. base[b] \in Bucket /\ now[b] \in Nat
      BY <1>1 DEF TypedBuilds
    <3>2. base[b].ts \in Nat
      BY <3>1 DEF Bucket
    <3>3. base[b].ts + Reach >= now[b]
      BY <2>2 DEF WInv, BuildsNear
    <3> QED
      BY <3>1, <3>2, <3>3, BucketAssumption, WindowAssumption DEF Reach
  <2>5. \A s \in DOMAIN read[b] : stat'[b][s].win = w
    BY <1>1, <2>1 DEF Diff, TypedBuilds
  <2>6. DOMAIN stat'[b] = DOMAIN read[b] /\ \A e \in Builders : e /= b => stat'[e] = stat[e]
    BY <1>1, <2>1 DEF Diff, TypedBuilds
  <2> HIDE DEF w
  <2>7. \A e \in Builders : \A s \in DOMAIN stat'[e] : stat'[e][s].win \in 1..Reach
    BY <2>4, <2>5, <2>6 DEF WInv, WindowBounded, Reach
  <2>8. WindowBounded'
    BY <2>7 DEF WindowBounded, Reach
  <2> QED
    BY <2>2, <2>3, <2>8 DEF WInv, FrontNear
<1>7. CASE \E b \in Builders : Finish(b)
  <2>1. PICK b \in Builders : Finish(b)
    BY <1>7
  <2>2. UNCHANGED buckets /\ pc' = [pc EXCEPT ![b] = "idle"]
        /\ \A e \in Builders : e /= b => now'[e] = now[e] /\ base'[e] = base[e]
    BY <1>1, <2>1 DEF Finish, Goto, ring, TypedBuilds
  <2>3. BuildsNear'
    BY <1>1, <2>2 DEF WInv, BuildsNear, TypedBuilds
  <2>4. stat' = [stat EXCEPT ![b] = Nothing] /\ DOMAIN Nothing = {}
    BY <2>1 DEF Finish, Nothing
  <2>5. WindowBounded'
    BY <1>1, <2>4 DEF WInv, WindowBounded, TypedBuilds
  <2> QED
    BY <2>2, <2>3, <2>5 DEF WInv, FrontNear
<1> QED
  BY <1>2, <1>3, <1>4, <1>5, <1>6, <1>7 DEF Next, Build
-----------------------------------------------------------------------------
(***************************************************************************)
(* The order of the values.  What has been read of a slot is never ahead   *)
(* of its counter, a later incarnation being ahead of all earlier ones; and *)
(* nothing in the ring is ahead of what a build has read, as long as no    *)
(* other build has pushed since.                                           *)
(***************************************************************************)
UpTo(v, w) == v.life < w.life \/ (v.life = w.life /\ v.n <= w.n)

Seen(v, s) == v.life <= resets[s] /\ (s \in DOMAIN counters => UpTo(v, counters[s]))

LiveIsLatest == \A s \in DOMAIN counters : counters[s].life = resets[s]
MapsSeen == \A m \in DOMAIN maps : \A s \in DOMAIN maps[m] : Seen(maps[m][s], s)
ReadSeen == \A b \in Builders : \A s \in DOMAIN read[b] : Seen(read[b][s], s)

RingBehind ==
    \A b \in Builders \ raced : UnderWay(b) =>
        \A m \in DOMAIN maps : \A s \in DOMAIN maps[m] \cap DOMAIN read[b] :
            UpTo(maps[m][s], read[b][s])

VInv == LiveIsLatest /\ MapsSeen /\ ReadSeen /\ RingBehind /\ NegativeOnlyAfterReset

LEMMA MapValues ==
    ASSUME Typed
    PROVE  /\ \A m \in DOMAIN maps : \A s \in DOMAIN maps[m] : s \in Slots /\ maps[m][s] \in Count
           /\ \A b \in Builders : \A s \in DOMAIN read[b] : s \in Slots /\ read[b][s] \in Count
           /\ \A s \in DOMAIN counters : s \in Slots /\ counters[s] \in Count
<1>1. /\ \A m \in DOMAIN maps : maps[m] \in Counts
      /\ \A b \in Builders : read[b] \in Counts
      /\ counters \in Counts
  BY DEF Typed, TypedPg, TypedRing, TypedBuilds
<1>2. \A c \in Counts : \A s \in DOMAIN c : s \in Slots /\ c[s] \in Count
  BY CountsAre
<1> QED
  BY <1>1, <1>2

LEMMA InitValues == Init => VInv
<1> SUFFICES ASSUME Init PROVE VInv
  OBVIOUS
<1>1. DOMAIN maps = {} /\ \A b \in Builders : pc[b] = "idle" /\ DOMAIN read[b] = {} /\ DOMAIN stat[b] = {}
  BY DEF Init, Nothing
<1>2. LiveIsLatest
  BY DEF Init, LiveIsLatest
<1> QED
  BY <1>1, <1>2 DEF VInv, UnderWay, MapsSeen, ReadSeen, RingBehind, NegativeOnlyAfterReset

\* What was not ahead of a counter does not get ahead of it.
LEMMA SeenStays ==
    ASSUME Typed, LiveIsLatest, NEW s \in Slots,
           CounterGrows(s) \/ CounterStarts(s) \/ SlotDropped(s)
    PROVE  /\ LiveIsLatest'
           /\ \A v \in Count : \A t \in Slots : Seen(v, t) => Seen(v, t)'
<1>1. \A t \in DOMAIN counters : t \in Slots /\ counters[t] \in Count
  BY MapValues
<1>2. \A v \in Count : v.n \in Nat /\ v.life \in Nat
  BY BoundAssumption DEF Count
<1>3. \A t \in Slots : resets[t] \in Nat
  BY BoundAssumption DEF Typed, TypedPg
<1>4. CASE CounterGrows(s)
  <2>1. /\ s \in DOMAIN counters /\ resets' = resets
        /\ counters' = [counters EXCEPT ![s].n = @ + 1]
    BY <1>4 DEF CounterGrows
  <2>2. DOMAIN counters' = DOMAIN counters
        /\ \A t \in DOMAIN counters :
              /\ counters'[t].life = counters[t].life
              /\ counters'[t].n = IF t = s THEN counters[t].n + 1 ELSE counters[t].n
    BY <1>1, <2>1 DEF Count
  <2>3. \A t \in DOMAIN counters : counters[t].n <= counters'[t].n /\ counters[t].n \in Nat
                                   /\ counters'[t].n \in Nat
    BY <1>1, <1>2, <2>2
  <2>4. \A v \in Count : \A t \in DOMAIN counters : UpTo(v, counters[t]) => UpTo(v, counters'[t])
    BY <1>2, <2>2, <2>3 DEF UpTo
  <2> QED
    BY <2>1, <2>2, <2>4 DEF LiveIsLatest, Seen
<1>5. CASE CounterStarts(s)
  <2>1. /\ resets' = [resets EXCEPT ![s] = @ + 1]
        /\ counters' = [t \in DOMAIN counters \cup {s} |->
                         IF t = s THEN [n |-> 0, life |-> resets[s] + 1] ELSE counters[t]]
    BY <1>5 DEF CounterStarts
  <2>2. \A t \in Slots : resets'[t] = IF t = s THEN resets[s] + 1 ELSE resets[t]
    BY <2>1 DEF Typed, TypedPg
  <2>3. LiveIsLatest'
    BY <1>1, <2>1, <2>2 DEF LiveIsLatest
  <2>4. \A v \in Count : \A t \in Slots : Seen(v, t) => Seen(v, t)'
    <3> SUFFICES ASSUME NEW v \in Count, NEW t \in Slots, Seen(v, t) PROVE Seen(v, t)'
      OBVIOUS
    <3>1. v.life \in Nat /\ resets[t] \in Nat /\ v.life <= resets[t]
      BY <1>2, <1>3 DEF Seen
    <3>2. CASE t = s
      <4>1. resets'[s] = resets[s] + 1 /\ counters'[s].life = resets[s] + 1
        BY <2>1, <2>2
      <4> QED
        BY <3>1, <3>2, <4>1 DEF Seen, UpTo
    <3>3. CASE t /= s
      <4>1. resets'[t] = resets[t] /\ (t \in DOMAIN counters' => t \in DOMAIN counters /\ counters'[t] = counters[t])
        BY <2>1, <2>2, <3>3
      <4> QED
        BY <4>1 DEF Seen
    <3> QED
      BY <3>2, <3>3
  <2> QED
    BY <2>3, <2>4
<1>6. CASE SlotDropped(s)
  <2>1. resets' = resets /\ counters' = [t \in DOMAIN counters \ {s} |-> counters[t]]
    BY <1>6 DEF SlotDropped
  <2> QED
    BY <2>1 DEF LiveIsLatest, Seen
<1> QED
  BY <1>4, <1>5, <1>6

\* After a push the ring holds what it held and what was pushed.
LEMMA PushedValues ==
    ASSUME Typed, NEW b \in Builders, Push(b)
    PROVE  \A m \in DOMAIN maps' : \A s \in DOMAIN maps'[m] :
              \/ s \in DOMAIN read[b] /\ maps'[m][s] = read[b][s]
              \/ \E k \in DOMAIN maps : s \in DOMAIN maps[k] /\ maps'[m][s] = maps[k][s]
<1>1. TypedRing /\ TypedBuilds /\ read[b] \in Counts
  BY DEF Typed, TypedBuilds
<1>2. CASE Merges(buckets, now[b])
  <2> DEFINE x == buckets[Len(buckets)].vals
  <2>1. maps' = [maps EXCEPT ![x] = Overlaid(@, read[b])] /\ buckets /= <<>>
    BY <1>2 DEF Push, Merges
  <2>2. Len(buckets) \in 1..Len(buckets)
    BY <1>1, <2>1 DEF TypedRing
  <2>3. x \in DOMAIN maps /\ maps[x] \in Counts
    BY <1>1, <2>2 DEF TypedRing
  <2> HIDE DEF x
  <2>4. DOMAIN Overlaid(maps[x], read[b]) = DOMAIN maps[x] \cup DOMAIN read[b]
        /\ \A k \in DOMAIN maps[x] \cup DOMAIN read[b] :
              Overlaid(maps[x], read[b])[k] = IF k \in DOMAIN read[b] THEN read[b][k] ELSE maps[x][k]
    BY <1>1, <2>3, OverlaidCounts
  <2>5. DOMAIN maps' = DOMAIN maps /\ maps'[x] = Overlaid(maps[x], read[b])
        /\ \A m \in DOMAIN maps : m /= x => maps'[m] = maps[m]
    BY <2>1, <2>3
  <2> QED
    BY <2>3, <2>4, <2>5
<1>3. CASE ~ Merges(buckets, now[b])
  <2>1. maps' = MapsWith(read[b])
    BY <1>3 DEF Push
  <2>2. /\ DOMAIN maps' = (MapsInUse \cap DOMAIN maps) \cup {FreshMap}
        /\ maps'[FreshMap] = read[b]
        /\ \A m \in MapsInUse \cap DOMAIN maps : maps'[m] = maps[m]
    BY <1>1, <2>1, MapsWithNew
  <2> QED
    BY <2>2
<1> QED
  BY <1>2, <1>3

LEMMA UpToSelf == \A v \in Count : UpTo(v, v)
<1>1. \A v \in Count : v.n \in Nat
  BY BoundAssumption DEF Count
<1> QED
  BY <1>1 DEF UpTo

LEMMA NextValues == Typed /\ VInv /\ [Next]_vars => VInv'
<1> SUFFICES ASSUME Typed, VInv, [Next]_vars PROVE VInv'
  OBVIOUS
<1>1. TypedPg /\ TypedRing /\ TypedBuilds /\ LiveIsLatest /\ MapsSeen /\ ReadSeen
  BY DEF Typed, VInv
<1>v. /\ \A m \in DOMAIN maps : \A s \in DOMAIN maps[m] : s \in Slots /\ maps[m][s] \in Count
      /\ \A b \in Builders : \A s \in DOMAIN read[b] : s \in Slots /\ read[b][s] \in Count
      /\ \A s \in DOMAIN counters : s \in Slots /\ counters[s] \in Count
  BY MapValues
<1>2. CASE Tick \/ UNCHANGED vars
  <2>1. UNCHANGED <<counters, resets, maps, raced, read, pc, stat>>
    BY <1>2 DEF Tick, vars, pg, ring, locals
  <2> QED
    BY <2>1 DEF VInv, UnderWay, LiveIsLatest, MapsSeen, ReadSeen, RingBehind, NegativeOnlyAfterReset, Seen
<1>3. CASE \E s \in Slots : CounterGrows(s) \/ CounterStarts(s) \/ SlotDropped(s)
  <2>1. UNCHANGED <<maps, raced, read, pc, stat>>
    BY <1>3 DEF CounterGrows, CounterStarts, SlotDropped, ring, locals
  <2>2. LiveIsLatest' /\ \A v \in Count : \A t \in Slots : Seen(v, t) => Seen(v, t)'
    BY <1>1, <1>3, SeenStays
  <2>3. MapsSeen'
    BY <1>1, <1>v, <2>1, <2>2 DEF MapsSeen
  <2>4. ReadSeen'
    BY <1>1, <1>v, <2>1, <2>2 DEF ReadSeen
  <2>5. (RingBehind /\ NegativeOnlyAfterReset)'
    BY <2>1 DEF VInv, UnderWay, RingBehind, NegativeOnlyAfterReset
  <2> QED
    BY <2>2, <2>3, <2>4, <2>5 DEF VInv
<1>4. CASE \E b \in Builders : Read(b)
  <2>1. PICK b \in Builders : Read(b)
    BY <1>4
  <2>2. UNCHANGED <<counters, resets, maps, raced, stat>>
        /\ read' = [read EXCEPT ![b] = counters] /\ pc' = [pc EXCEPT ![b] = "stamp"]
    BY <2>1 DEF Read, Goto, pg, ring
  <2>3. LiveIsLatest' /\ MapsSeen'
    BY <1>1, <2>2 DEF LiveIsLatest, MapsSeen, Seen
  <2>4. \A s \in DOMAIN counters : Seen(counters[s], s)
    <3>1. \A s \in DOMAIN counters : UpTo(counters[s], counters[s])
      BY <1>v, UpToSelf
    <3>2. \A s \in DOMAIN counters : counters[s].life <= resets[s]
      <4>1. \A s \in Slots : resets[s] \in Nat
        BY <1>1, BoundAssumption DEF TypedPg
      <4> QED
        BY <1>1, <1>v, <4>1 DEF LiveIsLatest
    <3> QED
      BY <3>1, <3>2 DEF Seen
  <2>5. \A e \in Builders : read'[e] = IF e = b THEN counters ELSE read[e]
    BY <1>1, <2>2 DEF TypedBuilds
  <2>6. ReadSeen'
    BY <1>1, <2>2, <2>4, <2>5 DEF ReadSeen, Seen
  <2>7. RingBehind'
    <3>1. \A m \in DOMAIN maps : \A s \in DOMAIN maps[m] \cap DOMAIN counters :
             UpTo(maps[m][s], counters[s])
      BY <1>1 DEF MapsSeen, Seen
    <3>2. \A e \in Builders : e /= b => pc'[e] = pc[e]
      BY <1>1, <2>2 DEF TypedBuilds
    <3> QED
      BY <2>2, <2>5, <3>1, <3>2 DEF VInv, RingBehind, UnderWay
  <2>8. NegativeOnlyAfterReset'
    BY <2>2 DEF VInv, NegativeOnlyAfterReset
  <2> QED
    BY <2>3, <2>6, <2>7, <2>8 DEF VInv
<1>5. CASE \E b \in Builders : Stamp(b) \/ Oldest(b)
  <2>1. PICK b \in Builders : Stamp(b) \/ Oldest(b)
    BY <1>5
  <2>2. UNCHANGED <<counters, resets, maps, raced, read, stat>>
    BY <2>1 DEF Stamp, Oldest, pg, ring
  <2>3. \A e \in Builders : UnderWay(e)' => UnderWay(e)
    BY <1>1, <2>1 DEF Stamp, Oldest, Goto, UnderWay, TypedBuilds
  <2> QED
    BY <1>1, <2>2, <2>3 DEF VInv, LiveIsLatest, MapsSeen, ReadSeen, RingBehind, NegativeOnlyAfterReset, Seen
<1>6. CASE \E b \in Builders : Push(b)
  <2>1. PICK b \in Builders : Push(b)
    BY <1>6
  <2>2. UNCHANGED <<counters, resets, read, stat>> /\ pc[b] = "push"
    BY <2>1 DEF Push, pg, locals
  <2>3. \A m \in DOMAIN maps' : \A s \in DOMAIN maps'[m] :
           \/ s \in DOMAIN read[b] /\ maps'[m][s] = read[b][s]
           \/ \E k \in DOMAIN maps : s \in DOMAIN maps[k] /\ maps'[m][s] = maps[k][s]
    BY <2>1, PushedValues
  <2>4. LiveIsLatest' /\ ReadSeen'
    BY <1>1, <2>2 DEF LiveIsLatest, ReadSeen, Seen
  <2>5. MapsSeen'
    BY <1>1, <2>2, <2>3 DEF MapsSeen, ReadSeen, Seen
  <2>6. raced \subseteq raced' /\ \A e \in Builders \ raced' : e /= b => ~UnderWay(e)
    BY <2>1 DEF Push, Pushed
  <2>7. RingBehind'
    <3>1. ASSUME b \notin raced'
          PROVE  \A m \in DOMAIN maps : \A s \in DOMAIN maps[m] \cap DOMAIN read[b] :
                    UpTo(maps[m][s], read[b][s])
      BY <2>2, <2>6, <3>1 DEF VInv, RingBehind, UnderWay
    <3>2. \A s \in DOMAIN read[b] : UpTo(read[b][s], read[b][s])
      BY <1>v, UpToSelf
    <3>3. ASSUME b \notin raced'
          PROVE  \A m \in DOMAIN maps' : \A s \in DOMAIN maps'[m] \cap DOMAIN read[b] :
                    UpTo(maps'[m][s], read[b][s])
      BY <2>3, <3>1, <3>2, <3>3
    <3>4. \A e \in Builders \ raced' : UnderWay(e)' => e = b
      BY <1>1, <2>1, <2>6 DEF Push, Goto, UnderWay, TypedBuilds
    <3> QED
      BY <2>2, <3>3, <3>4 DEF RingBehind
  <2>8. NegativeOnlyAfterReset'
    BY <2>2, <2>6 DEF VInv, NegativeOnlyAfterReset
  <2> QED
    BY <2>4, <2>5, <2>7, <2>8 DEF VInv
<1>7. CASE \E b \in Builders : Diff(b)
  <2>1. PICK b \in Builders : Diff(b)
    BY <1>7
  <2>2. UNCHANGED <<counters, resets, maps, raced, read>> /\ pc[b] = "diff"
        /\ \A e \in Builders : UnderWay(e)' => UnderWay(e)
    BY <1>1, <2>1 DEF Diff, Goto, UnderWay, TypedBuilds, pg, ring
  <2>3. LiveIsLatest' /\ MapsSeen' /\ ReadSeen'
    BY <1>1, <2>2 DEF LiveIsLatest, MapsSeen, ReadSeen, Seen
  <2>4. RingBehind'
    BY <2>2 DEF VInv, RingBehind
  <2>5. NegativeOnlyAfterReset'
    <3>1. SUFFICES ASSUME b \notin raced
                   PROVE  \A s \in DOMAIN stat'[b] :
                             stat'[b][s].d < 0 => stat'[b][s].from < stat'[b][s].to
      <4>1. \A e \in Builders : e /= b => stat'[e] = stat[e]
        BY <1>1, <2>1 DEF Diff, TypedBuilds
      <4> QED
        BY <2>2, <4>1 DEF VInv, NegativeOnlyAfterReset
    <3> DEFINE m == base[b].vals
    <3>2. m \in DOMAIN maps
      BY <1>1, <2>2 DEF TypedBuilds
    <3>3. \A s \in DOMAIN maps[m] \cap DOMAIN read[b] : UpTo(maps[m][s], read[b][s])
      BY <2>2, <3>1, <3>2 DEF VInv, RingBehind, UnderWay
    <3>4. /\ DOMAIN stat'[b] = DOMAIN read[b]
          /\ \A s \in DOMAIN read[b] :
                /\ stat'[b][s].d = read[b][s].n - Baseline(maps[m], s).n
                /\ stat'[b][s].from = Baseline(maps[m], s).life
                /\ stat'[b][s].to = read[b][s].life
      BY <1>1, <2>1 DEF Diff, TypedBuilds
    <3> HIDE DEF m
    <3>5. \A s \in DOMAIN read[b] : stat'[b][s].d < 0 => stat'[b][s].from < stat'[b][s].to
      <4> SUFFICES ASSUME NEW s \in DOMAIN read[b], stat'[b][s].d < 0
                   PROVE  stat'[b][s].from < stat'[b][s].to
        OBVIOUS
      <4>1. read[b][s].n \in Nat /\ read[b][s].life \in Nat
        BY <1>v, BoundAssumption DEF Count
      <4>2. CASE s \in DOMAIN maps[m]
        <5>1. maps[m][s].n \in Nat /\ maps[m][s].life \in Nat
          BY <1>v, <3>2, <4>2, BoundAssumption DEF Count
        <5>2. UpTo(maps[m][s], read[b][s])
          BY <3>3, <4>2
        <5>3. Baseline(maps[m], s) = maps[m][s]
          BY <4>2 DEF Baseline
        <5> QED
          BY <3>4, <4>1, <5>1, <5>2, <5>3 DEF UpTo
      <4>3. CASE s \notin DOMAIN maps[m]
        <5>1. Baseline(maps[m], s).n = 0
          BY <4>3 DEF Baseline
        <5> QED
          BY <3>4, <4>1, <5>1
      <4> QED
        BY <4>2, <4>3
    <3> QED
      BY <3>4, <3>5
  <2> QED
    BY <2>3, <2>4, <2>5 DEF VInv
<1>8. CASE \E b \in Builders : Finish(b)
  <2>1. PICK b \in Builders : Finish(b)
    BY <1>8
  <2>2. /\ UNCHANGED <<counters, resets, maps>> /\ raced' = raced \ {b}
        /\ \A e \in Builders : /\ e /= b => read'[e] = read[e] /\ pc'[e] = pc[e] /\ stat'[e] = stat[e]
                               /\ e = b => DOMAIN read'[e] = {} /\ pc'[e] = "idle" /\ DOMAIN stat'[e] = {}
    BY <1>1, <2>1 DEF Finish, Goto, TypedBuilds, pg, ring, Nothing
  <2>3. LiveIsLatest' /\ MapsSeen'
    BY <1>1, <2>2 DEF LiveIsLatest, MapsSeen, Seen
  <2>4. ReadSeen'
    BY <1>1, <2>2 DEF ReadSeen, Seen
  <2>5. RingBehind'
    BY <2>2 DEF VInv, RingBehind, UnderWay
  <2>6. NegativeOnlyAfterReset'
    BY <2>2 DEF VInv, NegativeOnlyAfterReset
  <2> QED
    BY <2>3, <2>4, <2>5, <2>6 DEF VInv
<1> QED
  BY <1>2, <1>3, <1>4, <1>5, <1>6, <1>7, <1>8 DEF Next, Build
-----------------------------------------------------------------------------
(***************************************************************************)
(* The ring as a window.  The newest bucket is that of the latest push, so *)
(* a sample is late when its period is before that bucket's.  A push that  *)
(* is not late leaves buckets that were in order in order; one that is     *)
(* late does not, as the bucket before its own is too young to go; and     *)
(* once the buckets are in order again the first of them is the oldest,    *)
(* and young enough, as after every push.                                  *)
(***************************************************************************)
Increasing(bk) == \A i, j \in 1..Len(bk) : i < j => bk[i].ts < bk[j].ts

Apart(bk) == \A i, j \in 1..Len(bk) : i /= j => bk[i].vals /= bk[j].vals

SamplesOf(bk, mp) ==
    [t \in {bk[k].ts : k \in 1..Len(bk)} |->
        mp[bk[CHOOSE k \in 1..Len(bk) : bk[k].ts = t].vals]]

LEMMA SampleAt ==
    ASSUME NEW bk \in Seq(Bucket), NEW mp, Increasing(bk)
    PROVE  /\ DOMAIN SamplesOf(bk, mp) = {bk[k].ts : k \in 1..Len(bk)}
           /\ SamplesOf(bk, mp) = [t \in DOMAIN SamplesOf(bk, mp) |-> SamplesOf(bk, mp)[t]]
           /\ \A k \in 1..Len(bk) : SamplesOf(bk, mp)[bk[k].ts] = mp[bk[k].vals]
<1>1. ASSUME NEW k \in 1..Len(bk)
      PROVE  SamplesOf(bk, mp)[bk[k].ts] = mp[bk[k].vals]
  <2> DEFINE c == CHOOSE j \in 1..Len(bk) : bk[j].ts = bk[k].ts
  <2>1. c \in 1..Len(bk) /\ bk[c].ts = bk[k].ts
    OBVIOUS
  <2>2. \A j \in 1..Len(bk) : bk[j].ts \in Nat
    BY BucketAt
  <2>3. SamplesOf(bk, mp)[bk[k].ts] = mp[bk[c].vals]
    BY DEF SamplesOf
  <2> HIDE DEF c
  <2>4. c = k
    BY <2>1, <2>2 DEF Increasing
  <2> QED
    BY <2>3, <2>4
<1>2. SamplesOf(bk, mp) = [t \in DOMAIN SamplesOf(bk, mp) |-> SamplesOf(bk, mp)[t]]
      /\ DOMAIN SamplesOf(bk, mp) = {bk[k].ts : k \in 1..Len(bk)}
  BY DEF SamplesOf
<1> QED
  BY <1>1, <1>2

\* The two kinds of step of a window, with p the period of the sample taken at t.
Updates(s, q, p, new) == p \in DOMAIN s /\ q = [s EXCEPT ![p] = Overlaid(@, new)]

Adds(s, q, p, t, new) ==
    /\ p \notin DOMAIN s
    /\ LET kept == {o \in DOMAIN s : o + WindowSec >= t} IN
       q = [o \in kept \cup {p} |-> IF o = p THEN new ELSE s[o]]

\* A merge changes the sample of the newest bucket's period.
LEMMA MergedSamples ==
    ASSUME NEW bk \in Seq(Bucket), bk /= <<>>, Increasing(bk), Apart(bk),
           NEW mp, NEW new, \A k \in 1..Len(bk) : bk[k].vals \in DOMAIN mp,
           NEW mq, mq = [mp EXCEPT ![bk[Len(bk)].vals] = Overlaid(@, new)]
    PROVE  Updates(SamplesOf(bk, mp), SamplesOf(bk, mq), bk[Len(bk)].ts, new)
<1> DEFINE s == SamplesOf(bk, mp)
           q == SamplesOf(bk, mq)
           p == bk[Len(bk)].ts
<1>1. /\ DOMAIN s = {bk[k].ts : k \in 1..Len(bk)} /\ s = [t \in DOMAIN s |-> s[t]]
      /\ \A k \in 1..Len(bk) : s[bk[k].ts] = mp[bk[k].vals]
      /\ DOMAIN q = {bk[k].ts : k \in 1..Len(bk)} /\ q = [t \in DOMAIN q |-> q[t]]
      /\ \A k \in 1..Len(bk) : q[bk[k].ts] = mq[bk[k].vals]
  BY SampleAt
<1>2. Len(bk) \in 1..Len(bk)
  OBVIOUS
<1>3. \A k \in 1..Len(bk) : bk[k].ts \in Nat
  BY BucketAt
<1> HIDE DEF s, q
<1>4. p \in DOMAIN s
  BY <1>1, <1>2
<1>5. \A k \in 1..Len(bk) : mq[bk[k].vals] = IF k = Len(bk) THEN Overlaid(mp[bk[k].vals], new)
                                                            ELSE mp[bk[k].vals]
  BY <1>2 DEF Apart
<1>6. \A k \in 1..Len(bk) : bk[k].ts = p <=> k = Len(bk)
  BY <1>2, <1>3 DEF Increasing
<1>7. \A t \in DOMAIN s : q[t] = IF t = p THEN Overlaid(s[t], new) ELSE s[t]
  <2> SUFFICES ASSUME NEW k \in 1..Len(bk)
               PROVE  q[bk[k].ts] = IF bk[k].ts = p THEN Overlaid(s[bk[k].ts], new) ELSE s[bk[k].ts]
    BY <1>1
  <2> QED
    BY <1>1, <1>5, <1>6
<1> HIDE DEF p
<1>8. q = [s EXCEPT ![p] = Overlaid(@, new)]
  <2> DEFINE o == Overlaid(s[p], new)
  <2>1. q = [t \in DOMAIN s |-> q[t]]
    BY <1>1
  <2>2. \A t \in DOMAIN s : q[t] = IF t = p THEN o ELSE s[t]
    BY <1>7
  <2> HIDE DEF o
  <2>3. q = [t \in DOMAIN s |-> IF t = p THEN o ELSE s[t]]
    BY <2>1, <2>2
  <2>4. [s EXCEPT ![p] = o] = [t \in DOMAIN s |-> IF t = p THEN o ELSE s[t]]
    BY <1>4
  <2>5. q = [s EXCEPT ![p] = o]
    BY <2>3, <2>4
  <2> QED
    BY <2>5 DEF o
<1> QED
  BY <1>4, <1>8 DEF s, q, p, Updates

\* A push of a new period adds its sample and drops exactly those too old.
LEMMA AddedSamples ==
    ASSUME NEW bk \in Seq(Bucket), Increasing(bk), NEW mp, NEW new,
           NEW t \in Nat, NEW n \in Bucket, \A k \in 1..Len(bk) : bk[k].ts < n.ts,
           NEW f, FirstKept(bk, t, f), NEW bq, Kept(bk, n, f, bq),
           NEW mq, mq[n.vals] = new, \A k \in 1..Len(bk) : mq[bk[k].vals] = mp[bk[k].vals]
    PROVE  Increasing(bq) /\ Adds(SamplesOf(bk, mp), SamplesOf(bq, mq), n.ts, t, new)
<1> DEFINE s == SamplesOf(bk, mp)
           q == SamplesOf(bq, mq)
           kept == {p \in DOMAIN s : p + WindowSec >= t}
<1>1. /\ DOMAIN s = {bk[k].ts : k \in 1..Len(bk)}
      /\ \A k \in 1..Len(bk) : s[bk[k].ts] = mp[bk[k].vals]
  BY SampleAt
<1>2. /\ bq \in Seq(Bucket) /\ Len(bq) = Len(bk) + 2 - f
      /\ \A k \in 1..Len(bq) : bq[k] = IF k + f - 1 <= Len(bk) THEN bk[k + f - 1] ELSE n
  BY DEF Kept
<1>3. /\ f \in 1..(Len(bk) + 1)
      /\ \A j \in 1..(f - 1) : bk[j].ts + WindowSec < t
      /\ f <= Len(bk) => bk[f].ts + WindowSec >= t
  BY DEF FirstKept
<1>4. \A k \in 1..Len(bk) : bk[k].ts \in Nat
  BY BucketAt
<1>5. n.ts \in Nat
  BY DEF Bucket
<1>6. n.ts \notin DOMAIN s
  BY <1>1, <1>4, <1>5
<1>7. \A k \in 1..Len(bk) : bk[k].ts + WindowSec >= t <=> k >= f
  <2> SUFFICES ASSUME NEW k \in 1..Len(bk) PROVE bk[k].ts + WindowSec >= t <=> k >= f
    OBVIOUS
  <2>1. CASE k < f
    BY <1>3, <1>4, <2>1, WindowAssumption
  <2>2. CASE k = f
    BY <1>3, <2>2
  <2>3. CASE k > f
    <3>1. f \in 1..Len(bk) /\ bk[f].ts < bk[k].ts
      BY <1>3, <2>3 DEF Increasing
    <3> QED
      BY <1>3, <1>4, <2>3, <3>1, WindowAssumption
  <2> QED
    BY <1>3, <2>1, <2>2, <2>3
<1>8. Increasing(bq)
  <2> SUFFICES ASSUME NEW i \in 1..Len(bq), NEW j \in 1..Len(bq), i < j PROVE bq[i].ts < bq[j].ts
    BY DEF Increasing
  <2>1. i + f - 1 \in 1..Len(bk) /\ bq[i] = bk[i + f - 1]
    BY <1>2, <1>3
  <2>2. CASE j + f - 1 <= Len(bk)
    <3>1. j + f - 1 \in 1..Len(bk) /\ bq[j] = bk[j + f - 1] /\ i + f - 1 < j + f - 1
      BY <1>2, <1>3, <2>2
    <3> QED
      BY <2>1, <3>1 DEF Increasing
  <2>3. CASE ~ (j + f - 1 <= Len(bk))
    <3>1. bq[j] = n
      BY <1>2, <2>3
    <3> QED
      BY <2>1, <3>1
  <2> QED
    BY <2>2, <2>3
<1>9. /\ DOMAIN q = {bq[k].ts : k \in 1..Len(bq)} /\ q = [p \in DOMAIN q |-> q[p]]
      /\ \A k \in 1..Len(bq) : q[bq[k].ts] = mq[bq[k].vals]
  BY <1>2, <1>8, SampleAt
<1> HIDE DEF s, q
<1>10. kept = {bk[k].ts : k \in f..Len(bk)}
  BY <1>1, <1>3, <1>7
<1>11. \A k \in f..Len(bk) : k - f + 1 \in 1..Len(bq) /\ bq[k - f + 1] = bk[k]
  BY <1>2, <1>3
<1>12. Len(bq) \in 1..Len(bq) /\ bq[Len(bq)] = n
  BY <1>2, <1>3
<1>13. \A k \in 1..Len(bq) : bq[k] = n \/ \E j \in f..Len(bk) : bq[k] = bk[j]
  <2> SUFFICES ASSUME NEW k \in 1..Len(bq), k + f - 1 <= Len(bk)
               PROVE  \E j \in f..Len(bk) : bq[k] = bk[j]
    BY <1>2
  <2>1. k + f - 1 \in f..Len(bk) /\ bq[k] = bk[k + f - 1]
    BY <1>2, <1>3
  <2> QED
    BY <2>1
<1>14. DOMAIN q = kept \cup {n.ts}
  <2>1. DOMAIN q \subseteq kept \cup {n.ts}
    BY <1>9, <1>10, <1>13
  <2>2. n.ts \in DOMAIN q
    BY <1>9, <1>12
  <2>3. kept \subseteq DOMAIN q
    BY <1>9, <1>10, <1>11
  <2> QED
    BY <2>1, <2>2, <2>3
<1>15. q[n.ts] = new
  BY <1>9, <1>12
<1>16. \A p \in kept : q[p] = s[p] /\ p /= n.ts
  <2> SUFFICES ASSUME NEW k \in f..Len(bk) PROVE q[bk[k].ts] = s[bk[k].ts] /\ bk[k].ts /= n.ts
    BY <1>10
  <2>1. k \in 1..Len(bk)
    BY <1>3
  <2>2. q[bk[k].ts] = mq[bk[k].vals]
    BY <1>9, <1>11
  <2> QED
    BY <1>1, <1>4, <1>5, <2>1, <2>2
<1> HIDE DEF kept
<1>17. q = [p \in kept \cup {n.ts} |-> IF p = n.ts THEN new ELSE s[p]]
  BY <1>9, <1>14, <1>15, <1>16
<1> QED
  BY <1>6, <1>8, <1>17 DEF s, q, kept, Adds

LastPush ==
    /\ lastPush.at \in Nat
    /\ buckets = <<>> => lastPush.at = 0
    /\ buckets /= <<>> => buckets[Len(buckets)].ts = Truncate(lastPush.at)

KInv == LastPush /\ Apart(buckets)

Samples == SamplesOf(buckets, maps)

LEMMA InOrderMeansIncreasing == InOrder <=> Increasing(buckets)
BY DEF InOrder, Increasing

LEMMA InitWindow == Init => KInv /\ W!Init
<1> SUFFICES ASSUME Init PROVE KInv /\ W!Init
  OBVIOUS
<1>1. buckets = <<>> /\ lastPush.at = 0
  BY DEF Init
<1>2. KInv
  BY <1>1 DEF KInv, LastPush, Apart
<1>3. 1..Len(buckets) = {}
  BY <1>1
<1>4. InOrder = TRUE
  BY <1>3 DEF InOrder
<1>5. W!Init
  BY <1>3, <1>4 DEF Init, Nothing, W!Init
<1> QED
  BY <1>2, <1>5

\* What every push finds.
LEMMA AtPush ==
    ASSUME Typed, KInv, NEW b \in Builders, Push(b)
    PROVE  /\ lastPush' = [at |-> now[b], vals |-> read[b]]
           /\ now[b] \in Nat /\ read[b] \in Counts /\ buckets \in Seq(Bucket)
           /\ Truncate(now[b]) \in Nat /\ Truncate(now[b]) + WindowSec >= now[b]
           /\ lastPush.at \in Nat /\ Truncate(lastPush.at) \in Nat
           /\ \A k \in 1..Len(buckets) : /\ buckets[k].ts \in Nat
                                         /\ buckets[k].vals \in DOMAIN maps \cap MapsInUse
<1>1. TypedRing /\ TypedBuilds /\ LastPush
  BY DEF Typed, KInv
<1>2. now[b] \in Nat /\ read[b] \in Counts /\ buckets \in Seq(Bucket) /\ lastPush.at \in Nat
  BY <1>1 DEF TypedBuilds, TypedRing, LastPush
<1>3. Truncate(now[b]) \in Nat /\ Truncate(now[b]) + WindowSec >= now[b] /\ Truncate(lastPush.at) \in Nat
  BY <1>2, TruncatedIsYoung
<1>4. \A k \in 1..Len(buckets) : buckets[k].ts \in Nat
  BY <1>2, BucketAt
<1>5. \A k \in 1..Len(buckets) : buckets[k].vals \in DOMAIN maps \cap MapsInUse
  BY <1>1 DEF TypedRing, MapsInUse
<1> QED
  BY <1>2, <1>3, <1>4, <1>5 DEF Push, Pushed

\* What is kept by a push that adds a bucket, and the values it adds.
LEMMA AtExtend ==
    ASSUME Typed, KInv, NEW b \in Builders, Push(b), ~ Merges(buckets, now[b])
    PROVE  \E n \in Bucket : \E f \in 1..(Len(buckets) + 1) :
              /\ n.ts = Truncate(now[b]) /\ n.vals \notin MapsInUse
              /\ FirstKept(buckets, now[b], f) /\ Kept(buckets, n, f, buckets')
              /\ maps'[n.vals] = read[b]
              /\ \A m \in MapsInUse \cap DOMAIN maps : maps'[m] = maps[m]
<1> DEFINE n == [ts |-> Truncate(now[b]), vals |-> FreshMap]
<1>1. /\ TypedRing /\ TypedBuilds
      /\ now[b] \in Nat /\ read[b] \in Counts /\ buckets \in Seq(Bucket)
      /\ Truncate(now[b]) \in Nat
  BY AtPush DEF Typed
<1>2. maps' = MapsWith(read[b]) /\ buckets' = Extend(buckets, now[b], FreshMap)
  BY DEF Push
<1>3. FreshMap \in Nat /\ FreshMap \notin MapsInUse
  BY <1>1, FreshMapIsFresh
<1>4. maps'[FreshMap] = read[b] /\ \A m \in MapsInUse \cap DOMAIN maps : maps'[m] = maps[m]
  BY <1>1, <1>2, MapsWithNew
<1>5. n \in Bucket /\ n.ts = Truncate(now[b]) /\ n.vals = FreshMap
  BY <1>1, <1>3 DEF Bucket
<1>6. \E f \in 1..(Len(buckets) + 1) :
         FirstKept(buckets, now[b], f) /\ Kept(buckets, n, f, buckets')
  BY <1>1, <1>2, <1>3, ExtendKeeps
<1> HIDE DEF n
<1> QED
  BY <1>3, <1>4, <1>5, <1>6

\* The buckets left by a push that adds one, from the first kept.
LEMMA KeptBuckets ==
    ASSUME NEW s \in Seq(Bucket), NEW n, NEW f \in 1..(Len(s) + 1), NEW e, Kept(s, n, f, e)
    PROVE  /\ e \in Seq(Bucket) /\ Len(e) = Len(s) + 2 - f
           /\ Len(e) \in 1..Len(e) /\ e[Len(e)] = n
           /\ \A k \in 1..Len(e) :
                 \/ k = Len(e) /\ e[k] = n
                 \/ k + f - 1 \in 1..Len(s) /\ e[k] = s[k + f - 1]
<1>1. /\ e \in Seq(Bucket) /\ Len(e) = Len(s) + 2 - f /\ Len(s) \in Nat /\ Len(e) \in Nat
      /\ \A k \in 1..Len(e) : e[k] = IF k + f - 1 <= Len(s) THEN s[k + f - 1] ELSE n
  BY DEF Kept
<1>2. Len(e) \in 1..Len(e) /\ e[Len(e)] = n
  BY <1>1
<1>3. ASSUME NEW k \in 1..Len(e)
      PROVE  \/ k = Len(e) /\ e[k] = n
             \/ k + f - 1 \in 1..Len(s) /\ e[k] = s[k + f - 1]
  <2> DEFINE l == Len(s)
             m == Len(e)
  <2>1. l \in Nat /\ m = l + 2 - f /\ k \in 1..m /\ f \in 1..(l + 1)
    BY <1>1
  <2>2. e[k] = IF k + f - 1 <= l THEN s[k + f - 1] ELSE n
    BY <1>1
  <2> HIDE DEF l, m
  <2>3. CASE k + f - 1 <= l
    <3>1. k + f - 1 \in 1..l
      BY <2>1, <2>3
    <3> QED
      BY <2>2, <2>3, <3>1 DEF l
  <2>4. CASE ~ (k + f - 1 <= l)
    <3>1. k = m
      BY <2>1, <2>4
    <3> QED
      BY <2>2, <2>4, <3>1 DEF m
  <2> QED
    BY <2>3, <2>4
<1> QED
  BY <1>1, <1>2, <1>3

LEMMA PushKeepsApart ==
    ASSUME Typed, KInv, NEW b \in Builders, Push(b)
    PROVE  KInv'
<1>1. /\ lastPush' = [at |-> now[b], vals |-> read[b]]
      /\ now[b] \in Nat /\ buckets \in Seq(Bucket)
      /\ \A k \in 1..Len(buckets) : buckets[k].vals \in MapsInUse
  BY AtPush
<1>2. Apart(buckets)
  BY DEF KInv
<1>3. CASE Merges(buckets, now[b])
  BY <1>1, <1>2, <1>3 DEF Push, Merges, KInv, LastPush
<1>4. CASE ~ Merges(buckets, now[b])
  <2>1. PICK n \in Bucket, f \in 1..(Len(buckets) + 1) :
           /\ n.ts = Truncate(now[b]) /\ n.vals \notin MapsInUse
           /\ Kept(buckets, n, f, buckets')
    BY <1>4, AtExtend
  <2>2. /\ buckets' \in Seq(Bucket)
        /\ Len(buckets') \in 1..Len(buckets') /\ buckets'[Len(buckets')] = n
        /\ \A k \in 1..Len(buckets') :
              \/ k = Len(buckets') /\ buckets'[k] = n
              \/ k + f - 1 \in 1..Len(buckets) /\ buckets'[k] = buckets[k + f - 1]
    BY <1>1, <2>1, KeptBuckets
  <2>3. Apart(buckets')
    <3> SUFFICES ASSUME NEW i \in 1..Len(buckets'), NEW j \in 1..Len(buckets'), i < j
                 PROVE  buckets'[i].vals /= buckets'[j].vals
      <4>1. \A i, j \in 1..Len(buckets') : i /= j => i < j \/ j < i
        OBVIOUS
      <4> QED
        BY <4>1 DEF Apart
    <3>1. i + f - 1 \in 1..Len(buckets) /\ buckets'[i] = buckets[i + f - 1]
      BY <2>2
    <3>2. CASE j = Len(buckets') /\ buckets'[j] = n
      BY <1>1, <2>1, <3>1, <3>2
    <3>3. CASE j + f - 1 \in 1..Len(buckets) /\ buckets'[j] = buckets[j + f - 1]
      <4>1. i + f - 1 /= j + f - 1
        OBVIOUS
      <4> QED
        BY <1>2, <3>1, <3>3, <4>1 DEF Apart
    <3> QED
      BY <2>2, <3>2, <3>3
  <2>4. LastPush'
    <3>1. buckets' /= <<>>
      BY <2>2
    <3> QED
      BY <1>1, <2>1, <2>2, <3>1 DEF LastPush
  <2> QED
    BY <2>3, <2>4 DEF KInv
<1> QED
  BY <1>3, <1>4

\* A push that is not late is a step of the window.
LEMMA PushInOrder ==
    ASSUME Typed, KInv, NEW b \in Builders, Push(b), InOrder,
           Truncate(now[b]) >= Truncate(lastPush.at)
    PROVE  /\ InOrder'
           /\ \/ Updates(Samples, Samples', Truncate(lastPush'.at), lastPush'.vals)
              \/ Adds(Samples, Samples', Truncate(lastPush'.at), lastPush'.at, lastPush'.vals)
<1>1. /\ lastPush' = [at |-> now[b], vals |-> read[b]]
      /\ now[b] \in Nat /\ buckets \in Seq(Bucket)
      /\ Truncate(now[b]) \in Nat /\ Truncate(lastPush.at) \in Nat
      /\ \A k \in 1..Len(buckets) : /\ buckets[k].ts \in Nat
                                    /\ buckets[k].vals \in DOMAIN maps \cap MapsInUse
  BY AtPush
<1>2. Increasing(buckets) /\ Apart(buckets) /\ LastPush
  BY InOrderMeansIncreasing DEF KInv
<1>3. CASE Merges(buckets, now[b])
  <2>1. /\ buckets' = buckets /\ buckets /= <<>> /\ buckets[Len(buckets)].ts = Truncate(now[b])
        /\ maps' = [maps EXCEPT ![buckets[Len(buckets)].vals] = Overlaid(@, read[b])]
    BY <1>3 DEF Push, Merges
  <2>2. Updates(SamplesOf(buckets, maps), SamplesOf(buckets, maps'), buckets[Len(buckets)].ts, read[b])
    <3>1. \A k \in 1..Len(buckets) : buckets[k].vals \in DOMAIN maps
      BY <1>1
    <3> QED
      BY <1>1, <1>2, <2>1, <3>1, MergedSamples, Zenon
  <2>3. Samples' = SamplesOf(buckets, maps')
    BY <2>1 DEF Samples
  <2>4. InOrder'
    BY <2>1 DEF InOrder
  <2> QED
    BY <1>1, <2>1, <2>2, <2>3, <2>4 DEF Samples
<1>4. CASE ~ Merges(buckets, now[b])
  <2>1. PICK n \in Bucket, f \in 1..(Len(buckets) + 1) :
           /\ n.ts = Truncate(now[b])
           /\ FirstKept(buckets, now[b], f) /\ Kept(buckets, n, f, buckets')
           /\ maps'[n.vals] = read[b]
           /\ \A m \in MapsInUse \cap DOMAIN maps : maps'[m] = maps[m]
    BY <1>4, AtExtend
  <2>2. \A k \in 1..Len(buckets) : buckets[k].ts < n.ts
    <3> SUFFICES ASSUME NEW k \in 1..Len(buckets) PROVE buckets[k].ts < n.ts
      OBVIOUS
    <3>1. buckets /= <<>> /\ Len(buckets) \in 1..Len(buckets)
      BY <1>1
    <3>2. buckets[Len(buckets)].ts = Truncate(lastPush.at)
      BY <1>2, <3>1 DEF LastPush
    <3>3. buckets[Len(buckets)].ts /= Truncate(now[b])
      BY <1>4, <3>1 DEF Merges
    <3>4. buckets[k].ts <= buckets[Len(buckets)].ts
      <4>1. k = Len(buckets) \/ k < Len(buckets)
        BY <1>1
      <4> QED
        BY <1>1, <1>2, <3>1, <4>1 DEF Increasing
    <3> QED
      BY <1>1, <2>1, <3>1, <3>2, <3>3, <3>4
  <2>3. \A k \in 1..Len(buckets) : maps'[buckets[k].vals] = maps[buckets[k].vals]
    BY <1>1, <2>1
  <2>4. /\ Increasing(buckets')
        /\ Adds(SamplesOf(buckets, maps), SamplesOf(buckets', maps'), n.ts, now[b], read[b])
    BY <1>1, <1>2, <2>1, <2>2, <2>3, AddedSamples, Zenon
  <2>5. InOrder'
    BY <2>4 DEF InOrder, Increasing
  <2>6. Samples' = SamplesOf(buckets', maps') /\ Samples = SamplesOf(buckets, maps)
    BY DEF Samples
  <2>7. lastPush'.at = now[b] /\ lastPush'.vals = read[b] /\ n.ts = Truncate(lastPush'.at)
    BY <1>1, <2>1
  <2> QED
    BY <2>4, <2>5, <2>6, <2>7
<1> QED
  BY <1>3, <1>4

\* A late push leaves its bucket behind one of a later period.
LEMMA PushLate ==
    ASSUME Typed, KInv, NEW b \in Builders, Push(b),
           Truncate(now[b]) < Truncate(lastPush.at)
    PROVE  ~ InOrder'
<1>1. /\ now[b] \in Nat /\ buckets \in Seq(Bucket) /\ LastPush
      /\ Truncate(now[b]) \in Nat /\ Truncate(now[b]) + WindowSec >= now[b]
      /\ Truncate(lastPush.at) \in Nat
  BY AtPush DEF KInv
<1>2. buckets /= <<>>
  <2>1. Truncate(0) = 0
    BY TruncateFacts
  <2> QED
    BY <1>1, <2>1 DEF LastPush
<1>3. Len(buckets) \in 1..Len(buckets) /\ buckets[Len(buckets)].ts = Truncate(lastPush.at)
  BY <1>1, <1>2 DEF LastPush
<1>4. ~ Merges(buckets, now[b])
  BY <1>1, <1>3 DEF Merges
<1>5. PICK n \in Bucket, f \in 1..(Len(buckets) + 1) :
         /\ n.ts = Truncate(now[b])
         /\ FirstKept(buckets, now[b], f) /\ Kept(buckets, n, f, buckets')
  BY <1>4, AtExtend
<1>6. f <= Len(buckets)
  <2>1. SUFFICES ASSUME f = Len(buckets) + 1 PROVE FALSE
    BY <1>1
  <2>2. buckets[Len(buckets)].ts + WindowSec < now[b]
    BY <1>3, <1>5, <2>1 DEF FirstKept
  <2> QED
    BY <1>1, <1>3, <2>2, WindowAssumption
<1>7. /\ Len(buckets') = Len(buckets) + 2 - f /\ buckets'[Len(buckets')] = n
      /\ \A k \in 1..Len(buckets') :
            \/ k = Len(buckets') /\ buckets'[k] = n
            \/ k + f - 1 \in 1..Len(buckets) /\ buckets'[k] = buckets[k + f - 1]
  BY <1>1, <1>5, KeptBuckets
<1> DEFINE j == Len(buckets') - 1
<1>8. j \in 1..Len(buckets') /\ Len(buckets') \in 1..Len(buckets') /\ j < Len(buckets')
      /\ j + f - 1 = Len(buckets)
  BY <1>1, <1>6, <1>7
<1>9. buckets'[j] = buckets[Len(buckets)]
  BY <1>7, <1>8
<1>10. ~ (buckets'[j].ts < buckets'[Len(buckets')].ts)
  BY <1>1, <1>3, <1>5, <1>7, <1>9
<1> QED
  BY <1>8, <1>10 DEF InOrder

\* Buckets that are in order again are young enough, and the newest has what was pushed.
LEMMA PushRecovers ==
    ASSUME Typed, KInv, NEW b \in Builders, Push(b), ~ InOrder, InOrder'
    PROVE  /\ \A p \in DOMAIN Samples' : p + WindowSec >= lastPush'.at
           /\ Truncate(lastPush'.at) \in DOMAIN Samples'
           /\ Samples'[Truncate(lastPush'.at)] = lastPush'.vals
<1>1. /\ lastPush' = [at |-> now[b], vals |-> read[b]]
      /\ now[b] \in Nat /\ buckets \in Seq(Bucket)
  BY AtPush
<1>2. ~ Merges(buckets, now[b])
  BY DEF Push, InOrder
<1>3. PICK n \in Bucket, f \in 1..(Len(buckets) + 1) :
         /\ n.ts = Truncate(now[b])
         /\ Kept(buckets, n, f, buckets') /\ maps'[n.vals] = read[b]
  BY <1>2, AtExtend
<1>4. /\ buckets' \in Seq(Bucket)
      /\ Len(buckets') \in 1..Len(buckets') /\ buckets'[Len(buckets')] = n
  <2>1. buckets' \in Seq(Bucket) /\ Len(buckets') = Len(buckets) + 2 - f
    BY <1>3 DEF Kept
  <2>2. \A k \in 1..Len(buckets') :
           buckets'[k] = IF k + f - 1 <= Len(buckets) THEN buckets[k + f - 1] ELSE n
    BY <1>3 DEF Kept
  <2> QED
    BY <1>1, <2>1, <2>2
<1>5. Increasing(buckets')
  BY DEF InOrder, Increasing
<1>6. buckets'[1].ts + WindowSec >= now[b]
  <2>1. buckets' = Extend(buckets, now[b], FreshMap) /\ FreshMap \in Nat
    BY <1>2, FreshMapIsFresh DEF Push, Typed
  <2> QED
    BY <1>1, <2>1, FrontAfterExtend
<1>7. \A k \in 1..Len(buckets') : buckets'[k].ts + WindowSec >= now[b]
  <2> SUFFICES ASSUME NEW k \in 1..Len(buckets') PROVE buckets'[k].ts + WindowSec >= now[b]
    OBVIOUS
  <2>1. buckets'[k].ts \in Nat /\ 1 \in 1..Len(buckets') /\ buckets'[1].ts \in Nat
    BY <1>4, BucketAt
  <2>2. k = 1 \/ buckets'[1].ts < buckets'[k].ts
    BY <1>5, <2>1 DEF Increasing
  <2> QED
    BY <1>1, <1>6, <2>1, <2>2, WindowAssumption
<1>8. /\ DOMAIN SamplesOf(buckets', maps') = {buckets'[k].ts : k \in 1..Len(buckets')}
      /\ \A k \in 1..Len(buckets') : SamplesOf(buckets', maps')[buckets'[k].ts] = maps'[buckets'[k].vals]
  BY <1>4, <1>5, SampleAt
<1>9. Samples' = SamplesOf(buckets', maps') /\ lastPush'.at = now[b] /\ lastPush'.vals = read[b]
  BY <1>1 DEF Samples
<1> QED
  BY <1>3, <1>4, <1>7, <1>8, <1>9

LEMMA PushKeepsWindow ==
    ASSUME Typed, KInv, NEW b \in Builders, Push(b)
    PROVE  W!Next
<1>1. \A old, new : W!Overlay(old, new) = Overlaid(old, new)
  BY DEF W!Overlay, Overlaid
<1>2. \A t : W!Period(t) = Truncate(t)
  BY DEF W!Period, Truncate
<1>3. /\ lastPush'.at = now[b] /\ Truncate(now[b]) \in Nat /\ Truncate(lastPush.at) \in Nat
  BY AtPush
<1>4. CASE InOrder /\ Truncate(now[b]) >= Truncate(lastPush.at)
  <2>1. /\ InOrder'
        /\ \/ Updates(Samples, Samples', Truncate(lastPush'.at), lastPush'.vals)
           \/ Adds(Samples, Samples', Truncate(lastPush'.at), lastPush'.at, lastPush'.vals)
    BY <1>4, PushInOrder
  <2>2. ASSUME Updates(Samples, Samples', Truncate(lastPush'.at), lastPush'.vals)
        PROVE  W!Update(lastPush'.at, lastPush'.vals)
    BY <1>1, <1>2, <2>2 DEF Updates, W!Update, Samples, SamplesOf
  <2>3. ASSUME Adds(Samples, Samples', Truncate(lastPush'.at), lastPush'.at, lastPush'.vals)
        PROVE  W!Add(lastPush'.at, lastPush'.vals)
    BY <2>3, Zenon DEF Adds, W!Add, W!Period, Truncate, Samples, SamplesOf
  <2>4. W!Take
    BY <1>2, <1>3, <1>4, <2>1, <2>2, <2>3 DEF W!Take
  <2> QED
    BY <2>4 DEF W!Next
<1>5. CASE InOrder /\ Truncate(now[b]) < Truncate(lastPush.at)
  <2>1. ~ InOrder'
    BY <1>5, PushLate
  <2>2. W!TakeLate
    BY <1>2, <1>3, <1>5, <2>1 DEF W!TakeLate
  <2> QED
    BY <2>2 DEF W!Next
<1>6. CASE ~ InOrder
  <2>1. InOrder' => /\ \A p \in DOMAIN Samples' : p + WindowSec >= lastPush'.at
                    /\ Truncate(lastPush'.at) \in DOMAIN Samples'
                    /\ Samples'[Truncate(lastPush'.at)] = lastPush'.vals
    BY <1>6, PushRecovers
  <2>2. W!Recover
    BY <1>2, <1>6, <2>1 DEF W!Recover, Samples, SamplesOf
  <2> QED
    BY <2>2 DEF W!Next
<1> QED
  BY <1>3, <1>4, <1>5, <1>6

\* Every step but a push.
LEMMA RingStays ==
    ASSUME Tick \/ (\E s \in Slots : CounterGrows(s) \/ CounterStarts(s) \/ SlotDropped(s))
             \/ (\E b \in Builders : Build(b) /\ ~ Push(b)) \/ UNCHANGED vars
    PROVE  UNCHANGED <<buckets, maps, lastPush>>
BY DEF Tick, CounterGrows, CounterStarts, SlotDropped, Build, Read, Stamp, Oldest, Diff,
       Finish, vars, ring

LEMMA NextWindow == Typed /\ KInv /\ [Next]_vars => KInv' /\ [W!Next]_<<Samples, lastPush, InOrder>>
<1> SUFFICES ASSUME Typed, KInv, [Next]_vars
             PROVE  KInv' /\ [W!Next]_<<Samples, lastPush, InOrder>>
  OBVIOUS
<1>1. CASE \E b \in Builders : Push(b)
  BY <1>1, PushKeepsApart, PushKeepsWindow
<1>2. CASE UNCHANGED <<buckets, maps, lastPush>>
  BY <1>2 DEF KInv, LastPush, Apart, Samples, InOrder
<1> QED
  BY <1>1, <1>2, RingStays DEF Next
-----------------------------------------------------------------------------
(***************************************************************************)
(* With one build at a time no sample is late.                             *)
(***************************************************************************)
Single == \A b, e \in Builders : b = e

OInv == /\ InOrder
        /\ lastPush.at <= clock
        /\ \A b \in Builders : pc[b] = "push" => lastPush.at <= now[b]

LEMMA InitOrder == Init => OInv
<1> SUFFICES ASSUME Init PROVE OInv
  OBVIOUS
<1>1. 1..Len(buckets) = {}
  BY DEF Init
<1> QED
  BY <1>1 DEF Init, OInv, InOrder

LEMMA NextOrder ==
    ASSUME Single
    PROVE  Typed /\ KInv /\ OInv /\ [Next]_vars => OInv'
<1> SUFFICES ASSUME Typed, KInv, OInv, [Next]_vars PROVE OInv'
  OBVIOUS
<1>1. TypedPg /\ TypedRing /\ TypedBuilds
  BY DEF Typed
<1>2. CASE \E b \in Builders : Push(b)
  <2>1. PICK b \in Builders : Push(b)
    BY <1>2
  <2>2. pc[b] = "push" /\ clock' = clock /\ lastPush'.at = now[b]
    BY <2>1 DEF Push, Pushed
  <2>3. now[b] \in Nat /\ lastPush.at \in Nat /\ lastPush.at <= now[b] /\ now[b] <= clock
    BY <1>1, <2>1, <2>2, AtPush DEF OInv, TypedBuilds
  <2>4. Truncate(lastPush.at) <= Truncate(now[b]) /\ Truncate(lastPush.at) \in Nat /\ Truncate(now[b]) \in Nat
    BY <2>1, <2>3, AtPush, TruncateMonotone
  <2>5. InOrder'
    BY <2>1, <2>4, PushInOrder DEF OInv
  <2>6. \A e \in Builders : pc'[e] = "oldest"
    BY <1>1, <2>1 DEF Single, Push, Goto, TypedBuilds
  <2> QED
    BY <2>2, <2>3, <2>5, <2>6 DEF OInv
<1>3. CASE \/ Tick \/ (\E s \in Slots : CounterGrows(s) \/ CounterStarts(s) \/ SlotDropped(s))
           \/ (\E b \in Builders : Build(b) /\ ~ Push(b)) \/ UNCHANGED vars
  <2>1. UNCHANGED <<buckets, maps, lastPush>>
    BY <1>3, RingStays
  <2>2. clock' \in {clock, clock + 1} /\ clock \in Nat /\ lastPush.at \in Nat
    <3>1. clock' = clock \/ clock' = clock + 1
      BY <1>3 DEF Tick, CounterGrows, CounterStarts, SlotDropped, Build, Read, Stamp, Oldest,
                  Diff, Finish, vars
    <3> QED
      BY <1>1, <3>1 DEF TypedPg, KInv, LastPush
  <2>3. \A e \in Builders : pc'[e] = "push" => (pc[e] = "push" /\ now'[e] = now[e]) \/ now'[e] = clock
    <3>1. CASE Tick \/ (\E s \in Slots : CounterGrows(s) \/ CounterStarts(s) \/ SlotDropped(s))
                 \/ UNCHANGED vars
      BY <3>1 DEF Tick, CounterGrows, CounterStarts, SlotDropped, vars, locals
    <3>2. ASSUME NEW b \in Builders, Build(b), ~ Push(b)
          PROVE  \A e \in Builders : pc'[e] = "push" => (pc[e] = "push" /\ now'[e] = now[e]) \/ now'[e] = clock
      BY <1>1, <3>2 DEF TypedBuilds, Build, Read, Stamp, Oldest, Diff, Finish, Goto, locals
    <3> QED
      BY <1>3, <3>1, <3>2
  <2> QED
    BY <2>1, <2>2, <2>3 DEF OInv, InOrder
<1> QED
  BY <1>2, <1>3 DEF Next
-----------------------------------------------------------------------------
(***************************************************************************)
(* The theorems.                                                           *)
(***************************************************************************)

\* The facts that the steps preserve together, for any number of builders.
THEOREM SlotDelta_Invariance == Spec => [](Typed /\ WInv /\ VInv /\ KInv)
<1>1. Init => Typed /\ WInv /\ VInv /\ KInv
  BY InitTyped, InitNear, InitValues, InitWindow
<1>2. Typed /\ WInv /\ VInv /\ KInv /\ [Next]_vars => (Typed /\ WInv /\ VInv /\ KInv)'
  BY NextTyped, NextNear, NextValues, NextWindow
<1> QED
  BY <1>1, <1>2, PTL DEF Spec

\* Buckets start on periods that are not in the future, and the map a build will
\* read is still there: no expiry or reuse takes it away.
THEOREM SlotDelta_Type == Spec => []TypeOK
BY SlotDelta_Invariance, TypedMeansTypeOK, PTL

\* A difference counts from at most a window and a period back, however many
\* builds interleave and in whatever order their samples reach the ring.
THEOREM SlotDelta_WindowBounded == Spec => []WindowBounded
<1>1. WInv => WindowBounded
  BY DEF WInv
<1> QED
  BY <1>1, SlotDelta_Invariance, PTL

\* A negative difference means a reset, a new slot, or a push of another build
\* between this one's read and its difference: nothing else that builds do to the
\* ring makes one, however many there are.
THEOREM SlotDelta_NegativeOnlyAfterReset == Spec => []NegativeOnlyAfterReset
<1>1. VInv => NegativeOnlyAfterReset
  BY DEF VInv
<1> QED
  BY <1>1, SlotDelta_Invariance, PTL

\* The ring is the rolling window, for any period, any window at least as long and
\* any number of builds: push, merge and expiry are its steps, a push puts it out of
\* order only by coming late, and when it is in order again nothing in it is too old.
THEOREM SlotDelta_KeepsWindow == Spec => KeepsWindow
<1>1. Init => W!Init
  BY InitWindow
<1>2. Typed /\ KInv /\ [Next]_vars => [W!Next]_<<Samples, lastPush, InOrder>>
  BY NextWindow
<1>3. Spec => W!Init /\ [][W!Next]_<<Samples, lastPush, InOrder>>
  BY <1>1, <1>2, SlotDelta_Invariance, PTL DEF Spec
<1> QED
  BY <1>3, PTL DEF KeepsWindow, W!Spec, Samples, SamplesOf

\* While builds of a node take turns no sample is late: the ring is then the window
\* at all times.
THEOREM SlotDelta_SingleInOrder ==
    ASSUME Single
    PROVE  Spec => []InOrder
<1>1. Init => OInv
  BY InitOrder
<1>2. Typed /\ KInv /\ OInv /\ [Next]_vars => OInv'
  BY NextOrder
<1>3. OInv => InOrder
  BY DEF OInv
<1> QED
  BY <1>1, <1>2, <1>3, SlotDelta_Invariance, PTL DEF Spec
=============================================================================
