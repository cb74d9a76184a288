----------------------------- MODULE SlotDelta -----------------------------
(***************************************************************************)
(* The slot statistics of buildLogical: PostgreSQL's cumulative counters   *)
(* of each replication slot are read, pushed into the node's ring, and     *)
(* subtracted from those of the ring's oldest bucket.  One counter stands  *)
(* for the eight of a slot, which are read and stored together.            *)
(*                                                                         *)
(* The builds of one node (the ticker's and those of snapshot requests)    *)
(* share its ring.  Ring.mu protects the sequence of buckets; Oldest hands *)
(* out the bucket's map, which is then read without the lock, so maps are  *)
(* kept apart from the buckets that refer to them.                         *)
(*                                                                         *)
(* PostgreSQL is external: a counter grows, goes back to zero when the     *)
(* statistics are reset, and goes away with its slot.                      *)
(***************************************************************************)
EXTENDS Ring, FiniteSets

CONSTANTS
    Slots,
    Builders,    \* goroutines that build snapshots of the node
    MaxTime,     \* bound: seconds in a behaviour
    MaxCount,    \* bound: value of a counter
    MaxResets    \* bound: times a slot's counters start again from zero

ASSUME BuildersAssumption == IsFiniteSet(Builders)
ASSUME BoundAssumption == MaxTime \in Nat /\ MaxCount \in Nat \ {0} /\ MaxResets \in Nat

VARIABLES
    clock,
    counters,    \* pg_stat_replication_slots: slot -> count and incarnation
    resets,      \* slot -> times its counters have been reset or recreated
    buckets,     \* Ring.buckets; .vals names a map
    maps,        \* the maps: slot -> count and incarnation
    pc,          \* "idle", "stamp", "push", "oldest", "diff" or "done"
    read,        \* slotCounters of each build
    now,         \* now of each build
    base,        \* the bucket that Oldest returned, its map by name
    stat,        \* the diffs of each build: slot -> difference, window, pair compared
    lastPush,    \* history: the time and the values of the latest push
    raced        \* history: the builds that another's push met between their read and
                 \* their difference

ring   == <<buckets, maps, lastPush, raced>>
pg     == <<counters, resets>>
locals == <<read, now, base, stat>>
vars   == <<clock, pg, ring, pc, locals>>

Nothing == [s \in {} |-> 0]
NoBase  == [ts |-> 0, vals |-> 0]

MapsInUse == {buckets[k].vals : k \in 1..Len(buckets)} \cup {base[b].vals : b \in Builders}

\* The name of a map that is not in use: there is one among so many.
FreshMap == CHOOSE m \in 1..(Cardinality(MapsInUse) + 1) : m \notin MapsInUse

\* make(map): a new map with these values; those no longer in use are collected.
MapsWith(vals) ==
    [m \in (MapsInUse \cap DOMAIN maps) \cup {FreshMap} |->
        IF m = FreshMap THEN vals ELSE maps[m]]

Goto(b, l) == pc' = [pc EXCEPT ![b] = l]

Init ==
    /\ clock = 0
    /\ \E present \in SUBSET Slots : counters = [s \in present |-> [n |-> 1, life |-> 0]]
    /\ resets = [s \in Slots |-> 0]
    /\ buckets = <<>>
    /\ maps = Nothing
    /\ pc = [b \in Builders |-> "idle"]
    /\ read = [b \in Builders |-> Nothing]
    /\ now = [b \in Builders |-> 0]
    /\ base = [b \in Builders |-> NoBase]
    /\ stat = [b \in Builders |-> Nothing]
    /\ lastPush = [at |-> 0, vals |-> Nothing]
    /\ raced = {}
-----------------------------------------------------------------------------
(***************************************************************************)
(* PostgreSQL and the clock.                                               *)
(***************************************************************************)
Tick ==
    /\ clock < MaxTime
    /\ clock' = clock + 1
    /\ UNCHANGED <<pg, ring, pc, locals>>

CounterGrows(s) ==
    /\ s \in DOMAIN counters
    /\ counters[s].n < MaxCount
    /\ counters' = [counters EXCEPT ![s].n = @ + 1]
    /\ UNCHANGED <<clock, resets, ring, pc, locals>>

\* pg_stat_reset_replication_slot, or a new slot of the name.
CounterStarts(s) ==
    /\ resets[s] < MaxResets
    /\ resets' = [resets EXCEPT ![s] = @ + 1]
    /\ counters' = [t \in DOMAIN counters \cup {s} |->
                       IF t = s THEN [n |-> 0, life |-> resets[s] + 1] ELSE counters[t]]
    /\ UNCHANGED <<clock, ring, pc, locals>>

SlotDropped(s) ==
    /\ s \in DOMAIN counters
    /\ counters' = [t \in DOMAIN counters \ {s} |-> counters[t]]
    /\ UNCHANGED <<clock, resets, ring, pc, locals>>
-----------------------------------------------------------------------------
(***************************************************************************)
(* A build.                                                                *)
(***************************************************************************)

\* queryReplicationSlotCounters.
Read(b) ==
    /\ pc[b] = "idle"
    /\ read' = [read EXCEPT ![b] = counters]
    /\ Goto(b, "stamp")
    /\ UNCHANGED <<clock, pg, ring, now, base, stat>>

\* now := time.Now(), before the ring is locked.
Stamp(b) ==
    /\ pc[b] = "stamp"
    /\ now' = [now EXCEPT ![b] = clock]
    /\ Goto(b, "push")
    /\ UNCHANGED <<clock, pg, ring, read, base, stat>>

Overlaid(old, new) ==
    [k \in DOMAIN old \cup DOMAIN new |-> IF k \in DOMAIN new THEN new[k] ELSE old[k]]

UnderWay(b) == pc[b] \in {"stamp", "push", "oldest", "diff"}

\* What a push is remembered by.
Pushed(b) ==
    /\ lastPush' = [at |-> now[b], vals |-> read[b]]
    /\ raced' = raced \cup {e \in Builders \ {b} : UnderWay(e)}

\* (mutant) A push into the newest period is dropped instead of merged.
PushOncePerBucket(b) ==
    /\ pc[b] = "push"
    /\ IF Merges(buckets, now[b])
         THEN UNCHANGED <<buckets, maps>>
         ELSE /\ maps' = MapsWith(read[b])
              /\ buckets' = Extend(buckets, now[b], FreshMap)
    /\ Pushed(b)
    /\ Goto(b, "oldest")
    /\ UNCHANGED <<clock, pg, locals>>

\* (mutant) A push adds a bucket and never expires one.
PushForever(b) ==
    /\ pc[b] = "push"
    /\ IF Merges(buckets, now[b])
         THEN /\ maps' = [maps EXCEPT ![buckets[Len(buckets)].vals] = Overlaid(@, read[b])]
              /\ UNCHANGED buckets
         ELSE /\ maps' = MapsWith(read[b])
              /\ buckets' = Append(buckets, [ts |-> Truncate(now[b]), vals |-> FreshMap])
    /\ Pushed(b)
    /\ Goto(b, "oldest")
    /\ UNCHANGED <<clock, pg, locals>>

\* r.Push: into the map of the newest bucket, or with the build's own map as a new one.
Push(b) ==
    /\ pc[b] = "push"
    /\ IF Merges(buckets, now[b])
         THEN /\ maps' = [maps EXCEPT ![buckets[Len(buckets)].vals] = Overlaid(@, read[b])]
              /\ UNCHANGED buckets
         ELSE /\ maps' = MapsWith(read[b])
              /\ buckets' = Extend(buckets, now[b], FreshMap)
    /\ Pushed(b)
    /\ Goto(b, "oldest")
    /\ UNCHANGED <<clock, pg, locals>>

\* r.Oldest: the bucket is copied, its map is shared.
Oldest(b) ==
    /\ pc[b] = "oldest"
    /\ base' = [base EXCEPT ![b] = OldestOf(buckets)]
    /\ Goto(b, "diff")
    /\ UNCHANGED <<clock, pg, ring, read, now, stat>>

\* A slot the oldest bucket has not seen is compared with zero.
Baseline(old, s) == IF s \in DOMAIN old THEN old[s] ELSE [n |-> 0, life |-> -1]

\* (mutant) The difference is taken the wrong way round.
DiffBackwards(b) ==
    /\ pc[b] = "diff"
    /\ stat' = [stat EXCEPT ![b] =
          [s \in DOMAIN read[b] |->
             LET old == Baseline(maps[base[b].vals], s) IN
             [d |-> old.n - read[b][s].n,
              win |-> IF now[b] - base[b].ts < 1 THEN 1 ELSE now[b] - base[b].ts,
              from |-> old.life, to |-> read[b][s].life]]]
    /\ Goto(b, "done")
    /\ UNCHANGED <<clock, pg, ring, read, now, base>>

\* The loop over slotCounters; a window is at least a second long.
Diff(b) ==
    /\ pc[b] = "diff"
    /\ stat' = [stat EXCEPT ![b] =
          [s \in DOMAIN read[b] |->
             LET old == Baseline(maps[base[b].vals], s) IN
             [d |-> read[b][s].n - old.n,
              win |-> IF now[b] - base[b].ts < 1 THEN 1 ELSE now[b] - base[b].ts,
              from |-> old.life, to |-> read[b][s].life]]]
    /\ Goto(b, "done")
    /\ UNCHANGED <<clock, pg, ring, read, now, base>>

\* The snapshot is delivered and the build's locals are garbage.
Finish(b) ==
    /\ pc[b] = "done"
    /\ read' = [read EXCEPT ![b] = Nothing]
    /\ now' = [now EXCEPT ![b] = 0]
    /\ base' = [base EXCEPT ![b] = NoBase]
    /\ stat' = [stat EXCEPT ![b] = Nothing]
    /\ Goto(b, "idle")
    /\ raced' = raced \ {b}
    /\ UNCHANGED <<clock, pg, buckets, maps, lastPush>>

Build(b) == Read(b) \/ Stamp(b) \/ Push(b) \/ Oldest(b) \/ Diff(b) \/ Finish(b)

Next ==
    \/ Tick
    \/ \E s \in Slots : CounterGrows(s) \/ CounterStarts(s) \/ SlotDropped(s)
    \/ \E b \in Builders : Build(b)

Spec == Init /\ [][Next]_vars
-----------------------------------------------------------------------------
(***************************************************************************)
(* Properties.                                                             *)
(***************************************************************************)
Counts == UNION {[S -> [n : 0..MaxCount, life : 0..MaxResets]] : S \in SUBSET Slots}

\* The ring's buckets start on period boundaries, and name maps that exist.
TypeOK ==
    /\ clock \in 0..MaxTime
    /\ counters \in Counts
    /\ resets \in [Slots -> 0..MaxResets]
    /\ \A k \in 1..Len(buckets) :
          /\ buckets[k].ts \in 0..clock /\ buckets[k].ts % BucketSec = 0
          /\ buckets[k].vals \in DOMAIN maps
    /\ DOMAIN maps \subseteq Nat \ {0} /\ \A m \in DOMAIN maps : maps[m] \in Counts
    /\ pc \in [Builders -> {"idle", "stamp", "push", "oldest", "diff", "done"}]
    /\ read \in [Builders -> Counts]
    /\ now \in [Builders -> 0..MaxTime]
    /\ raced \subseteq Builders
    /\ \A b \in Builders :
          /\ base[b].ts \in 0..clock
          /\ base[b].vals \in DOMAIN maps \/ (pc[b] /= "diff" /\ base[b].vals \in Nat)

\* A difference never counts from further back than the window and one period,
\* also after a time in which the node was not read.
WindowBounded ==
    \A b \in Builders : \A s \in DOMAIN stat[b] :
        stat[b][s].win \in 1..(WindowSec + BucketSec - 1)

\* A counter goes down only by a reset or a new slot since the baseline was read,
\* unless another build pushed what it read while this one was under way: no other
\* order of reads, merges and expiries makes a rate negative.
NegativeOnlyAfterReset ==
    \A b \in Builders \ raced : \A s \in DOMAIN stat[b] :
        stat[b][s].d < 0 => stat[b][s].from < stat[b][s].to

\* No bucket was pushed after one of a later period, or of its own.
InOrder == \A j, k \in 1..Len(buckets) : j < k => buckets[j].ts < buckets[k].ts

\* The ring implements the window: one sample for each period, its values the latest
\* that were pushed, and no period kept too long or dropped too early.  Only a sample
\* that waited for the lock while a later period began puts the buckets out of order,
\* and when they are in order again all of them are young enough.
W == INSTANCE Window WITH
        Length <- WindowSec,
        samples <- [t \in {buckets[k].ts : k \in 1..Len(buckets)} |->
                      maps[buckets[CHOOSE k \in 1..Len(buckets) : buckets[k].ts = t].vals]],
        last <- lastPush,
        ordered <- InOrder

KeepsWindow == W!Spec

\* docs/architecture.md:86 says that the ring is safe for concurrent use.  The
\* map of a bucket is read outside the lock while another build's push may
\* write to it, which Go answers by ending the process.
ValuesGuarded ==
    \A b, e \in Builders :
        (pc[b] = "diff" /\ pc[e] = "push" /\ Merges(buckets, now[e]))
            => base[b].vals /= buckets[Len(buckets)].vals
=============================================================================
