---------------------------- MODULE PanelsProofs ----------------------------
(***************************************************************************)
(* Proofs about Health and Panels, for all databases, edits and lengths.   *)
(*                                                                         *)
(* What the page shows is a function of a snapshot, the thresholds and the *)
(* rate cards' history.  The inductive invariant says where the three come *)
(* from: the snapshot is one that BuildSnapshot makes of the source, the   *)
(* thresholds are natural numbers, the history is the end of what was      *)
(* delivered.  The properties of the panels then follow row by row.        *)
(***************************************************************************)
EXTENDS Panels, SequenceTheorems, FiniteSetTheorems, TLAPS

(***************************************************************************)
(* Severities and limits.                                                  *)
(***************************************************************************)
\* severityForValue: whatever order the thresholds of a triple are in, a larger value
\* is never shown milder.
THEOREM LargerIsNotMilder ==
    ASSUME NEW v \in Int, NEW w \in Int, v <= w, NEW thr \in [Levels -> Int]
    PROVE  AtLeast(severityForValue(w, thr), severityForValue(v, thr))
<1>1. /\ thr["warn"] \in Int /\ thr["alert"] \in Int /\ thr["critical"] \in Int
  BY DEF Levels
<1>2. /\ severityRank("ok") = 0 /\ severityRank("warn") = 1
      /\ severityRank("alert") = 2 /\ severityRank("critical") = 3
  BY DEF severityRank, Severities
<1> QED
  BY <1>1, <1>2 DEF severityForValue, AtLeast

LEMMA Ranks ==
    /\ severityRank("ok") = 0 /\ severityRank("warn") = 1
    /\ severityRank("alert") = 2 /\ severityRank("critical") = 3
BY DEF severityRank, Severities

\* Of two rows of a panel, the second has no smaller number among the fields fs.
NoSmaller(s, t, fs) == \A f \in fs : s[f] \in Int /\ t[f] \in Int /\ s[f] <= t[f]

NoHealthierRow(s, t) ==
    /\ NoSmaller(s, t, {"total_lag", "retention", "apply_errors", "recv_age"})
    /\ NoSmaller(s.conflicts, t.conflicts, ConflictKinds)
    /\ s.wal_status = t.wal_status

NoHealthierWorker(s, t) == NoSmaller(s, t, {"recv_age"}) /\ (t.alive => s.alive)

NoHealthierReplica(s, t) == NoSmaller(s, t, {"write_lag", "replay_lag"})

NoHealthierSlot(s, t) ==
    /\ NoSmaller(s, t, {"inactive", "unconsumed"})
    /\ s.wal_status = t.wal_status
    /\ t.active => s.active

\* severityOf, workerSeverity, replicaSeverity and slotSeverity, which look at several
\* numbers and at the critical limits first: whatever lag a row has, one that is no
\* healthier in any number never gets a milder badge.
THEOREM WorseIsNotMilder ==
    ASSUME NEW s, NEW t
    PROVE  /\ NoHealthierRow(s, t) => AtLeast(severityOf(t), severityOf(s))
           /\ NoHealthierWorker(s, t) => AtLeast(workerSeverity(t), workerSeverity(s))
           /\ NoHealthierReplica(s, t) => AtLeast(replicaSeverity(t), replicaSeverity(s))
           /\ NoHealthierSlot(s, t) => AtLeast(slotSeverity(t), slotSeverity(s))
<1>1. ASSUME NoHealthierRow(s, t)
      PROVE  AtLeast(severityOf(t), severityOf(s))
  <2>1. ASSUME NEW lag \in Int, NEW retention \in Int, NEW wal, NEW errors \in Int,
               NEW conflicts \in Int, NEW age \in Int,
               Reaches(s, lag, retention, wal, errors, conflicts, age)
        PROVE  Reaches(t, lag, retention, wal, errors, conflicts, age)
    <3>1. /\ s.total_lag \in Int /\ t.total_lag \in Int /\ s.total_lag <= t.total_lag
          /\ s.retention \in Int /\ t.retention \in Int /\ s.retention <= t.retention
          /\ s.apply_errors \in Int /\ t.apply_errors \in Int /\ s.apply_errors <= t.apply_errors
          /\ s.recv_age \in Int /\ t.recv_age \in Int /\ s.recv_age <= t.recv_age
      BY <1>1 DEF NoHealthierRow, NoSmaller
    <3>2. \A k \in ConflictKinds : s.conflicts[k] >= conflicts => t.conflicts[k] >= conflicts
      BY <1>1 DEF NoHealthierRow, NoSmaller
    <3> QED
      BY <1>1, <2>1, <3>1, <3>2 DEF Reaches, NoHealthierRow
  <2>2. 10 * GB \in Int /\ 100 * GB \in Int /\ GB \in Int /\ 50 * GB \in Int
    BY DEF GB, MB
  <2>3. Reaches(s, 10 * GB, 100 * GB, "lost", 50, 100, 1800)
           => Reaches(t, 10 * GB, 100 * GB, "lost", 50, 100, 1800)
    BY <2>1, <2>2
  <2>4. Reaches(s, GB, 50 * GB, "unreserved", 5, 10, 300)
           => Reaches(t, GB, 50 * GB, "unreserved", 5, 10, 300)
    BY <2>1, <2>2
  <2> QED
    BY <2>3, <2>4, Ranks DEF severityOf, AtLeast
<1>2. ASSUME NoHealthierWorker(s, t)
      PROVE  AtLeast(workerSeverity(t), workerSeverity(s))
  <2>1. s.recv_age \in Int /\ t.recv_age \in Int /\ s.recv_age <= t.recv_age /\ (t.alive => s.alive)
    BY <1>2 DEF NoHealthierWorker, NoSmaller
  <2> QED
    BY <2>1, Ranks DEF workerSeverity, AtLeast
<1>3. ASSUME NoHealthierReplica(s, t)
      PROVE  AtLeast(replicaSeverity(t), replicaSeverity(s))
  <2>1. /\ s.replay_lag \in Int /\ t.replay_lag \in Int /\ s.replay_lag <= t.replay_lag
        /\ s.write_lag \in Int /\ t.write_lag \in Int /\ s.write_lag <= t.write_lag
    BY <1>3 DEF NoHealthierReplica, NoSmaller
  <2> QED
    BY <2>1, Ranks DEF replicaSeverity, AtLeast
<1>4. ASSUME NoHealthierSlot(s, t)
      PROVE  AtLeast(slotSeverity(t), slotSeverity(s))
  <2>1. /\ s.inactive \in Int /\ t.inactive \in Int /\ s.inactive <= t.inactive
        /\ s.unconsumed \in Int /\ t.unconsumed \in Int /\ s.unconsumed <= t.unconsumed
        /\ s.wal_status = t.wal_status /\ (t.active => s.active)
    BY <1>4 DEF NoHealthierSlot, NoSmaller
  <2>2. 5 * GB \in Int
    BY DEF GB, MB
  <2> QED
    BY <2>1, <2>2, Ranks DEF slotSeverity, AtLeast
<1> QED
  BY <1>1, <1>2, <1>3, <1>4

\* detectClusterKind: a server is called standalone, and gets no panel but the slots',
\* when it has nothing to do with replication, and also when it has walsenders and
\* just one of publications and subscriptions.
THEOREM StandaloneCases ==
    ASSUME NEW pubs \in Nat, NEW subs \in Nat, NEW reps \in Nat
    PROVE  detectClusterKind(pubs, subs, reps) = "standalone" <=>
              \/ pubs = 0 /\ subs = 0 /\ reps = 0
              \/ reps > 0 /\ ((pubs > 0 /\ subs = 0) \/ (pubs = 0 /\ subs > 0))
BY DEF detectClusterKind

LEMMA DefaultsType == DEFAULT_THRESHOLDS \in Thresholds
BY DEF DEFAULT_THRESHOLDS, Thresholds, Triple, ThresholdKeys, Levels, MB, GB

\* The limits of the default thresholds, in kB and seconds.
LEMMA DefaultLimits ==
    /\ DEFAULT_THRESHOLDS["total_lag_bytes"] = Triple(102400, 1048576, 10485760)
    /\ DEFAULT_THRESHOLDS["slot_wal_retention"] = Triple(10485760, 52428800, 104857600)
    /\ DEFAULT_THRESHOLDS["apply_error_count_5m"] = Triple(5, 50, 200)
    /\ DEFAULT_THRESHOLDS["conflict_count_5m"] = Triple(10, 100, 500)
    /\ DEFAULT_THRESHOLDS["worker_last_recv_age"] = Triple(300, 1800, 7200)
    /\ DEFAULT_THRESHOLDS["replica_write_lag_seconds"] = Triple(30, 300, 900)
    /\ DEFAULT_THRESHOLDS["replica_replay_lag_seconds"] = Triple(30, 300, 900)
BY DEF DEFAULT_THRESHOLDS, ThresholdKeys, MB, GB

\* With a triple in order, a value alarms from its second limit on.
LEMMA AlarmsFromAlert ==
    ASSUME NEW v \in Int, NEW w \in Nat, NEW a \in Nat, NEW c \in Nat, w <= a, a <= c
    PROVE  AtLeast(severityForValue(v, Triple(w, a, c)), "alert") <=> v >= a
BY Ranks DEF severityForValue, AtLeast, Triple, Levels

-----------------------------------------------------------------------------
(***************************************************************************)
(* The inductive invariant.                                                *)
(***************************************************************************)
Sourced == snap /= None => source \in Databases /\ snap \in BuildSnapshot(source)
Built   == snap /= None => ~BuildFails(source) /\ (page = "blank" <=> RenderThrows(snap))
Limits  == thresholds \in Thresholds
IInv    == Sourced /\ Built /\ Limits

LEMMA EditsAreNatural ==
    ASSUME NEW key, NEW input \in Int
    PROVE  ThresholdOf(key, input) \in Nat
BY DEF ThresholdOf, AtLeastZero, MB

\* The rows shown are those the server made of the source, from a build that succeeded,
\* the page is blank when they made a render throw, and the thresholds are natural.
THEOREM Panels_Sourced == Spec => []IInv
<1>1. Init => IInv
  BY DefaultsType DEF Init, IInv, Sourced, Built, Limits
<1>2. IInv /\ [Next]_vars => IInv'
  <2> SUFFICES ASSUME IInv, [Next]_vars PROVE IInv'
    OBVIOUS
  <2> USE DEF IInv, Sourced, Built, Limits
  <2>1. CASE Mount
    BY <2>1 DEF Mount
  <2>2. CASE Unmount
    BY <2>2 DEF Unmount
  <2>3. CASE Reload
    BY <2>3 DEF Reload
  <2>4. CASE restoreDefaults
    BY <2>4, DefaultsType DEF restoreDefaults
  <2>5. ASSUME NEW db \in Databases, Tick(db) PROVE IInv'
    <3>1. PICK s \in BuildSnapshot(db) :
            /\ snap' = s
            /\ IF RenderThrows(s) THEN page' = "blank" ELSE page' = page
      BY <2>5 DEF Tick
    <3>2. page = "dashboard" /\ ~BuildFails(db) /\ source' = db /\ thresholds' = thresholds
      BY <2>5 DEF Tick
    <3>3. (page' = "blank") <=> RenderThrows(s)
      BY <3>1, <3>2
    <3> QED
      BY <3>1, <3>2, <3>3
  <2>6. ASSUME NEW name, ToggleSub(name) PROVE IInv'
    BY <2>6 DEF ToggleSub
  <2>7. ASSUME NEW app, ToggleReplica(app) PROVE IInv'
    BY <2>7 DEF ToggleReplica
  <2>8. ASSUME NEW e \in Edits, setThresholdField(e[1], e[2], e[3]) PROVE IInv'
    <3>1. e[1] \in ThresholdKeys /\ e[2] \in Levels /\ e[3] \in Int
      BY EditAssumption
    <3>2. ThresholdOf(e[1], e[3]) \in Nat
      BY <3>1, EditsAreNatural
    <3> QED
      BY <2>8, <3>1, <3>2 DEF setThresholdField, Thresholds
  <2>9. CASE UNCHANGED vars
    BY <2>9 DEF vars
  <2> QED
    BY <2>1, <2>2, <2>3, <2>4, <2>5, <2>6, <2>7, <2>8, <2>9 DEF Next
<1> QED
  BY <1>1, <1>2, PTL DEF Spec
-----------------------------------------------------------------------------
(***************************************************************************)
(* The rows.                                                               *)
(***************************************************************************)
LEMMA ShownPanels ==
    ASSUME Sourced, snap /= None
    PROVE  /\ source \in Databases
           /\ \E e \in ErrorStats(source) :
                snap.logical = IF HasLogical(source) THEN LogicalPanel(source, e) ELSE None
           /\ snap.physical = IF HasPhysical(source) THEN PhysicalPanel(source) ELSE None
           /\ snap.slots = List({SlotHealth(source, x) : x \in source.slots})
<1>1. PICK e \in ErrorStats(source) : snap = SnapshotWith(source, e)
  BY DEF Sourced, BuildSnapshot
<1>2. /\ snap.logical = IF HasLogical(source) THEN LogicalPanel(source, e) ELSE None
      /\ snap.physical = IF HasPhysical(source) THEN PhysicalPanel(source) ELSE None
      /\ snap.slots = List({SlotHealth(source, x) : x \in source.slots})
  BY <1>1 DEF SnapshotWith
<1> QED
  BY <1>2 DEF Sourced

LEMMA ShownLogical ==
    ASSUME Sourced, snap /= None, snap.logical /= None
    PROVE  /\ source \in Databases /\ HasLogical(source)
           /\ \E e \in ErrorStats(source) : snap.logical = LogicalPanel(source, e)
BY ShownPanels

LEMMA ShownSubscription ==
    ASSUME Sourced, snap /= None, NEW r \in Subscriptions(snap)
    PROVE  /\ source \in Databases
           /\ snap.logical /= None
           /\ \E s \in source.subs : r = SubscriptionSummary(source, s)
<1>1. snap.logical /= None /\ r \in OrEmpty(snap.logical.subscriptions)
  BY DEF Subscriptions
<1>2. source \in Databases /\ \E e \in ErrorStats(source) : snap.logical = LogicalPanel(source, e)
  BY <1>1, ShownLogical
<1>3. snap.logical.subscriptions = List({SubscriptionSummary(source, s) : s \in source.subs})
  BY <1>2 DEF LogicalPanel
<1> QED
  BY <1>1, <1>2, <1>3 DEF List, OrEmpty

LEMMA ShownWorker ==
    ASSUME Sourced, snap /= None, NEW w \in Workers(snap)
    PROVE  source \in Databases /\ \E x \in source.workers : w = WorkerStat(x)
<1>1. snap.logical /= None /\ w \in OrEmpty(snap.logical.workers)
  BY DEF Workers
<1>2. source \in Databases /\ \E e \in ErrorStats(source) : snap.logical = LogicalPanel(source, e)
  BY <1>1, ShownLogical
<1>3. snap.logical.workers = List({WorkerStat(x) : x \in source.workers})
  BY <1>2 DEF LogicalPanel
<1> QED
  BY <1>1, <1>2, <1>3 DEF List, OrEmpty

LEMMA ShownReplica ==
    ASSUME Sourced, snap /= None, NEW r \in Replicas(snap)
    PROVE  source \in Databases /\ \E x \in source.replicas : r = PhysicalReplicaStat(x)
<1>1. snap.physical /= None /\ r \in OrEmpty(snap.physical.replicas)
  BY DEF Replicas
<1>2. snap.physical = PhysicalPanel(source) /\ source \in Databases
  BY <1>1, ShownPanels
<1>3. snap.physical.replicas = List({PhysicalReplicaStat(x) : x \in source.replicas})
  BY <1>2 DEF PhysicalPanel
<1> QED
  BY <1>1, <1>2, <1>3 DEF List, OrEmpty

LEMMA BehindType ==
    ASSUME NEW p \in Position, NEW q \in Position
    PROVE  Behind(p, q) \in Int
BY NoneAssumption DEF Behind, Position

LEMMA SlotOfType ==
    ASSUME NEW db \in Databases, NEW s \in db.subs
    PROVE  SlotOf(db, s).restart \in Position /\ SlotOf(db, s).confirmed \in Position
<1>1. db.slots \subseteq SlotType
  BY DatabaseAssumption DEF DatabaseType
<1>2. CASE \E x \in db.slots : x.name = s.slot
  <2>1. SlotOf(db, s) \in db.slots
    BY <1>2 DEF SlotOf
  <2> QED
    BY <1>1, <2>1 DEF SlotType
<1>3. CASE ~\E x \in db.slots : x.name = s.slot
  BY <1>3 DEF SlotOf, NoSlot, Position
<1> QED
  BY <1>2, <1>3

\* The numbers of a row that severities are taken of.
LEMMA RowType ==
    ASSUME NEW db \in Databases, NEW s \in db.subs
    PROVE  LET r == SubscriptionSummary(db, s)
           IN  /\ r.total_lag \in Int /\ r.retention \in Int /\ r.recv_age \in Int
               /\ r.apply_errors \in Nat /\ r.conflicts \in [ConflictKinds -> Nat]
               /\ r.severity = severityOf(Measure(db, s))
               /\ r.total_lag = Measure(db, s).total_lag
               /\ r.retention = Measure(db, s).retention
               /\ r.recv_age = Measure(db, s).recv_age
               /\ r.apply_errors = Measure(db, s).apply_errors
               /\ r.conflicts = Measure(db, s).conflicts
               /\ r.wal_status = Measure(db, s).wal_status
<1>1. db.wal \in Position /\ s \in SubType
  BY DatabaseAssumption DEF DatabaseType, Position
<1>2. s.received \in Position /\ s.end \in Position /\ s.recv_age \in Int
        /\ s.apply_errors \in Nat /\ s.conflicts \in [ConflictKinds -> Nat]
  BY <1>1 DEF SubType
<1> DEFINE x == SlotOf(db, s)
           m == Measure(db, s)
<1>3. x.restart \in Position /\ x.confirmed \in Position
  BY SlotOfType
<1>4. /\ Behind(x.restart, x.confirmed) \in Int
      /\ Behind(s.received, s.end) \in Int
      /\ Behind(db.wal, x.confirmed) \in Int
  BY <1>1, <1>2, <1>3, BehindType
<1>5. /\ m.total_lag = AtLeastZero(Behind(x.restart, x.confirmed)) + Behind(s.received, s.end)
      /\ m.retention = Behind(db.wal, x.confirmed)
      /\ m.recv_age = s.recv_age /\ m.apply_errors = s.apply_errors
      /\ m.conflicts = s.conflicts
  BY DEF Measure
<1>6. m.total_lag \in Int
  BY <1>4, <1>5 DEF AtLeastZero
<1>7. /\ SubscriptionSummary(db, s).total_lag = m.total_lag
      /\ SubscriptionSummary(db, s).retention = m.retention
      /\ SubscriptionSummary(db, s).recv_age = m.recv_age
      /\ SubscriptionSummary(db, s).apply_errors = m.apply_errors
      /\ SubscriptionSummary(db, s).conflicts = m.conflicts
      /\ SubscriptionSummary(db, s).wal_status = m.wal_status
      /\ SubscriptionSummary(db, s).severity = severityOf(m)
  BY DEF SubscriptionSummary, Measure
<1> QED
  BY <1>2, <1>4, <1>5, <1>6, <1>7
-----------------------------------------------------------------------------
(***************************************************************************)
(* The server's severity and the page's colours.                           *)
(***************************************************************************)
LEMMA AlarmingRow ==
    ASSUME NEW r
    PROVE  Alarming(WithoutSpill(Cells(r))) <=>
              \/ AtLeast(Cells(r).total, "alert") \/ AtLeast(Cells(r).retention, "alert")
              \/ AtLeast(Cells(r).apply, "alert") \/ AtLeast(Cells(r).conflict, "alert")
              \/ AtLeast(Cells(r).recv, "alert")
<1> DEFINE names == {"total", "retention", "apply", "conflict", "recv"}
           cells == Cells(r)
<1>1. DOMAIN cells \ {"spill"} = names
  BY DEF Cells, CellsWith
<1>2. Alarming(WithoutSpill(cells)) <=> \E c \in names : AtLeast(cells[c], "alert")
  BY <1>1 DEF Alarming, WithoutSpill
<1> QED
  BY <1>2

LEMMA SumOfConflicts ==
    ASSUME NEW c \in [ConflictKinds -> Nat]
    PROVE  /\ ConflictTotal(c) \in Nat /\ GridTotal(c) \in Nat
           /\ GridTotal(c) <= ConflictTotal(c)
           /\ \A k \in ConflictKinds : c[k] <= ConflictTotal(c)
           /\ (\A k \in ConflictKinds : c[k] < 10) => ConflictTotal(c) < 100
BY DEF ConflictTotal, GridTotal, ConflictKinds, GridKinds, OriginKinds

\* With the default thresholds: when a row has a red cell other than the spill's.
LEMMA WhenRed ==
    ASSUME thresholds = DEFAULT_THRESHOLDS, NEW r,
           r.total_lag \in Int, r.retention \in Int, r.recv_age \in Int,
           r.apply_errors \in Nat, r.conflicts \in [ConflictKinds -> Nat]
    PROVE  Alarming(WithoutSpill(Cells(r))) <=>
              \/ r.total_lag >= 1048576 \/ r.retention >= 52428800
              \/ r.apply_errors >= 50 \/ ConflictTotal(r.conflicts) >= 100
              \/ r.recv_age >= 1800
<1>1. ConflictTotal(r.conflicts) \in Int
  BY SumOfConflicts
<1>2. AtLeast(Cells(r).total, "alert") <=> r.total_lag >= 1048576
  BY AlarmsFromAlert, DefaultLimits DEF Cells, CellsWith
<1>3. AtLeast(Cells(r).retention, "alert") <=> r.retention >= 52428800
  BY AlarmsFromAlert, DefaultLimits DEF Cells, CellsWith
<1>4. AtLeast(Cells(r).apply, "alert") <=> r.apply_errors >= 50
  BY AlarmsFromAlert, DefaultLimits DEF Cells, CellsWith
<1>5. AtLeast(Cells(r).conflict, "alert") <=> ConflictTotal(r.conflicts) >= 100
  BY <1>1, AlarmsFromAlert, DefaultLimits DEF Cells, CellsWith
<1>6. AtLeast(Cells(r).recv, "alert") <=> r.recv_age >= 1800
  BY AlarmsFromAlert, DefaultLimits DEF Cells, CellsWith
<1> QED
  BY <1>2, <1>3, <1>4, <1>5, <1>6, AlarmingRow

\* When the server calls a row critical, and when it calls it ok.
LEMMA WhenCritical ==
    ASSUME NEW db \in Databases, NEW s \in db.subs
    PROVE  LET r == SubscriptionSummary(db, s)
           IN  /\ r.severity \in {"ok", "warn", "critical"}
               /\ r.severity = "critical" =>
                    \/ r.total_lag >= 10485760 \/ r.retention >= 104857600
                    \/ r.wal_status = "lost" \/ r.apply_errors >= 50
                    \/ ConflictTotal(r.conflicts) >= 100 \/ r.recv_age > 1800
               /\ r.severity = "ok" =>
                    /\ r.total_lag < 1048576 /\ r.retention < 52428800
                    /\ r.apply_errors < 5 /\ \A k \in ConflictKinds : r.conflicts[k] < 10
                    /\ r.recv_age <= 300 /\ r.wal_status /= "lost"
<1> DEFINE r == SubscriptionSummary(db, s)
           m == Measure(db, s)
<1> HIDE DEF r, m
<1>1. /\ r.total_lag \in Int /\ r.retention \in Int /\ r.recv_age \in Int
      /\ r.apply_errors \in Nat /\ r.conflicts \in [ConflictKinds -> Nat]
      /\ r.severity = severityOf(m)
      /\ r.total_lag = m.total_lag /\ r.retention = m.retention /\ r.recv_age = m.recv_age
      /\ r.apply_errors = m.apply_errors /\ r.conflicts = m.conflicts
      /\ r.wal_status = m.wal_status
  BY RowType DEF r, m
<1>2. \A k \in ConflictKinds : r.conflicts[k] \in Nat /\ r.conflicts[k] <= ConflictTotal(r.conflicts)
  BY <1>1, SumOfConflicts
<1>3. ConflictTotal(r.conflicts) \in Nat
  BY <1>1, SumOfConflicts
<1>4. severityOf(m) = "critical" => Reaches(m, 10485760, 104857600, "lost", 50, 100, 1800)
  BY DEF severityOf, MB, GB
<1>5. severityOf(m) = "ok" => /\ ~Reaches(m, 1048576, 52428800, "unreserved", 5, 10, 300)
                              /\ ~Reaches(m, 10485760, 104857600, "lost", 50, 100, 1800)
  BY DEF severityOf, MB, GB
<1>6. severityOf(m) \in {"ok", "warn", "critical"}
  BY DEF severityOf
<1>7. severityOf(m) = "critical" =>
         \/ r.total_lag >= 10485760 \/ r.retention >= 104857600
         \/ r.wal_status = "lost" \/ r.apply_errors >= 50
         \/ ConflictTotal(r.conflicts) >= 100 \/ r.recv_age > 1800
  BY <1>1, <1>2, <1>3, <1>4 DEF Reaches
<1>8. severityOf(m) = "ok" =>
         /\ r.total_lag < 1048576 /\ r.retention < 52428800
         /\ r.apply_errors < 5 /\ \A k \in ConflictKinds : r.conflicts[k] < 10
         /\ r.recv_age <= 300 /\ r.wal_status /= "lost"
  BY <1>1, <1>2, <1>5 DEF Reaches
<1> QED
  BY <1>1, <1>6, <1>7, <1>8 DEF r

LEMMA ReplicaRow ==
    ASSUME NEW db \in Databases, NEW x \in db.replicas
    PROVE  LET r == PhysicalReplicaStat(x)
           IN  /\ r.write_lag \in Int /\ r.flush_lag \in Int /\ r.replay_lag \in Int
               /\ r.severity \in {"ok", "warn", "critical"}
               /\ r.severity = "critical" => r.replay_lag > 300
               /\ r.severity = "ok" => r.write_lag <= 300 /\ r.replay_lag <= 300
<1>1. x.write_lag \in Int /\ x.flush_lag \in Int /\ x.replay_lag \in Int
  BY DatabaseAssumption DEF DatabaseType, ReplicaType
<1> QED
  BY <1>1 DEF PhysicalReplicaStat, replicaSeverity

\* With the default thresholds: what is red of a replica that the server calls ok.
LEMMA OkReplicaIsRedAlone ==
    ASSUME IInv, thresholds = DEFAULT_THRESHOLDS, snap /= None,
           NEW r \in Replicas(snap), Alarming(LagCells(r)), r.severity = "ok"
    PROVE  RedAlone(r)
<1>1. /\ r.write_lag \in Int /\ r.flush_lag \in Int /\ r.replay_lag \in Int
      /\ r.write_lag <= 300 /\ r.replay_lag <= 300
  BY ShownReplica, ReplicaRow DEF IInv
<1>2. /\ LagCells(r).write = severityForValue(AtLeastZero(r.write_lag), Triple(30, 300, 900))
      /\ LagCells(r).replay = severityForValue(AtLeastZero(r.replay_lag), Triple(30, 300, 900))
  BY DefaultLimits DEF LagCells, lagSeverity
<1>3. AtLeastZero(r.write_lag) \in Int /\ AtLeastZero(r.replay_lag) \in Int
  BY <1>1 DEF AtLeastZero
<1>4. AtLeast(LagCells(r).write, "alert") => r.write_lag = 300
  <2>1. AtLeast(LagCells(r).write, "alert") => AtLeastZero(r.write_lag) >= 300
    BY <1>2, <1>3, AlarmsFromAlert
  <2> QED
    BY <1>1, <2>1 DEF AtLeastZero
<1>5. AtLeast(LagCells(r).replay, "alert") => r.replay_lag = 300
  <2>1. AtLeast(LagCells(r).replay, "alert") => AtLeastZero(r.replay_lag) >= 300
    BY <1>2, <1>3, AlarmsFromAlert
  <2> QED
    BY <1>1, <2>1 DEF AtLeastZero
<1>6. \E c \in {"write", "flush", "replay"} : AtLeast(LagCells(r)[c], "alert")
  <2>1. DOMAIN LagCells(r) = {"write", "flush", "replay"}
    BY DEF LagCells
  <2> QED
    BY <2>1 DEF Alarming
<1> QED
  BY <1>4, <1>5, <1>6 DEF RedAlone

LEMMA IInvCriticalIsVisible == IInv => CriticalIsVisible
<1> SUFFICES ASSUME IInv, thresholds = DEFAULT_THRESHOLDS, snap /= None
             PROVE  CriticalIsVisible
  BY DEF CriticalIsVisible
<1>1. ASSUME NEW r \in Subscriptions(snap), r.severity = "critical"
      PROVE  r.wal_status = "lost" \/ Alarming(WithoutSpill(Cells(r)))
  <2>1. PICK s \in source.subs : r = SubscriptionSummary(source, s)
    BY ShownSubscription DEF IInv
  <2>2. source \in Databases
    BY DEF IInv, Sourced
  <2>3. /\ r.total_lag \in Int /\ r.retention \in Int /\ r.recv_age \in Int
        /\ r.apply_errors \in Nat /\ r.conflicts \in [ConflictKinds -> Nat]
    BY <2>1, <2>2, RowType
  <2>4. \/ r.total_lag >= 10485760 \/ r.retention >= 104857600
        \/ r.wal_status = "lost" \/ r.apply_errors >= 50
        \/ ConflictTotal(r.conflicts) >= 100 \/ r.recv_age > 1800
    BY <1>1, <2>1, <2>2, WhenCritical
  <2> QED
    BY <2>3, <2>4, WhenRed
<1>2. ASSUME NEW r \in Replicas(snap), r.severity = "critical"
      PROVE  AtLeast(LagCells(r).replay, "alert")
  <2>1. PICK x \in source.replicas : r = PhysicalReplicaStat(x)
    BY ShownReplica DEF IInv
  <2>2. source \in Databases
    BY DEF IInv, Sourced
  <2>3. r.replay_lag \in Int /\ r.replay_lag > 300
    BY <1>2, <2>1, <2>2, ReplicaRow
  <2>4. LagCells(r).replay = severityForValue(r.replay_lag, Triple(30, 300, 900))
    BY <2>3, DefaultLimits DEF LagCells, lagSeverity, AtLeastZero
  <2> QED
    BY <2>3, <2>4, AlarmsFromAlert
<1> QED
  BY <1>1, <1>2 DEF CriticalIsVisible

\* With the default thresholds a row the server calls critical has a red cell, or a
\* lost slot, for any rows that PostgreSQL may return.
THEOREM Panels_CriticalIsVisible == Spec => []CriticalIsVisible
BY Panels_Sourced, IInvCriticalIsVisible, PTL

LEMMA IInvAlertCellAlarmsRow == IInv => AlertCellAlarmsRow
<1> SUFFICES ASSUME IInv, thresholds = DEFAULT_THRESHOLDS, snap /= None
             PROVE  AlertCellAlarmsRow
  BY DEF AlertCellAlarmsRow
<1>1. ASSUME NEW r \in Subscriptions(snap), Alarming(WithoutSpill(Cells(r)))
      PROVE  r.severity \in {"warn", "critical"}
  <2>1. PICK s \in source.subs : r = SubscriptionSummary(source, s)
    BY ShownSubscription DEF IInv
  <2>2. source \in Databases
    BY DEF IInv, Sourced
  <2>3. /\ r.total_lag \in Int /\ r.retention \in Int /\ r.recv_age \in Int
        /\ r.apply_errors \in Nat /\ r.conflicts \in [ConflictKinds -> Nat]
    BY <2>1, <2>2, RowType
  <2>4. \/ r.total_lag >= 1048576 \/ r.retention >= 52428800
        \/ r.apply_errors >= 50 \/ ConflictTotal(r.conflicts) >= 100
        \/ r.recv_age >= 1800
    BY <1>1, <2>3, WhenRed
  <2>5. /\ ConflictTotal(r.conflicts) \in Nat
        /\ (\A k \in ConflictKinds : r.conflicts[k] < 10) => ConflictTotal(r.conflicts) < 100
    BY <2>3, SumOfConflicts
  <2>6. r.severity \in {"ok", "warn", "critical"}
    BY <2>1, <2>2, WhenCritical
  <2>7. r.severity = "ok" =>
           /\ r.total_lag < 1048576 /\ r.retention < 52428800
           /\ r.apply_errors < 5 /\ \A k \in ConflictKinds : r.conflicts[k] < 10
           /\ r.recv_age <= 300
    BY <2>1, <2>2, WhenCritical
  <2> QED
    BY <2>3, <2>4, <2>5, <2>6, <2>7
<1> QED
  BY <1>1, OkReplicaIsRedAlone DEF AlertCellAlarmsRow

\* With the default thresholds a subscription with a red cell, but for the spill's, is
\* never called ok, although the cell's conflicts are a sum of seven counts of which the
\* server looks at each; and a replica with one only for its flush lag or for a lag of
\* 300 s to the second.
THEOREM Panels_AlertCellAlarmsRow == Spec => []AlertCellAlarmsRow
BY Panels_Sourced, IInvAlertCellAlarmsRow, PTL
-----------------------------------------------------------------------------
(***************************************************************************)
(* The grid, the charts and the tints.                                     *)
(***************************************************************************)
\* The subscription whose counts the grid under a row shows.
LEMMA GridOfNamesake ==
    ASSUME IInv, snap /= None, NEW r \in Subscriptions(snap)
    PROVE  \E q \in Subscriptions(snap) :
              /\ q.name = r.name
              /\ ErrorGrid(snap, r).apply_errors = q.apply_errors
              /\ ErrorGrid(snap, r).counts = [k \in GridKinds |-> q.conflicts[k]]
              /\ ErrorGrid(snap, r).total = GridTotal(q.conflicts)
<1>1. PICK s \in source.subs : r = SubscriptionSummary(source, s)
  BY ShownSubscription DEF IInv
<1>2. snap.logical /= None
  BY ShownSubscription DEF IInv
<1>3. PICK e \in ErrorStats(source) : snap.logical = LogicalPanel(source, e)
  BY <1>2, ShownLogical DEF IInv
<1>4. r.name = s.name
  BY <1>1 DEF SubscriptionSummary, Measure
<1>5. PICK z \in source.subs : e[r.name] = z /\ z.name = r.name
  BY <1>4 DEF ErrorStats
<1> DEFINE q == SubscriptionSummary(source, z)
<1>6. snap.logical.errors = e
        /\ snap.logical.subscriptions = List({SubscriptionSummary(source, x) : x \in source.subs})
  BY <1>3 DEF LogicalPanel
<1>7. r \in OrEmpty(snap.logical.subscriptions)
  BY <1>2 DEF Subscriptions
<1>8. q \in Subscriptions(snap)
  BY <1>2, <1>6, <1>7 DEF Subscriptions, List, OrEmpty
<1>9. q.name = z.name /\ q.apply_errors = z.apply_errors /\ q.conflicts = z.conflicts
  BY DEF SubscriptionSummary, Measure
<1>10. /\ ErrorGrid(snap, r).apply_errors = z.apply_errors
       /\ ErrorGrid(snap, r).counts = [k \in GridKinds |-> z.conflicts[k]]
       /\ ErrorGrid(snap, r).total = GridTotal(z.conflicts)
  BY <1>5, <1>6 DEF ErrorGrid
<1> HIDE DEF q
<1> QED
  BY <1>5, <1>8, <1>9, <1>10

LEMMA IInvGridIsANamesakes == IInv => GridIsANamesakes
<1> SUFFICES ASSUME IInv, snap /= None, NEW r \in Subscriptions(snap)
             PROVE  \E q \in Subscriptions(snap) :
                       /\ q.name = r.name
                       /\ ErrorGrid(snap, r).apply_errors = q.apply_errors
                       /\ \A k \in DOMAIN ErrorGrid(snap, r).counts :
                             ErrorGrid(snap, r).counts[k] = q.conflicts[k]
  BY DEF GridIsANamesakes
<1>1. PICK q \in Subscriptions(snap) :
        /\ q.name = r.name
        /\ ErrorGrid(snap, r).apply_errors = q.apply_errors
        /\ ErrorGrid(snap, r).counts = [k \in GridKinds |-> q.conflicts[k]]
  BY GridOfNamesake
<1> QED
  BY <1>1

\* The numbers that the grid under a row shows are all those of one of the rows of its
\* name, whichever of them the build saw last.
THEOREM Panels_GridIsANamesakes == Spec => []GridIsANamesakes
BY Panels_Sourced, IInvGridIsANamesakes, PTL

LEMMA IInvFullBarIsCritical == IInv => FullBarIsCritical
<1> DEFINE wk == "replica_write_lag_seconds"
           rk == "replica_replay_lag_seconds"
<1> SUFFICES ASSUME IInv, snap /= None, NEW r \in Replicas(snap)
             PROVE  /\ FullAsCell(r.write_lag, LagCells(r).write, wk)
                    /\ FullAsCell(r.flush_lag, LagCells(r).flush, wk)
                    /\ FullAsCell(r.replay_lag, LagCells(r).replay, rk)
  BY DEF FullBarIsCritical
<1>1. thresholds[wk] \in [Levels -> Nat] /\ thresholds[rk] \in [Levels -> Nat]
  BY DEF IInv, Limits, Thresholds, ThresholdKeys
<1>2. /\ thresholds[wk]["critical"] \in Nat /\ thresholds[rk]["critical"] \in Nat
  BY <1>1 DEF Levels
<1>3. r.write_lag \in Int /\ r.flush_lag \in Int /\ r.replay_lag \in Int
  BY ShownReplica, ReplicaRow DEF IInv
<1>4. /\ MaxRef \in Nat
      /\ MaxRef >= thresholds[wk]["critical"] /\ MaxRef >= thresholds[rk]["critical"]
  BY <1>2 DEF MaxRef
<1>5. /\ LagCells(r).write = lagSeverity(r.write_lag, thresholds[wk])
      /\ LagCells(r).flush = lagSeverity(r.flush_lag, thresholds[wk])
      /\ LagCells(r).replay = lagSeverity(r.replay_lag, thresholds[rk])
  BY DEF LagCells
<1>6. ASSUME NEW v \in Int, NEW key, thresholds[key]["critical"] \in Nat,
             MaxRef >= thresholds[key]["critical"]
      PROVE  FullAsCell(v, lagSeverity(v, thresholds[key]), key)
  <2>1. lagSeverity(v, thresholds[key]) = "critical"
           <=> AtLeastZero(v) >= thresholds[key]["critical"]
    BY DEF lagSeverity, severityForValue
  <2> QED
    BY <1>4, <1>6, <2>1 DEF FullAsCell, BarFull, AtLeastZero
<1> HIDE DEF wk, rk
<1> QED
  BY <1>2, <1>3, <1>4, <1>5, <1>6

\* Whatever the user makes of the two triples, a bar that fills the axis has a critical
\* cell, and a critical cell of the triple that ends higher a bar that fills it.
THEOREM Panels_FullBarIsCritical == Spec => []FullBarIsCritical
BY Panels_Sourced, IInvFullBarIsCritical, PTL

LEMMA WorkerRowColours ==
    ASSUME NEW db \in Databases, NEW x \in db.workers
    PROVE  LET w == WorkerStat(x)
           IN  /\ (WorkerRow(w).tint = "none") = (WorkerRow(w).badge = "ok")
               /\ ~w.alive => WorkerRow(w).badge = "critical"
               /\ w.sub = x.sub /\ w.pid = x.pid
<1>1. x.recv_age \in Int /\ x.backend \in BOOLEAN
  BY DatabaseAssumption DEF DatabaseType, WorkerType
<1> DEFINE w == WorkerStat(x)
<1>2. /\ w.alive = x.backend /\ w.recv_age = x.recv_age /\ w.sub = x.sub /\ w.pid = x.pid
      /\ w.severity = IF ~x.backend \/ x.recv_age > 1800 THEN "critical"
                      ELSE IF x.recv_age > 300 THEN "warn" ELSE "ok"
  BY DEF WorkerStat, workerSeverity
<1> HIDE DEF w
<1>3. WorkerRow(w).badge = w.severity
  BY <1>2 DEF WorkerRow, severityKindOf, Severities
<1>4. WorkerRow(w).tint = IF ~w.alive THEN "red" ELSE IF w.recv_age > 300 THEN "amber" ELSE "none"
  BY DEF WorkerRow
<1> QED
  BY <1>1, <1>2, <1>3, <1>4 DEF w

LEMMA IInvTintIsSeverity == IInv => TintIsSeverity
<1> SUFFICES ASSUME IInv, snap /= None PROVE TintIsSeverity
  BY DEF TintIsSeverity
<1>0. source \in Databases
  BY DEF IInv, Sourced
<1>1. ASSUME NEW w \in Workers(snap)
      PROVE  /\ (WorkerRow(w).tint = "none") = (WorkerRow(w).badge = "ok")
             /\ ~w.alive => WorkerRow(w).badge = "critical"
  BY <1>0, ShownWorker, WorkerRowColours DEF IInv
<1>2. ASSUME NEW r \in Subscriptions(snap), Row(snap, r).tint /= "none"
      PROVE  \/ Row(snap, r).badge /= "ok"
             \/ \E w \in WorkersUnder(snap, r) : WorkerRow(w).badge = "critical"
  <2>1. PICK s \in source.subs : r = SubscriptionSummary(source, s)
    BY ShownSubscription DEF IInv
  <2>2. CASE \E w \in WorkersUnder(snap, r) : ~w.alive
    BY <1>1, <2>2 DEF WorkersUnder
  <2>3. CASE r.recv_age > 300
    <3>1. r.recv_age \in Int
      BY <1>0, <2>1, RowType
    <3>2. r.severity \in {"ok", "warn", "critical"} /\ r.severity /= "ok"
      BY <1>0, <2>1, <2>3, <3>1, WhenCritical
    <3> QED
      BY <3>2 DEF Row, severityKindOf, Severities
  <2> QED
    BY <1>2, <2>2, <2>3 DEF Row
<1> QED
  BY <1>1, <1>2 DEF TintIsSeverity

\* The page's own limits for tints and the server's for badges say the same.
THEOREM Panels_TintIsSeverity == Spec => []TintIsSeverity
BY Panels_Sourced, IInvTintIsSeverity, PTL
-----------------------------------------------------------------------------
(***************************************************************************)
(* Finite sets: a largest number, and the sum of a fold.  Induction over   *)
(* the subsets of a finite set is by a smallest counterexample.            *)
(***************************************************************************)
\* A family of subsets of a finite set has a smallest member.
LEMMA SmallestSubset ==
    ASSUME NEW S, IsFiniteSet(S), NEW F, F \subseteq SUBSET S, F /= {}
    PROVE  \E U \in F : \A V \in F : V \subseteq U => V = U
<1>1. IsWellFoundedOn(StrictSubsetOrdering(S), SUBSET S)
  BY FS_StrictSubsetOrderingWellFounded, FS_FiniteSubsetsOfFinite
<1>2. PICK U \in F : \A V \in F : ~ (<<V, U>> \in StrictSubsetOrdering(S))
  BY <1>1, WFMin
<1>3. ASSUME NEW V \in F, V \subseteq U, V /= U PROVE FALSE
  <2>1. <<V, U>> \in (SUBSET S) \X (SUBSET S) /\ <<V, U>>[1] = V /\ <<V, U>>[2] = U
    OBVIOUS
  <2>2. <<V, U>> \in StrictSubsetOrdering(S)
    BY <1>3, <2>1 DEF StrictSubsetOrdering
  <2> QED
    BY <1>2, <2>2
<1> QED
  BY <1>3

\* A finite set of integers that is not empty has a largest.
LEMMA Largest ==
    ASSUME NEW S, IsFiniteSet(S), S \subseteq Int, S /= {}
    PROVE  \E m \in S : \A l \in S : m >= l
<1> DEFINE HasLargest(U) == \E m \in U : \A l \in U : m >= l
           F == {U \in SUBSET S : U /= {} /\ ~HasLargest(U)}
<1> SUFFICES ASSUME F /= {} PROVE FALSE
  OBVIOUS
<1>1. PICK U \in F : \A V \in F : V \subseteq U => V = U
  <2>1. F \subseteq SUBSET S
    OBVIOUS
  <2>2. F /= {}
    OBVIOUS
  <2> HIDE DEF F
  <2>3. IsFiniteSet(S) => \E U \in F : \A V \in F : V \subseteq U => V = U
    BY ONLY <2>1, <2>2, SmallestSubset
  <2> QED
    BY <2>3
<1>2. PICK x \in U : TRUE
  OBVIOUS
<1>3. U \ {x} \notin F
  BY <1>1, <1>2
<1>4. CASE U \ {x} = {}
  BY <1>2, <1>4
<1>5. CASE U \ {x} /= {}
  <2>1. PICK m \in U \ {x} : \A l \in U \ {x} : m >= l
    BY <1>3, <1>5
  <2> DEFINE n == IF m >= x THEN m ELSE x
  <2>2. n \in U /\ \A l \in U : n >= l
    BY <1>2, <2>1
  <2> QED
    BY <2>2
<1> QED
  BY <1>4, <1>5

\* The equation of the fold by which MapThenSumSet adds up the slots in D, on the sets T.
Sums(g, T) ==
    \A U \in T : g[U] = IF U = {} THEN 0
                        ELSE LET d == CHOOSE x \in U : TRUE IN d.spill_pct + g[U \ {d}]

\* It has a solution: extended from the sets of n - 1 slots to those of n.
LEMMA SumExtends ==
    ASSUME NEW D, IsFiniteSet(D), \A d \in D : d.spill_pct \in Int, NEW n \in Nat,
           NEW g \in [{U \in SUBSET D : Cardinality(U) <= n} -> Int],
           Sums(g, {U \in SUBSET D : Cardinality(U) <= n})
    PROVE  \E h \in [{U \in SUBSET D : Cardinality(U) <= n + 1} -> Int] :
              Sums(h, {U \in SUBSET D : Cardinality(U) <= n + 1})
<1> DEFINE pick(U) == CHOOSE x \in U : TRUE
           upTo(m) == {U \in SUBSET D : Cardinality(U) <= m}
           h == [U \in upTo(n + 1) |-> IF U = {} THEN 0
                                       ELSE pick(U).spill_pct + g[U \ {pick(U)}]]
<1>1. ASSUME NEW U \in upTo(n + 1), U /= {}
      PROVE  /\ pick(U) \in D
             /\ U \ {pick(U)} \in upTo(n)
  <2>1. pick(U) \in U
    BY <1>1
  <2>2. IsFiniteSet(U)
    BY FS_Subset
  <2> HIDE DEF pick
  <2>3. Cardinality(U) \in Nat /\ Cardinality(U \ {pick(U)}) = Cardinality(U) - 1
    BY <2>1, <2>2, FS_RemoveElement, FS_CardinalityType
  <2> QED
    BY <2>1, <2>3
<1>2. ASSUME NEW U \in upTo(n) PROVE U \in upTo(n + 1)
  BY FS_Subset, FS_CardinalityType
<1> HIDE DEF pick, upTo
<1>3. ASSUME NEW U \in upTo(n) PROVE g[U] = h[U]
  BY <1>2, <1>3 DEF Sums, upTo, pick
<1>4. h \in [upTo(n + 1) -> Int]
  <2>1. ASSUME NEW U \in upTo(n + 1)
        PROVE  (IF U = {} THEN 0 ELSE pick(U).spill_pct + g[U \ {pick(U)}]) \in Int
    BY <1>1 DEF upTo
  <2> QED
    BY <2>1
<1>5. ASSUME NEW U \in upTo(n + 1)
      PROVE  h[U] = IF U = {} THEN 0 ELSE pick(U).spill_pct + h[U \ {pick(U)}]
  BY <1>1, <1>3
<1>6. Sums(h, upTo(n + 1))
  BY <1>5 DEF Sums, pick
<1> HIDE DEF h
<1> QED
  BY <1>4, <1>6 DEF upTo

LEMMA SumOfSpill ==
    ASSUME NEW s, NEW D, D = s.logical.spill_stats, IsFiniteSet(D),
           \A d \in D : d.spill_pct \in Int
    PROVE  \E g : Sums(g, SUBSET D) /\ SumSpill(s) = g[D]
<1> DEFINE upTo(n) == {U \in SUBSET D : Cardinality(U) <= n}
           Has(n) == \E g \in [upTo(n) -> Int] : Sums(g, upTo(n))
           F == {U \in SUBSET D : ~Has(Cardinality(U))}
<1>1. F = {}
  <2> SUFFICES ASSUME F /= {} PROVE FALSE
    OBVIOUS
  <2>1. F \subseteq SUBSET D
    OBVIOUS
  <2>2. PICK U \in F : \A V \in F : V \subseteq U => V = U
    <3>1. F /= {}
      OBVIOUS
    <3> HIDE DEF F
    <3>2. IsFiniteSet(D) => \E U \in F : \A V \in F : V \subseteq U => V = U
      BY ONLY <2>1, <3>1, SmallestSubset
    <3> QED
      BY <3>2
  <2>3. IsFiniteSet(U) /\ Cardinality(U) \in Nat
    BY <2>1, FS_Subset, FS_CardinalityType
  <2>4. CASE U = {}
    <3>1. \A V \in upTo(0) : V = {}
      BY FS_Subset, FS_EmptySet, FS_CardinalityType
    <3>2. Cardinality(U) = 0
      BY <2>4, FS_EmptySet
    <3> DEFINE g == [V \in upTo(0) |-> 0]
    <3>3. g \in [upTo(0) -> Int] /\ Sums(g, upTo(0))
      BY <3>1 DEF Sums
    <3>4. Has(0)
      BY <3>3
    <3> QED
      BY <3>2, <3>4
  <2>5. CASE U /= {}
    <3>1. PICK x \in U : TRUE
      BY <2>5
    <3> DEFINE V == U \ {x}
               n == Cardinality(V)
    <3>2. V \subseteq U /\ V /= U /\ V \in SUBSET D
      BY <2>1, <3>1
    <3>3. n \in Nat /\ Cardinality(U) = n + 1
      <4>1. IsFiniteSet(V) /\ Cardinality(V) = Cardinality(U) - 1
        BY <2>3, <3>1, FS_RemoveElement
      <4> QED
        BY <2>3, <4>1, FS_CardinalityType
    <3>4. Has(n)
      BY <2>2, <3>2
    <3>5. Has(n + 1)
      <4>1. PICK g \in [upTo(n) -> Int] : Sums(g, upTo(n))
        BY <3>4
      <4> HIDE DEF n
      <4> QED
        BY <3>3, <4>1, SumExtends
    <3> QED
      BY <3>3, <3>5
  <2> QED
    BY <2>4, <2>5
<1>2. upTo(Cardinality(D)) = SUBSET D
  BY FS_Subset
<1>3. Has(Cardinality(D))
  BY <1>1
<1>4. \E g \in [SUBSET D -> Int] : Sums(g, SUBSET D)
  BY <1>2, <1>3
<1> HIDE DEF upTo, Has, F
<1> DEFINE step(g, U) == IF U = {} THEN 0
                         ELSE LET d == CHOOSE x \in U : TRUE IN d.spill_pct + g[U \ {d}]
           f == CHOOSE g : g = [U \in SUBSET D |-> step(g, U)]
<1>5. SumSpill(s) = f[D]
  BY DEF SumSpill, MapThenSumSet, MapThenFoldSet
<1>6. PICK g \in [SUBSET D -> Int] : Sums(g, SUBSET D)
  BY <1>4
<1>7. g = [U \in SUBSET D |-> step(g, U)]
  BY <1>6 DEF Sums
<1> HIDE DEF step
<1>8. f = [U \in SUBSET D |-> step(f, U)]
  BY <1>7
<1> HIDE DEF f
<1>9. \A U \in SUBSET D : f[U] = step(f, U)
  BY <1>8
<1>10. Sums(f, SUBSET D)
  BY <1>9 DEF Sums, step
<1> QED
  BY <1>5, <1>10

\* Slots that are all below a level have an average below it.
LEMMA SumIsBelow ==
    ASSUME NEW D, IsFiniteSet(D), \A d \in D : d.spill_pct \in Int,
           NEW g, Sums(g, SUBSET D), NEW b \in Int
    PROVE  \A U \in SUBSET D :
              /\ g[U] \in Int
              /\ U /= {} /\ (\A d \in U : d.spill_pct < b) => g[U] < Cardinality(U) * b
<1> DEFINE Below(U) == /\ g[U] \in Int
                       /\ (\A d \in U : d.spill_pct < b) =>
                             /\ g[U] <= Cardinality(U) * b
                             /\ U /= {} => g[U] < Cardinality(U) * b
           F == {U \in SUBSET D : ~Below(U)}
<1>1. F = {}
  <2> SUFFICES ASSUME F /= {} PROVE FALSE
    OBVIOUS
  <2>1. F \subseteq SUBSET D
    OBVIOUS
  <2>2. PICK U \in F : \A V \in F : V \subseteq U => V = U
    <3>1. F /= {}
      OBVIOUS
    <3> HIDE DEF F
    <3>2. IsFiniteSet(D) => \E U \in F : \A V \in F : V \subseteq U => V = U
      BY ONLY <2>1, <3>1, SmallestSubset
    <3> QED
      BY <3>2
  <2>3. U \in SUBSET D /\ IsFiniteSet(U) /\ Cardinality(U) \in Nat
    BY <2>1, FS_Subset, FS_CardinalityType
  <2>4. CASE U = {}
    <3>1. g[U] = 0 /\ Cardinality(U) = 0
      BY <2>4, FS_EmptySet DEF Sums
    <3> QED
      BY <2>4, <3>1
  <2>5. CASE U /= {}
    <3> DEFINE d == CHOOSE x \in U : TRUE
               V == U \ {d}
               n == Cardinality(V)
    <3>1. d \in U /\ d.spill_pct \in Int
      BY <2>3, <2>5
    <3>2. g[U] = d.spill_pct + g[V]
      BY <2>3, <2>5 DEF Sums
    <3> HIDE DEF d
    <3>3. n \in Nat /\ Cardinality(U) = n + 1
      <4>1. IsFiniteSet(V) /\ Cardinality(V) = Cardinality(U) - 1
        BY <2>3, <3>1, FS_RemoveElement
      <4> QED
        BY <2>3, <4>1, FS_CardinalityType
    <3>4. Below(V)
      BY <2>2, <2>3, <3>1
    <3>5. (n + 1) * b = n * b + b /\ n * b \in Int
      BY <3>3
    <3>6. Cardinality(U) * b = n * b + b
      BY <3>3, <3>5
    <3> HIDE DEF n
    <3>7. g[U] \in Int
      BY <3>1, <3>2, <3>4
    <3>8. (\A x \in U : x.spill_pct < b) => g[U] < Cardinality(U) * b
      <4> SUFFICES ASSUME \A x \in U : x.spill_pct < b PROVE g[U] < Cardinality(U) * b
        OBVIOUS
      <4>1. d.spill_pct < b /\ g[V] <= n * b /\ g[V] \in Int
        BY <3>1, <3>4 DEF n
      <4> HIDE DEF V
      <4> QED
        BY <3>1, <3>2, <3>5, <3>6, <4>1
    <3>9. Below(U)
      BY <3>5, <3>6, <3>7, <3>8, <2>5
    <3> QED
      BY <3>9
  <2> QED
    BY <2>4, <2>5
<1> QED
  BY <1>1

\* An average that reaches a level has a slot that does.
LEMMA AverageHasWitness ==
    ASSUME NEW s, NEW D, D = s.logical.spill_stats, IsFiniteSet(D),
           \A d \in D : d.spill_pct \in Int, D /= {},
           NEW b \in Int, SumSpill(s) >= Cardinality(D) * b
    PROVE  \E d \in D : d.spill_pct >= b
<1>1. PICK g : Sums(g, SUBSET D) /\ SumSpill(s) = g[D]
  BY SumOfSpill
<1>2. /\ g[D] \in Int
      /\ (\A d \in D : d.spill_pct < b) => g[D] < Cardinality(D) * b
  BY <1>1, SumIsBelow
<1>3. Cardinality(D) * b \in Int
  BY FS_CardinalityType
<1>4. ~(g[D] < Cardinality(D) * b)
  <2>1. g[D] >= Cardinality(D) * b
    BY <1>1
  <2> QED
    BY <1>2, <1>3, <2>1
<1> QED
  BY <1>2, <1>4
-----------------------------------------------------------------------------
(***************************************************************************)
(* What the page counts, adds up and takes the worst of.                   *)
(***************************************************************************)
LEMMA IInvMatrixOfOwnTables == IInv => MatrixOfOwnTables
<1> SUFFICES ASSUME IInv, snap /= None, NEW r \in Subscriptions(snap), NEW st \in SyncStates
             PROVE  LET shown == Column(CellsUnder(snap, r), st) > 0
                        own   == \E t \in source.tables : t.sub = r.name /\ t.state = st
                    IN  (shown => own) /\ (own /\ MatrixScans(source) => shown)
  BY DEF MatrixOfOwnTables
<1> DEFINE cell(t) == [sub |-> t.sub, state |-> t.state]
           cells == {cell(t) : t \in source.tables}
           mine == {c \in CellsUnder(snap, r) : c.state = st}
           own == \E t \in source.tables : t.sub = r.name /\ t.state = st
<1>1. PICK e \in ErrorStats(source) : snap.logical = LogicalPanel(source, e)
  BY ShownSubscription, ShownLogical DEF IInv
<1>2. snap.logical.sync_matrix = SyncMatrix(source)
  BY <1>1 DEF LogicalPanel
<1>3. \A t \in source.tables : cell(t).sub = t.sub /\ cell(t).state = t.state
  OBVIOUS
<1>4. SyncMatrix(source) \in {{}, cells}
  BY DEF SyncMatrix
<1>5. ASSUME MatrixScans(source) PROVE SyncMatrix(source) = cells
  <2>1. \A c \in cells : \E t \in source.tables :
                           t.sub = c.sub /\ t.state = c.state /\ t.lsn /= None
    BY <1>3, <1>5 DEF MatrixScans
  <2>2. \A s \in source.subs : \E t \in source.tables : t.sub = s.name
    BY <1>5 DEF MatrixScans
  <2> QED
    BY <2>1, <2>2 DEF SyncMatrix
<1>6. mine = {c \in SyncMatrix(source) : c.sub = r.name /\ c.state = st}
  BY <1>2 DEF CellsUnder
<1>7. ASSUME NEW t \in source.tables, t.sub = r.name, t.state = st
      PROVE  mine \subseteq {cell(t)}
  BY <1>3, <1>4, <1>6, <1>7
<1>8. ~own => mine = {}
  BY <1>3, <1>4, <1>6
<1>9. own /\ MatrixScans(source) => \E t \in source.tables : mine = {cell(t)}
  BY <1>3, <1>5, <1>6, <1>7
<1>10. Column(CellsUnder(snap, r), st) = Cardinality(mine)
  BY DEF Column
<1> HIDE DEF mine, cell, own
<1>11. Column(CellsUnder(snap, r), st) > 0 => own
  BY <1>8, <1>10, FS_EmptySet
<1>12. own /\ MatrixScans(source) => Column(CellsUnder(snap, r), st) > 0
  <2>1. ASSUME own, MatrixScans(source) PROVE Cardinality(mine) = 1
    <3>1. PICK t \in source.tables : mine = {cell(t)}
      BY <1>9, <2>1
    <3> QED
      BY <3>1, FS_Singleton
  <2> QED
    BY <1>10, <2>1
<1> QED
  BY <1>11, <1>12 DEF own

\* The matrix under a row has a column above zero for no state that none of the
\* subscription's own tables is in, and for each that one is in unless the query of the
\* node's matrix failed, for any number of tables.
THEOREM Panels_MatrixOfOwnTables == Spec => []MatrixOfOwnTables
BY Panels_Sourced, IInvMatrixOfOwnTables, PTL

LEMMA SlotBehind ==
    ASSUME NEW db \in Databases, NEW s \in db.subs
    PROVE  AtLeastZero(Behind(SlotOf(db, s).restart, SlotOf(db, s).confirmed)) = 0
<1> DEFINE x == SlotOf(db, s)
<1>1. x.restart \in Position /\ x.confirmed \in Position
  BY SlotOfType
<1>2. x.restart /= None /\ x.confirmed /= None => x.restart <= x.confirmed
  <2>1. CASE \E y \in db.slots : y.name = s.slot
    <3>1. x \in db.slots
      BY <2>1 DEF SlotOf
    <3> QED
      BY <3>1, DatabaseAssumption
  <2>2. CASE ~\E y \in db.slots : y.name = s.slot
    BY <2>2 DEF SlotOf, NoSlot
  <2> QED
    BY <2>1, <2>2
<1> HIDE DEF x
<1> QED
  BY <1>1, <1>2, NoneAssumption DEF Behind, AtLeastZero, Position, x

\* The bar of a row: its third segment is the lag, and the others are nothing.
LEMMA BarOfRow ==
    ASSUME NEW db \in Databases, NEW s \in db.subs
    PROVE  LET r == SubscriptionSummary(db, s)
           IN  /\ Segments(r).pubToFlush = 0 /\ Segments(r).flushToReceived = 0
               /\ Segments(r).remaining = 0
               /\ Segments(r).receivedToApplied = AtLeastZero(r.total_lag)
<1> DEFINE r == SubscriptionSummary(db, s)
           recv == Behind(s.received, s.end)
<1>1. s.received \in Position /\ s.end \in Position
  BY DatabaseAssumption DEF DatabaseType, SubType
<1>2. recv \in Int
  BY <1>1, BehindType
<1>3. r.seg_pub = 0 /\ r.seg_recv = recv /\ r.total_lag = 0 + recv
  <2>1. /\ Measure(db, s).seg_pub = 0 /\ Measure(db, s).seg_recv = recv
        /\ Measure(db, s).total_lag = 0 + recv
    BY SlotBehind DEF Measure
  <2>2. /\ r.seg_pub = Measure(db, s).seg_pub /\ r.seg_recv = Measure(db, s).seg_recv
        /\ r.total_lag = Measure(db, s).total_lag
    BY DEF SubscriptionSummary, Measure
  <2> QED
    BY <2>1, <2>2
<1> HIDE DEF r, recv
<1> QED
  BY <1>2, <1>3 DEF Segments, AtLeastZero, r

\* The lag that the strip's card shows is that of a row, or none.
LEMMA MaxLagIsARows ==
    ASSUME IInv, snap /= None
    PROVE  \/ MaxLag(snap) = 0
           \/ \E r \in Subscriptions(snap) : MaxLag(snap) = r.total_lag
<1> DEFINE rows == {r.total_lag : r \in Subscriptions(snap)}
           lags == {0} \cup rows
<1>1. IsFiniteSet(rows) /\ rows \subseteq Int
  <2>1. CASE Subscriptions(snap) = {}
    BY <2>1, FS_EmptySet
  <2>2. CASE Subscriptions(snap) /= {}
    <3>1. PICK r0 \in Subscriptions(snap) : TRUE
      BY <2>2
    <3>2. source \in Databases /\ IsFiniteSet(source.subs)
      BY DatabaseAssumption, <3>1, ShownSubscription DEF IInv
    <3> DEFINE lag == [s \in source.subs |-> SubscriptionSummary(source, s).total_lag]
               all == {lag[s] : s \in source.subs}
    <3>3. lag \in Surjection(source.subs, all)
      BY DEF Surjection
    <3>4. IsFiniteSet(all)
      BY <3>2, <3>3, FS_Surjection
    <3>5. \A s \in source.subs : lag[s] = SubscriptionSummary(source, s).total_lag /\ lag[s] \in Int
      BY <3>2, RowType
    <3> HIDE DEF lag
    <3>6. \A r \in Subscriptions(snap) : \E s \in source.subs : r.total_lag = lag[s]
      BY <3>5, ShownSubscription DEF IInv
    <3>7. rows \subseteq all
      BY <3>6
    <3> QED
      BY <3>4, <3>5, <3>7, FS_Subset
  <2> QED
    BY <2>1, <2>2
<1>2. IsFiniteSet(lags) /\ lags \subseteq Int /\ lags /= {}
  <2>1. IsFiniteSet(rows) => IsFiniteSet(rows \cup {0})
    BY FS_AddElement
  <2>2. lags = rows \cup {0}
    OBVIOUS
  <2>3. IsFiniteSet(lags)
    BY <1>1, <2>1, <2>2
  <2> QED
    BY <1>1, <2>3
<1>3. \E m \in lags : \A l \in lags : m >= l
  <2> HIDE DEF lags
  <2> QED
    BY <1>2, Largest
<1>4. MaxLag(snap) \in lags
  BY <1>3 DEF MaxLag
<1> QED
  BY <1>4

\* While the severity card says ok, so does every row.
LEMMA CalmRows ==
    ASSUME IInv, snap /= None, WorstSeverity(snap) = "ok"
    PROVE  /\ \A r \in Subscriptions(snap) : r.severity = "ok"
           /\ \A r \in Replicas(snap) : r.severity = "ok"
<1> DEFINE rows == {q.severity : q \in Subscriptions(snap)}
           reps == {q.severity : q \in Replicas(snap)}
           all  == {"ok"} \cup (rows \cup reps)
<1>1. rows \subseteq {"ok", "warn", "critical"}
  BY ShownSubscription, WhenCritical DEF IInv
<1>2. reps \subseteq {"ok", "warn", "critical"}
  BY ShownReplica, ReplicaRow DEF IInv
<1>3. WorstSeverity(snap) = CHOOSE w \in all : \A x \in all : AtLeast(w, x)
  BY DEF WorstSeverity, Worst
<1>4. /\ all \subseteq {"ok", "warn", "critical"} /\ "ok" \in all
      /\ \A r \in Subscriptions(snap) : r.severity \in all
      /\ \A r \in Replicas(snap) : r.severity \in all
  BY <1>1, <1>2
<1> HIDE DEF all
<1>5. \E w \in all : \A x \in all : AtLeast(w, x)
  <2>1. CASE "critical" \in all
    BY <1>4, <2>1, Ranks DEF AtLeast
  <2>2. CASE "critical" \notin all /\ "warn" \in all
    BY <1>4, <2>2, Ranks DEF AtLeast
  <2>3. CASE "critical" \notin all /\ "warn" \notin all
    BY <1>4, <2>3, Ranks DEF AtLeast
  <2> QED
    BY <2>1, <2>2, <2>3
<1>6. \A x \in all : AtLeast("ok", x)
  BY <1>3, <1>5
<1>7. \A x \in all : x = "ok"
  BY <1>4, <1>6, Ranks DEF AtLeast
<1> QED
  BY <1>4, <1>7

\* The row names a slot: it is not opened on all of them.
NamesSlot(r) == r.slot /= ""

\* The slot under a row of a subscription that the server calls ok is not lost.
LEMMA SlotOfOkRow ==
    ASSUME IInv, snap /= None, NEW r \in Subscriptions(snap), r.severity = "ok",
           NamesSlot(r), NEW x \in SlotsUnder(snap, r)
    PROVE  x.severity /= "critical"
<1>1. PICK s \in source.subs : r = SubscriptionSummary(source, s)
  BY ShownSubscription DEF IInv
<1>2. source \in Databases
  BY DEF IInv, Sourced
<1>3. r.slot = s.slot /\ r.wal_status = SlotOf(source, s).wal_status
  BY <1>1 DEF SubscriptionSummary, Measure
<1>4. x \in Slots(snap) /\ x.name = s.slot
  BY <1>3, Zenon DEF SlotsUnder, NamesSlot
<1>5. PICK y \in source.slots : x = SlotHealth(source, y)
  <2>1. snap.slots = List({SlotHealth(source, y) : y \in source.slots})
    BY ShownPanels DEF IInv
  <2> QED
    BY <1>4, <2>1 DEF Slots, List, OrEmpty
<1>6. x.severity = "critical" => y.wal_status = "lost"
  BY <1>5 DEF SlotHealth, slotSeverity
<1>7. SlotOf(source, s) = y
  <2>1. y.name = s.slot
    BY <1>4, <1>5 DEF SlotHealth
  <2>2. \A z \in source.slots : z.name = s.slot => z = y
    BY <1>2, <2>1, DatabaseAssumption
  <2> QED
    BY <2>1, <2>2 DEF SlotOf
<1>8. r.wal_status /= "lost"
  BY <1>1, <1>2, WhenCritical
<1> QED
  BY <1>3, <1>6, <1>7, <1>8

LEMMA IInvCalmStripHides == IInv => CalmStripHides
<1> SUFFICES ASSUME IInv, thresholds = DEFAULT_THRESHOLDS, snap /= None,
                    WorstSeverity(snap) = "ok"
             PROVE  CalmStripHides
  BY Zenon DEF CalmStripHides
<1>1. source \in Databases
  BY DEF IInv, Sourced
<1>2. ASSUME NEW r \in Subscriptions(snap)
      PROVE  /\ r.total_lag \in Int /\ r.retention \in Int /\ r.recv_age \in Int
             /\ r.apply_errors \in Nat /\ r.conflicts \in [ConflictKinds -> Nat]
             /\ r.total_lag < 1048576 /\ r.retention < 52428800
             /\ r.apply_errors < 5 /\ ConflictTotal(r.conflicts) < 100
             /\ r.recv_age <= 300
  <2>1. PICK s \in source.subs : r = SubscriptionSummary(source, s)
    BY ShownSubscription DEF IInv
  <2>2. /\ r.total_lag \in Int /\ r.retention \in Int /\ r.recv_age \in Int
        /\ r.apply_errors \in Nat /\ r.conflicts \in [ConflictKinds -> Nat]
    BY <1>1, <2>1, RowType
  <2>3. r.severity = "ok"
    BY CalmRows
  <2>4. /\ r.total_lag < 1048576 /\ r.retention < 52428800
        /\ r.apply_errors < 5 /\ \A k \in ConflictKinds : r.conflicts[k] < 10
        /\ r.recv_age <= 300
    BY <1>1, <2>1, <2>3, WhenCritical
  <2> QED
    BY <2>2, <2>4, SumOfConflicts
<1>3. LagCard(snap) /= "alert"
  <2>1. MaxLag(snap) \in Int /\ MaxLag(snap) < 1048576
    BY <1>2, MaxLagIsARows
  <2> QED
    BY <2>1 DEF LagCard, MB, GB
<1>4. ASSUME NEW r \in Subscriptions(snap) PROVE ~Alarming(WithoutSpill(Cells(r)))
  <2>1. ConflictTotal(r.conflicts) \in Int
    BY <1>2, SumOfConflicts
  <2> QED
    BY <1>2, <2>1, WhenRed
<1>5. ASSUME NEW r \in Subscriptions(snap)
      PROVE  ~Alarming([seg \in DOMAIN Segments(r) |-> Outline(r, seg)])
  <2> DEFINE bar == [seg \in DOMAIN Segments(r) |-> Outline(r, seg)]
  <2>1. PICK s \in source.subs : r = SubscriptionSummary(source, s)
    BY ShownSubscription DEF IInv
  <2>2. /\ Segments(r).pubToFlush = 0 /\ Segments(r).flushToReceived = 0
        /\ Segments(r).remaining = 0
        /\ Segments(r).receivedToApplied = AtLeastZero(r.total_lag)
    BY <1>1, <2>1, BarOfRow
  <2>3. DOMAIN Segments(r) = {"pubToFlush", "flushToReceived", "receivedToApplied", "remaining"}
    BY DEF Segments
  <2>4. AtLeastZero(r.total_lag) \in Int /\ AtLeastZero(r.total_lag) < 1048576
    BY <1>2 DEF AtLeastZero
  <2>5. \A seg \in DOMAIN Segments(r) : Segments(r)[seg] \in Int /\ Segments(r)[seg] < 1048576
    BY <2>2, <2>3, <2>4
  <2>6. ASSUME NEW v \in Int, v < 1048576 PROVE ~AtLeast(segmentSeverity(v), "alert")
    BY <2>6, DefaultLimits, AlarmsFromAlert DEF segmentSeverity
  <2>7. ~AtLeast("ok", "alert")
    BY Ranks DEF AtLeast
  <2>8. \A seg \in DOMAIN Segments(r) : ~AtLeast(Outline(r, seg), "alert")
    BY <2>5, <2>6, <2>7 DEF Outline
  <2> QED
    BY <2>8 DEF Alarming
<1>6. ASSUME NEW r \in Subscriptions(snap) PROVE ErrorGrid(snap, r).total < 100
  <2>1. PICK q \in Subscriptions(snap) : ErrorGrid(snap, r).total = GridTotal(q.conflicts)
    BY GridOfNamesake
  <2>2. /\ ConflictTotal(q.conflicts) \in Nat /\ ConflictTotal(q.conflicts) < 100
        /\ GridTotal(q.conflicts) \in Nat /\ GridTotal(q.conflicts) <= ConflictTotal(q.conflicts)
    BY <1>2, SumOfConflicts
  <2> QED
    BY <2>1, <2>2
<1>7. ASSUME NEW r \in Subscriptions(snap), Row(snap, r).tint /= "none"
      PROVE  \E w \in WorkersUnder(snap, r) : ~w.alive
  <2>1. ~(r.recv_age > 300)
    BY <1>2
  <2> QED
    BY <1>7, <2>1 DEF Row
<1>8. ASSUME NEW r \in Subscriptions(snap), NamesSlot(r), NEW x \in SlotsUnder(snap, r)
      PROVE  x.severity /= "critical"
  BY <1>8, CalmRows, SlotOfOkRow
<1>9. ASSUME NEW r \in Replicas(snap), Alarming(LagCells(r)) PROVE RedAlone(r)
  BY <1>9, CalmRows, OkReplicaIsRedAlone
<1> QED
  BY <1>3, <1>4, <1>5, <1>6, <1>7, <1>8, <1>9, Zenon DEF CalmStripHides, NamesSlot

\* What may be red below a severity card that says ok, with the default thresholds and
\* for any number of rows: workers and the rows they tint, spill, slots that no row
\* above them names, flush lags, and a replica's lag of 300 s to the second.
THEOREM Panels_CalmStripHides == Spec => []CalmStripHides
BY Panels_Sourced, IInvCalmStripHides, PTL

LEMMA SpillCardHasSlot ==
    ASSUME NEW s, NEW D, D = s.logical.spill_stats, IsFiniteSet(D),
           \A d \in D : d.spill_pct \in Int, D /= {}
    PROVE  \E d \in D : AtLeast(pctSeverity(d.spill_pct, 1), SpillCard(s))
<1> DEFINE sum == SumSpill(s)
           n == Cardinality(D)
<1>1. ASSUME NEW b \in Int, sum >= n * b PROVE \E d \in D : d.spill_pct >= b
  BY <1>1, AverageHasWitness
<1>2. \A b \in Int : sum >= n * b => \E d \in D : d.spill_pct >= b
  BY <1>1
<1>3. /\ sum >= n * 80 => \E d \in D : d.spill_pct >= 80
      /\ sum >= n * 50 => \E d \in D : d.spill_pct >= 50
      /\ sum >= n * 20 => \E d \in D : d.spill_pct >= 20
  <2> DEFINE reached(b) == sum >= n * b => \E d \in D : d.spill_pct >= b
  <2>1. \A b \in Int : reached(b)
    BY <1>2
  <2> HIDE DEF reached
  <2>2. reached(80) /\ reached(50) /\ reached(20)
    BY <2>1
  <2> QED
    BY <2>2 DEF reached
<1>4. DEFAULT_THRESHOLDS["spill_pct"] = Triple(20, 50, 80)
  BY DEF DEFAULT_THRESHOLDS, ThresholdKeys
<1>5. \A x, m : pctSeverity(x, m) = IF x >= m * 80 THEN "critical"
                                    ELSE IF x >= m * 50 THEN "alert"
                                    ELSE IF x >= m * 20 THEN "warn" ELSE "ok"
  BY <1>4 DEF pctSeverity, severityForValue, Levels, Triple
<1>6. \A d \in D : pctSeverity(d.spill_pct, 1) = IF d.spill_pct >= 80 THEN "critical"
                                                 ELSE IF d.spill_pct >= 50 THEN "alert"
                                                 ELSE IF d.spill_pct >= 20 THEN "warn" ELSE "ok"
  BY <1>5
<1>7. SpillCard(s) = IF sum >= n * 80 THEN "critical"
                     ELSE IF sum >= n * 50 THEN "alert"
                     ELSE IF sum >= n * 20 THEN "warn" ELSE "ok"
  BY <1>5 DEF SpillCard
<1> HIDE DEF sum, n
<1>8. CASE sum >= n * 80
  BY <1>3, <1>6, <1>7, <1>8, Ranks DEF AtLeast
<1>9. CASE ~(sum >= n * 80) /\ sum >= n * 50
  <2>1. PICK d \in D : d.spill_pct >= 50
    BY <1>3, <1>9
  <2>2. pctSeverity(d.spill_pct, 1) \in {"critical", "alert"} /\ SpillCard(s) = "alert"
    BY <1>6, <1>7, <1>9, <2>1
  <2> QED
    BY <2>2, Ranks DEF AtLeast
<1>10. CASE ~(sum >= n * 80) /\ ~(sum >= n * 50) /\ sum >= n * 20
  <2>1. PICK d \in D : d.spill_pct >= 20
    BY <1>3, <1>10
  <2>2. pctSeverity(d.spill_pct, 1) \in {"critical", "alert", "warn"} /\ SpillCard(s) = "warn"
    BY <1>6, <1>7, <1>10, <2>1
  <2> QED
    BY <2>2, Ranks DEF AtLeast
<1>11. CASE ~(sum >= n * 80) /\ ~(sum >= n * 50) /\ ~(sum >= n * 20)
  <2>1. PICK d \in D : TRUE
    OBVIOUS
  <2>2. pctSeverity(d.spill_pct, 1) \in Severities /\ SpillCard(s) = "ok"
    BY <1>6, <1>7, <1>11 DEF Severities
  <2> QED
    BY <2>2, Ranks DEF AtLeast, Severities
<1> QED
  BY <1>8, <1>9, <1>10, <1>11

LEMMA IInvSummariesMatchRows == IInv => SummariesMatchRows
<1> SUFFICES ASSUME IInv, snap /= None PROVE SummariesMatchRows
  BY DEF SummariesMatchRows
<1>1. source \in Databases
  BY DEF IInv, Sourced
<1> DEFINE lagging == thresholds["total_lag_bytes"] = DEFAULT_THRESHOLDS["total_lag_bytes"]
<1>2. ASSUME lagging, NEW r \in Subscriptions(snap)
      PROVE  /\ r.total_lag \in Int
             /\ Cells(r).total = severityForValue(r.total_lag, Triple(102400, 1048576, 10485760))
             /\ \A seg \in DOMAIN Segments(r) : AtLeast(Cells(r).total, Outline(r, seg))
  <2>1. PICK s \in source.subs : r = SubscriptionSummary(source, s)
    BY ShownSubscription DEF IInv
  <2>2. r.total_lag \in Int
    BY <1>1, <2>1, RowType
  <2>3. /\ Segments(r).pubToFlush = 0 /\ Segments(r).flushToReceived = 0
        /\ Segments(r).remaining = 0
        /\ Segments(r).receivedToApplied = AtLeastZero(r.total_lag)
    BY <1>1, <2>1, BarOfRow
  <2>4. Cells(r).total = severityForValue(r.total_lag, Triple(102400, 1048576, 10485760))
    BY <1>2, DefaultLimits DEF Cells, CellsWith
  <2>5. r.total_lag <= 0 => Cells(r).total = "ok"
    BY <2>2, <2>4 DEF severityForValue, Triple, Levels
  <2>6. r.total_lag > 0 => Segments(r)["receivedToApplied"] = r.total_lag
    BY <2>2, <2>3 DEF AtLeastZero
  <2>7. Outline(r, "receivedToApplied") = Cells(r).total
    BY <2>2, <2>4, <2>5, <2>6, DefaultLimits DEF Outline, segmentSeverity
  <2>8. /\ Outline(r, "pubToFlush") = "ok" /\ Outline(r, "flushToReceived") = "ok"
        /\ Outline(r, "remaining") = "ok"
    BY <2>3, DefaultLimits DEF Outline, segmentSeverity, severityForValue, Triple
  <2>9. Cells(r).total \in Severities
    BY <2>4 DEF severityForValue, Severities
  <2>10. AtLeast(Cells(r).total, "ok") /\ AtLeast(Cells(r).total, Cells(r).total)
    BY <2>9, Ranks DEF AtLeast, Severities
  <2>11. DOMAIN Segments(r) = {"pubToFlush", "flushToReceived", "receivedToApplied", "remaining"}
    BY DEF Segments
  <2> QED
    BY <2>2, <2>4, <2>7, <2>8, <2>10, <2>11
<1>3. ASSUME lagging, LagCard(snap) /= "ok"
      PROVE  \E r \in Subscriptions(snap) : AtLeast(Cells(r).total, LagCard(snap))
  <2>1. MaxLag(snap) /= 0
    BY <1>3 DEF LagCard, MB, GB
  <2>2. PICK r \in Subscriptions(snap) : MaxLag(snap) = r.total_lag
    BY <2>1, MaxLagIsARows
  <2>3. LagCard(snap) = IF r.total_lag > 1048576 THEN "alert"
                        ELSE IF r.total_lag > 102400 THEN "warn" ELSE "ok"
    BY <2>2 DEF LagCard, MB, GB
  <2>4. /\ r.total_lag \in Int
        /\ Cells(r).total = IF r.total_lag >= 10485760 THEN "critical"
                            ELSE IF r.total_lag >= 1048576 THEN "alert"
                            ELSE IF r.total_lag >= 102400 THEN "warn" ELSE "ok"
    BY <1>2, <1>3 DEF severityForValue, Triple
  <2> QED
    BY <1>3, <2>3, <2>4, Ranks DEF AtLeast
<1>4. ASSUME snap.logical /= None, snap.logical.spill_stats /= {}
      PROVE  \E d \in snap.logical.spill_stats :
                AtLeast(pctSeverity(d.spill_pct, 1), SpillCard(snap))
  <2>1. PICK e \in ErrorStats(source) : snap.logical = LogicalPanel(source, e)
    BY <1>4, ShownLogical DEF IInv
  <2>2. snap.logical.spill_stats = source.spill
    BY <2>1 DEF LogicalPanel
  <2>3. IsFiniteSet(source.spill) /\ \A d \in source.spill : d.spill_pct \in Int
    BY <1>1, DatabaseAssumption DEF DatabaseType, SpillType
  <2> QED
    BY <1>4, <2>2, <2>3, SpillCardHasSlot
<1> QED
  BY <1>2, <1>3, <1>4 DEF SummariesMatchRows

\* While the thresholds of the lag are the default ones, no segment of a bar is worse than
\* its row's cell and the strip's card no worse than some row; and the average over any
\* number of slots is no worse than some slot.
THEOREM Panels_SummariesMatchRows == Spec => []SummariesMatchRows
BY Panels_Sourced, IInvSummariesMatchRows, PTL
-----------------------------------------------------------------------------
(***************************************************************************)
(* The rate cards.                                                         *)
(***************************************************************************)
Recent ==
    /\ delivered \in Seq(Int)
    /\ history = SubSeq(delivered, 1 + AtLeastZero(Len(delivered) - HISTORY_LEN), Len(delivered))
Drawn ==
    /\ page \in {"welcome", "dashboard", "blank"}
    /\ openSubs \subseteq STRING /\ openReplicas \subseteq STRING
    /\ source \in Databases \cup {None}

\* What the end of a sequence is.
LEMMA EndOf ==
    ASSUME NEW d \in Seq(Int), NEW k \in Nat, k <= Len(d)
    PROVE  LET s == SubSeq(d, 1 + k, Len(d))
           IN  /\ s \in Seq(Int) /\ Len(s) = Len(d) - k
               /\ \A i \in 1..(Len(d) - k) : s[i] = d[k + i]
<1>1. Len(d) \in Nat
  BY LenProperties
<1>2. \A i \in (1 + k)..Len(d) : d[i] \in Int
  BY ElementOfSeq
<1> QED
  BY <1>1, <1>2, SubSeqProperties

\* Two ends of sequences with one more element after the first.
LEMMA ShortPush ==
    ASSUME NEW v \in Int, NEW h \in Seq(Int), NEW q \in Seq(Int), NEW m \in Nat, m > 0,
           Len(h) < m, Len(q) = Len(h) + 1, q[Len(q)] = v, \A i \in 1..Len(h) : q[i] = h[i]
    PROVE  pushSeries(h, v, m) = q
<1> DEFINE p == Append(h, v)
<1>0. Len(h) \in Nat
  BY LenProperties
<1>1. pushSeries(h, v, m) = p
  BY <1>0 DEF pushSeries
<1>2. /\ p \in Seq(Int) /\ Len(p) = Len(h) + 1 /\ p[Len(h) + 1] = v
      /\ \A i \in 1..Len(h) : p[i] = h[i]
  BY AppendProperties
<1> HIDE DEF p
<1>3. ASSUME NEW i \in 1..Len(p) PROVE p[i] = q[i]
  <2>1. i \in 1..Len(h) \/ i = Len(h) + 1
    BY <1>0, <1>2
  <2> QED
    BY <1>2, <2>1
<1>4. p = q
  BY <1>2, <1>3, SeqEqual
<1> QED
  BY <1>1, <1>4

LEMMA FullPush ==
    ASSUME NEW v \in Int, NEW h \in Seq(Int), NEW q \in Seq(Int), NEW m \in Nat, m > 0,
           Len(h) = m, Len(q) = m, q[m] = v, \A i \in 1..(m - 1) : q[i] = h[i + 1]
    PROVE  pushSeries(h, v, m) = q
<1> DEFINE u == Tail(h)
           p == Append(u, v)
<1>1. pushSeries(h, v, m) = p
  BY DEF pushSeries
<1>2. h /= <<>>
  BY EmptySeq
<1>3. u \in Seq(Int) /\ Len(u) = m - 1 /\ \A i \in 1..(m - 1) : u[i] = h[i + 1]
  BY <1>2, HeadTailProperties
<1> HIDE DEF u
<1>4. /\ p \in Seq(Int) /\ Len(p) = m /\ p[m] = v
      /\ \A i \in 1..(m - 1) : p[i] = u[i]
  BY <1>3, AppendProperties
<1> HIDE DEF p
<1>5. ASSUME NEW i \in 1..Len(p) PROVE p[i] = q[i]
  <2>1. i \in 1..(m - 1) \/ i = m
    BY <1>4
  <2> QED
    BY <1>3, <1>4, <2>1
<1>6. p = q
  BY <1>4, <1>5, SeqEqual
<1> QED
  BY <1>1, <1>6

\* pushSeries keeps the end of what was pushed.
LEMMA PushKeepsTheEnd ==
    ASSUME NEW d \in Seq(Int), NEW v \in Int, NEW m \in Nat, m > 0
    PROVE  pushSeries(SubSeq(d, 1 + AtLeastZero(Len(d) - m), Len(d)), v, m)
             = SubSeq(Append(d, v), 1 + AtLeastZero(Len(d) + 1 - m), Len(d) + 1)
<1> DEFINE n == Len(d)
           k == AtLeastZero(n - m)
           j == AtLeastZero(n + 1 - m)
           e == Append(d, v)
           h == SubSeq(d, 1 + k, n)
           q == SubSeq(e, 1 + j, n + 1)
<1>1. n \in Nat /\ k \in Nat /\ k <= n /\ j \in Nat /\ j <= n + 1
  BY LenProperties DEF AtLeastZero
<1>2. /\ n < m => k = 0 /\ j = 0
      /\ n >= m => k = n - m /\ j = k + 1
  BY <1>1 DEF AtLeastZero
<1>3. e \in Seq(Int) /\ Len(e) = n + 1 /\ e[n + 1] = v /\ \A i \in 1..n : e[i] = d[i]
  BY AppendProperties
<1> HIDE DEF k, j, e
<1>4. h \in Seq(Int) /\ Len(h) = n - k /\ \A i \in 1..(n - k) : h[i] = d[k + i]
  BY <1>1, EndOf
<1>5. q \in Seq(Int) /\ Len(q) = n + 1 - j /\ \A i \in 1..(n + 1 - j) : q[i] = e[j + i]
  BY <1>1, <1>3, EndOf
<1> HIDE DEF n, h, q
<1>6. pushSeries(h, v, m) = q
  <2>1. CASE n < m
    <3>1. Len(h) = n /\ Len(q) = n + 1 /\ k = 0 /\ j = 0
      BY <1>1, <1>2, <1>4, <1>5, <2>1
    <3>2. q[n + 1] = v
      BY <1>1, <1>3, <1>5, <3>1
    <3>3. ASSUME NEW i \in 1..n PROVE q[i] = h[i]
      <4>1. q[i] = e[i] /\ h[i] = d[i]
        BY <1>1, <1>4, <1>5, <3>1
      <4> QED
        BY <1>3, <4>1
    <3> QED
      BY <1>1, <1>4, <1>5, <2>1, <3>1, <3>2, <3>3, ShortPush
  <2>2. CASE n >= m
    <3>1. Len(h) = m /\ Len(q) = m /\ j = k + 1 /\ k = n - m
      BY <1>1, <1>2, <1>4, <1>5, <2>2
    <3>2. q[m] = v
      BY <1>1, <1>3, <1>5, <3>1
    <3>3. ASSUME NEW i \in 1..(m - 1) PROVE q[i] = h[i + 1]
      <4>1. q[i] = e[k + 1 + i] /\ h[i + 1] = d[k + (i + 1)]
        BY <1>1, <1>4, <1>5, <3>1
      <4>2. k + (i + 1) = k + 1 + i /\ k + 1 + i \in 1..n
        BY <1>1, <3>1
      <4> QED
        BY <1>3, <4>1, <4>2
    <3>4. h \in Seq(Int) /\ q \in Seq(Int) /\ Len(h) = m /\ Len(q) = m
      BY <1>4, <1>5, <3>1
    <3> HIDE DEF h, q
    <3> QED
      BY ONLY v \in Int, m \in Nat, m > 0, <3>2, <3>3, <3>4, FullPush
  <2> QED
    BY <1>1, <2>1, <2>2
<1> QED
  BY <1>6 DEF n, h, q, e, k, j

LEMMA NamesAreStrings ==
    ASSUME IInv, snap /= None
    PROVE  /\ \A r \in Subscriptions(snap) : r.name \in STRING
           /\ \A r \in Replicas(snap) : r.app \in STRING
<1>1. ASSUME NEW r \in Subscriptions(snap) PROVE r.name \in STRING
  <2>1. PICK s \in source.subs : r = SubscriptionSummary(source, s) /\ source \in Databases
    BY ShownSubscription DEF IInv
  <2>2. r.name = s.name
    BY <2>1 DEF SubscriptionSummary, Measure
  <2> QED
    BY <2>1, <2>2, DatabaseAssumption DEF DatabaseType, SubType
<1>2. ASSUME NEW r \in Replicas(snap) PROVE r.app \in STRING
  <2>1. PICK x \in source.replicas : r = PhysicalReplicaStat(x) /\ source \in Databases
    BY ShownReplica DEF IInv
  <2>2. r.app = x.app
    BY <2>1 DEF PhysicalReplicaStat
  <2> QED
    BY <2>1, <2>2, DatabaseAssumption DEF DatabaseType, ReplicaType
<1> QED
  BY <1>1, <1>2

\* The rate of a snapshot with a logical panel, and what its effect pushes.
LEMMA EffectKeepsRecent ==
    ASSUME NEW db \in Databases, NEW s \in BuildSnapshot(db), Recent, RateEffect(s)
    PROVE  Recent'
<1>1. CASE s.logical = None
  BY <1>1 DEF RateEffect, Recent
<1>2. CASE s.logical /= None
  <2>1. PICK e \in ErrorStats(db) : s = SnapshotWith(db, e)
    BY DEF BuildSnapshot
  <2>2. s.logical = LogicalPanel(db, e)
    BY <1>2, <2>1 DEF SnapshotWith
  <2>3. s.logical.rate = db.rate
    BY <2>2 DEF LogicalPanel
  <2>4. s.logical.rate \in Int
    BY <2>3, DatabaseAssumption DEF DatabaseType
  <2>5. /\ history' = pushSeries(history, s.logical.rate, HISTORY_LEN)
        /\ delivered' = Append(delivered, s.logical.rate)
    BY <1>2 DEF RateEffect
  <2>6. delivered' \in Seq(Int) /\ Len(delivered') = Len(delivered) + 1
    BY <2>4, <2>5, AppendProperties DEF Recent
  <2>7. HISTORY_LEN \in Nat /\ HISTORY_LEN > 0
    BY HistoryAssumption
  <2>8. history' = SubSeq(Append(delivered, s.logical.rate),
                          1 + AtLeastZero(Len(delivered) + 1 - HISTORY_LEN),
                          Len(delivered) + 1)
    BY <2>4, <2>5, <2>7, PushKeepsTheEnd DEF Recent
  <2>9. Len(delivered) + 1 - HISTORY_LEN = Len(delivered') - HISTORY_LEN
    BY <2>6, <2>7, LenProperties DEF Recent
  <2>10. history' = SubSeq(delivered', 1 + AtLeastZero(Len(delivered') - HISTORY_LEN),
                           Len(delivered'))
    BY <2>5, <2>6, <2>8, <2>9, Zenon
  <2> QED
    BY <2>6, <2>10 DEF Recent
<1> QED
  BY <1>1, <1>2

LEMMA EmptyIsRecent ==
    <<>> = SubSeq(<<>>, 1 + AtLeastZero(Len(<<>>) - HISTORY_LEN), Len(<<>>))
<1>1. <<>> \in Seq(Int) /\ Len(<<>>) = 0
  BY EmptySeq
<1>2. AtLeastZero(Len(<<>>) - HISTORY_LEN) = 0
  BY <1>1, HistoryAssumption DEF AtLeastZero
<1> QED
  BY <1>1, <1>2, EndOf, EmptySeq

LEMMA ForgetIsRecent == ForgetLocal => Recent' /\ openSubs' = {} /\ openReplicas' = {}
BY EmptyIsRecent, EmptySeq DEF ForgetLocal, Recent

\* The history of the rate cards is the end of what was delivered since the mount.
THEOREM Panels_Recent == Spec => [](Recent /\ Drawn)
<1>1. Init => Recent /\ Drawn
  BY EmptyIsRecent, EmptySeq DEF Init, Recent, Drawn
<1>2. IInv /\ Recent /\ Drawn /\ [Next]_vars => Recent' /\ Drawn'
  <2> SUFFICES ASSUME IInv, Recent, Drawn, [Next]_vars PROVE Recent' /\ Drawn'
    OBVIOUS
  <2>1. CASE Mount
    <3>1. CASE snap = None
      BY <2>1, <3>1 DEF Mount, Recent, Drawn
    <3>2. CASE snap /= None
      <4>1. RateEffect(snap) /\ source \in Databases /\ snap \in BuildSnapshot(source)
        BY <2>1, <3>2 DEF Mount, IInv, Sourced
      <4> QED
        BY <2>1, <4>1, EffectKeepsRecent DEF Mount, Drawn
    <3> QED
      BY <3>1, <3>2
  <2>2. CASE Unmount
    BY <2>2, ForgetIsRecent DEF Unmount, Drawn
  <2>3. CASE Reload
    BY <2>3, ForgetIsRecent DEF Reload, Drawn
  <2>4. CASE restoreDefaults
    BY <2>4 DEF restoreDefaults, local, Recent, Drawn
  <2>5. ASSUME NEW db \in Databases, Tick(db) PROVE Recent' /\ Drawn'
    <3>1. PICK s \in BuildSnapshot(db) :
             IF RenderThrows(s)
             THEN page' = "blank" /\ ForgetLocal
             ELSE /\ page' = page
                  /\ RateEffect(s)
                  /\ openSubs' = IF s.logical = None THEN {} ELSE openSubs
                  /\ openReplicas' = IF s.physical = None THEN {} ELSE openReplicas
      BY <2>5 DEF Tick
    <3>2. source' \in Databases \cup {None}
      BY <2>5 DEF Tick
    <3>3. CASE RenderThrows(s)
      <4>1. page' = "blank" /\ ForgetLocal
        BY <3>1, <3>3
      <4> QED
        BY <3>2, <4>1, ForgetIsRecent DEF Drawn
    <3>4. CASE ~RenderThrows(s)
      <4>1. /\ page' = page /\ RateEffect(s)
            /\ openSubs' \subseteq openSubs /\ openReplicas' \subseteq openReplicas
        BY <3>1, <3>4
      <4> QED
        BY <3>2, <4>1, EffectKeepsRecent DEF Drawn
    <3> QED
      BY <3>3, <3>4
  <2>6. ASSUME snap /= None, NEW r \in Subscriptions(snap), ToggleSub(r.name)
        PROVE  Recent' /\ Drawn'
    <3>1. r.name \in STRING
      BY <2>6, NamesAreStrings
    <3> QED
      BY <2>6, <3>1 DEF ToggleSub, Recent, Drawn
  <2>7. ASSUME snap /= None, NEW r \in Replicas(snap), ToggleReplica(r.app)
        PROVE  Recent' /\ Drawn'
    <3>1. r.app \in STRING
      BY <2>7, NamesAreStrings
    <3> QED
      BY <2>7, <3>1 DEF ToggleReplica, Recent, Drawn
  <2>8. ASSUME NEW e \in Edits, setThresholdField(e[1], e[2], e[3]) PROVE Recent' /\ Drawn'
    BY <2>8 DEF setThresholdField, local, Recent, Drawn
  <2>9. CASE UNCHANGED vars
    BY <2>9 DEF vars, local, Recent, Drawn
  <2> QED
    BY <2>1, <2>2, <2>3, <2>4, <2>5, <2>6, <2>7, <2>8, <2>9 DEF Next
<1> QED
  BY <1>1, <1>2, Panels_Sourced, PTL DEF Spec

LEMMA RecentLength ==
    ASSUME Recent
    PROVE  LET n == Len(delivered)
               k == AtLeastZero(n - HISTORY_LEN)
           IN  /\ n \in Nat /\ k \in Nat /\ n - k <= HISTORY_LEN
               /\ n > 1 /\ HISTORY_LEN > 1 => n - k >= 2
               /\ history \in Seq(Int) /\ Len(history) = n - k
               /\ \A i \in 1..(n - k) : history[i] = delivered[k + i]
<1> DEFINE n == Len(delivered)
           k == AtLeastZero(n - HISTORY_LEN)
<1>0. HISTORY_LEN \in Nat /\ HISTORY_LEN > 0
  BY HistoryAssumption
<1>1. delivered \in Seq(Int) /\ n \in Nat /\ history = SubSeq(delivered, 1 + k, n)
  BY LenProperties DEF Recent
<1>2. /\ k \in Nat /\ k <= n /\ n - k <= HISTORY_LEN
      /\ n > 1 /\ HISTORY_LEN > 1 => n - k >= 2
  BY <1>0, <1>1 DEF AtLeastZero
<1> HIDE DEF k
<1>3. /\ history \in Seq(Int) /\ Len(history) = n - k
      /\ \A i \in 1..(n - k) : history[i] = delivered[k + i]
  BY <1>1, <1>2, EndOf
<1> QED
  BY <1>1, <1>2, <1>3 DEF k

\* Every variable keeps its type, and a rate card its length.
THEOREM Panels_Type == Spec => []TypeOK
<1>1. IInv /\ Recent /\ Drawn => TypeOK
  <2> SUFFICES ASSUME IInv, Recent, Drawn PROVE TypeOK
    OBVIOUS
  <2>1. history \in Seq(Int) /\ Len(history) <= HISTORY_LEN
    BY RecentLength, HistoryAssumption
  <2> QED
    BY <2>1 DEF TypeOK, IInv, Limits, Drawn, Recent
<1> QED
  BY <1>1, Panels_Sourced, Panels_Recent, PTL

LEMMA RecentIsHistory == Recent => HistoryIsRecent
<1> SUFFICES ASSUME Recent PROVE HistoryIsRecent
  OBVIOUS
<1> DEFINE n == Len(delivered)
           k == AtLeastZero(n - HISTORY_LEN)
<1>1. /\ n \in Nat /\ k \in Nat
      /\ n > 1 /\ HISTORY_LEN > 1 => n - k >= 2
      /\ Len(history) = n - k
      /\ \A i \in 1..(n - k) : history[i] = delivered[k + i]
  BY RecentLength
<1> HIDE DEF k
<1>2. ASSUME n > 1, delivered[n - 1] > 0, HISTORY_LEN > 1
      PROVE  RateDelta(history, delivered[n]) = delivered[n] - delivered[n - 1]
  <2>1. n - k >= 2
    BY <1>1, <1>2
  <2>2. n - k - 1 \in 1..(n - k) /\ k + (n - k - 1) = n - 1
    BY <1>1, <2>1
  <2>3. history[Len(history) - 1] = delivered[n - 1]
    BY <1>1, <2>2
  <2>4. delivered[n - 1] \in Int
    BY <1>1, <1>2, ElementOfSeq DEF Recent
  <2> QED
    BY <1>1, <1>2, <2>1, <2>3, <2>4 DEF RateDelta
<1> QED
  BY <1>2 DEF HistoryIsRecent, Recent, k

\* The curve and the change it shows are of the last snapshots, for any length.
THEOREM Panels_HistoryIsRecent == Spec => []HistoryIsRecent
BY Panels_Recent, RecentIsHistory, PTL
=============================================================================
