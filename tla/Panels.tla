------------------------------- MODULE Panels -------------------------------
(***************************************************************************)
(* The panels of the dashboard: from the rows PostgreSQL returns, over the *)
(* snapshot the server builds of them, to the colours, counts and charts   *)
(* the page draws, with what the panels keep between two snapshots.        *)
(*                                                                         *)
(* The panels draw what currentSnapshot returns, which is an input of this *)
(* module: the snapshots of one node, as if that were the current one.     *)
(* Dashboard shows that no node ever is (CurrentNodeKnown); what is stated *)
(* here is of the panels themselves.                                       *)
(*                                                                         *)
(* Positions of the WAL are in kB.  What a string can only be equal to is  *)
(* a string; every other text and the layout are left out.                 *)
(***************************************************************************)
EXTENDS Health, Sequences, FiniteSetsExt

CONSTANTS
    Databases,     \* what the queries of one build may find
    Edits,         \* what the user may type: <<key, level, number>>
    HISTORY_LEN,   \* samples a rate card keeps
    MaxTicks,      \* bound: logical snapshots shown since the dashboard was mounted
    None,          \* SQL's NULL, an omitted panel, no snapshot
    Null           \* a list that is null in JSON

VARIABLES
    page,          \* "welcome", "dashboard", or "blank" after a render threw
    snap,          \* currentSnapshot
    source,        \* history: the database snap was built from
    thresholds,    \* store, persisted
    openSubs,      \* SubscriptionTable: expanded, by subname
    openReplicas,  \* ReplicaTable: expanded, by application_name
    history,       \* RateCards: historyRef (its four series are pushed together)
    delivered      \* history: the rates of the snapshots shown since the mount

local == <<openSubs, openReplicas, history, delivered>>
vars  == <<page, snap, source, thresholds, local>>
-----------------------------------------------------------------------------
(***************************************************************************)
(* What the queries find.                                                  *)
(***************************************************************************)
Kinds == {"logical", "physical", "hybrid", "standalone", ""}
SyncStates == {"i", "d", "f", "s", "r"}
Position == Nat \cup {None}

SlotType     == [name : STRING, restart : Position, confirmed : Position,
                 wal_status : STRING, active : BOOLEAN, inactive : Int]
SubType      == [oid : Nat, name : STRING, slot : STRING, received : Position,
                 end : Position, apply_errors : Nat, conflicts : [ConflictKinds -> Nat],
                 recv_age : Int]
TableType    == [relid : Nat, sub : STRING, state : SyncStates, lsn : Position]
WorkerType   == [id : Nat, sub : STRING, pid : Position, backend : BOOLEAN, recv_age : Int]
ReplicaType  == [pid : Nat, app : STRING, replied : BOOLEAN, write_lag : Int,
                 flush_lag : Int, replay_lag : Int]
SpillType    == [slot : STRING, spill_pct : Int, spill_bytes : Int]
DatabaseType == [kind : Kinds, wal : Nat, slots : SUBSET SlotType, subs : SUBSET SubType,
                 tables : SUBSET TableType, workers : SUBSET WorkerType,
                 replicas : SUBSET ReplicaType, spill : SUBSET SpillType, rate : Int]

\* A slot has a name of its own and restarts from where it confirmed or before.  The
\* workers' view has a row for each subscription, of NULLs when no process runs for
\* it; two rows of one subname are namesakes of two databases of the server, or the
\* apply worker and a parallel one of the same subscription.
ASSUME DatabaseAssumption ==
    \A db \in Databases :
        /\ db \in DatabaseType
        /\ \A x, y \in db.slots : x.name = y.name => x = y
        /\ \A x \in db.slots :
             x.restart /= None /\ x.confirmed /= None => x.restart <= x.confirmed
        /\ \A s \in db.subs : \E w \in db.workers : w.sub = s.name
        /\ \A w \in db.workers : w.backend => w.pid /= None
        /\ IsFiniteSet(db.subs) /\ IsFiniteSet(db.spill) /\ IsFiniteSet(db.tables)
ASSUME EditAssumption == Edits \subseteq ThresholdKeys \X Levels \X Int
ASSUME HistoryAssumption == HISTORY_LEN \in Nat \ {0}
ASSUME NoneAssumption == None \notin Int
-----------------------------------------------------------------------------
(***************************************************************************)
(* The server's snapshot.                                                  *)
(***************************************************************************)
\* var out []T, appended to and marshalled.
List(S) == IF S = {} THEN Null ELSE S

NoSlot == [name |-> "", restart |-> None, confirmed |-> None, wal_status |-> "",
           active |-> FALSE, inactive |-> 0]

\* LEFT JOIN pg_replication_slots.
SlotOf(db, s) ==
    IF \E x \in db.slots : x.name = s.slot
    THEN CHOOSE x \in db.slots : x.name = s.slot ELSE NoSlot

Behind(p, q) == IF p = None \/ q = None THEN 0 ELSE p - q

Measure(db, s) ==
    LET x     == SlotOf(db, s)
        toPub == AtLeastZero(Behind(x.restart, x.confirmed))
        recv  == Behind(s.received, s.end)
    IN  [oid |-> s.oid, name |-> s.name, slot |-> s.slot,
         wal_status |-> x.wal_status, retention |-> Behind(db.wal, x.confirmed),
         seg_pub |-> toPub, seg_recv |-> recv, total_lag |-> toPub + recv,
         apply_errors |-> s.apply_errors, conflicts |-> s.conflicts,
         recv_age |-> s.recv_age,
         spill_pct |-> IF \E d \in db.spill : d.slot = s.slot
                       THEN (CHOOSE d \in db.spill : d.slot = s.slot).spill_pct ELSE 0,
         severity |-> "ok"]

SubscriptionSummary(db, s) ==
    [Measure(db, s) EXCEPT !.severity = severityOf(Measure(db, s))]

\* (mutant) Every row gets the counts of the subscription seen last.
ErrorStatsOfLast(db) ==
    {[n \in {s.name : s \in db.subs} |-> last] : last \in db.subs}

\* errBySub: a row for each name, which a later subscription of the name writes over;
\* two of one name come in any order.
ErrorStats(db) ==
    LET names == {s.name : s \in db.subs}
    IN  {e \in [names -> db.subs] : \A n \in names : e[n].name = n}

WorkerStat(w) ==
    [id |-> w.id, sub |-> w.sub, pid |-> w.pid, alive |-> w.backend, recv_age |-> w.recv_age,
     severity |-> workerSeverity([alive |-> w.backend, recv_age |-> w.recv_age])]

PhysicalReplicaStat(r) ==
    [pid |-> r.pid, app |-> r.app, write_lag |-> r.write_lag, flush_lag |-> r.flush_lag,
     replay_lag |-> r.replay_lag, severity |-> replicaSeverity(r)]

SlotHealth(db, x) ==
    [name |-> x.name, wal_status |-> x.wal_status, active |-> x.active,
     severity |-> slotSeverity([wal_status |-> x.wal_status, active |-> x.active,
                                inactive |-> x.inactive,
                                unconsumed |-> Behind(db.wal, x.confirmed)])]

\* One cell for each subname and state.  A cell without any position cannot be
\* scanned into its string, which ends the query; its error leaves an empty matrix.
SyncMatrix(db) ==
    LET cells == {[sub |-> t.sub, state |-> t.state] : t \in db.tables}
        hasPosition(c) ==
            \E t \in db.tables : t.sub = c.sub /\ t.state = c.state /\ t.lsn /= None
    IN  IF \/ \E c \in cells : ~hasPosition(c)
           \/ \E s \in db.subs : \A t \in db.tables : t.sub /= s.name
        THEN {} ELSE cells

\* A NULL that a column's type cannot hold fails the query, and that the build.
WorkerScanFails(db)  == \E w \in db.workers : w.pid = None
ReplicaScanFails(db) == \E r \in db.replicas : ~r.replied
SlotScanFails(db)    == \E x \in db.slots : x.restart = None \/ x.confirmed = None

HasLogical(db)  == db.kind \in {"logical", "hybrid"}
HasPhysical(db) == db.kind \in {"physical", "hybrid"}

BuildFails(db) ==
    \/ (HasLogical(db) /\ WorkerScanFails(db))
    \/ (HasPhysical(db) /\ ReplicaScanFails(db))
    \/ SlotScanFails(db)

LogicalPanel(db, errors) ==
    [subscriptions |-> List({SubscriptionSummary(db, s) : s \in db.subs}),
     workers       |-> List({WorkerStat(w) : w \in db.workers}),
     errors        |-> errors,
     spill_stats   |-> db.spill,
     sync_matrix   |-> SyncMatrix(db),
     rate          |-> db.rate]

PhysicalPanel(db) == [replicas |-> List({PhysicalReplicaStat(r) : r \in db.replicas})]

SnapshotWith(db, errors) ==
    [logical  |-> IF HasLogical(db) THEN LogicalPanel(db, errors) ELSE None,
     physical |-> IF HasPhysical(db) THEN PhysicalPanel(db) ELSE None,
     slots    |-> List({SlotHealth(db, x) : x \in db.slots})]

\* The snapshots a build may return.
BuildSnapshot(db) == {SnapshotWith(db, e) : e \in ErrorStats(db)}

\* null and the omitted panel are no panel and no list.
ASSUME PanelAssumption ==
    \A db \in Databases :
        /\ \A e \in ErrorStats(db) : LogicalPanel(db, e) /= None
        /\ PhysicalPanel(db) /= None
        /\ Null \notin {{SubscriptionSummary(db, s) : s \in db.subs},
                        {PhysicalReplicaStat(r) : r \in db.replicas},
                        {WorkerStat(w) : w \in db.workers},
                        {SlotHealth(db, x) : x \in db.slots}}
-----------------------------------------------------------------------------
(***************************************************************************)
(* What the page draws of a snapshot s.                                    *)
(***************************************************************************)
OrEmpty(list) == IF list = Null THEN {} ELSE list

Subscriptions(s) == IF s.logical = None THEN {} ELSE OrEmpty(s.logical.subscriptions)
Workers(s)       == IF s.logical = None THEN {} ELSE OrEmpty(s.logical.workers)
Replicas(s)      == IF s.physical = None THEN {} ELSE OrEmpty(s.physical.replicas)
Slots(s)         == OrEmpty(s.slots)

\* SummaryStrip, LagStackBar and Dashboard ask a panel's list for its length.
RenderThrows(s) ==
    \/ (s.logical /= None /\ s.logical.subscriptions = Null)
    \/ (s.physical /= None /\ s.physical.replicas = Null)

\* The coloured cells of a row of SubscriptionTable.
CellsWith(r, conflicts) ==
    [total     |-> severityForValue(r.total_lag, thresholds["total_lag_bytes"]),
     retention |-> severityForValue(r.retention, thresholds["slot_wal_retention"]),
     apply     |-> severityForValue(r.apply_errors, thresholds["apply_error_count_5m"]),
     conflict  |-> severityForValue(conflicts, thresholds["conflict_count_5m"]),
     recv      |-> severityForValue(r.recv_age, thresholds["worker_last_recv_age"]),
     spill     |-> severityForValue(r.spill_pct, thresholds["spill_pct"])]

\* (mutant) The row adds up the kinds that the grid shows.
CellsOfGridKinds(r) == CellsWith(r, GridTotal(r.conflicts))

Cells(r) == CellsWith(r, ConflictTotal(r.conflicts))

\* What an open row contains: its workers, matrix and slots.
WorkersUnder(s, r) == {w \in Workers(s) : w.sub = r.name}

\* (mutant) The cells are not filtered by the row's name.
CellsUnderAll(s, r) == s.logical.sync_matrix

CellsUnder(s, r) == {c \in s.logical.sync_matrix : c.sub = r.name}
SlotsUnder(s, r) == IF r.slot = "" THEN Slots(s) ELSE {x \in Slots(s) : x.name = r.slot}

Row(s, r) ==
    [cells |-> Cells(r), badge |-> severityKindOf(r.severity),
     tint  |-> IF \E w \in WorkersUnder(s, r) : ~w.alive THEN "red"
               ELSE IF r.recv_age > 300 THEN "amber" ELSE "none"]

\* (mutant) From 300 seconds, as the thresholds of the page have it.
WorkerRowInclusive(w) ==
    [badge |-> severityKindOf(w.severity),
     tint  |-> IF ~w.alive THEN "red" ELSE IF w.recv_age >= 300 THEN "amber" ELSE "none"]

\* A row of WorkerTable.
WorkerRow(w) ==
    [badge |-> severityKindOf(w.severity),
     tint  |-> IF ~w.alive THEN "red" ELSE IF w.recv_age > 300 THEN "amber" ELSE "none"]

ErrorGrid(s, r) ==
    LET e == s.logical.errors[r.name]
    IN  [apply_errors |-> e.apply_errors,
         counts |-> [k \in GridKinds |-> e.conflicts[k]],
         total  |-> GridTotal(e.conflicts)]

\* A column of SyncMatrix counts the cells of its state.
Column(cells, st) == Cardinality({c \in cells : c.state = st})

\* SpillCards: the colour of the average over the slots, given as a sum and a number.
SumSpill(s) == MapThenSumSet(LAMBDA d : d.spill_pct, s.logical.spill_stats)

SpillCard(s) == pctSeverity(SumSpill(s), Cardinality(s.logical.spill_stats))

\* SummaryStrip.
MaxLag(s) ==
    LET lags == {0} \cup {r.total_lag : r \in Subscriptions(s)}
    IN  CHOOSE m \in lags : \A l \in lags : m >= l

\* (mutant) The card alarms from 50 MB.
LagCardEarly(s) ==
    IF MaxLag(s) > 50 * MB THEN "alert" ELSE "ok"

LagCard(s) ==
    IF MaxLag(s) > GB THEN "alert" ELSE IF MaxLag(s) > 100 * MB THEN "warn" ELSE "ok"

Worst(severities) ==
    LET all == {"ok"} \cup severities
    IN  CHOOSE w \in all : \A x \in all : AtLeast(w, x)

\* (mutant) The replicas' severities only.
WorstOfReplicas(s) == Worst({r.severity : r \in Replicas(s)})

WorstSeverity(s) ==
    Worst({r.severity : r \in Subscriptions(s)} \cup {r.severity : r \in Replicas(s)})

\* LagStackBar: the segments of a row, the last of them what the others leave over.
Segments(r) ==
    LET total == AtLeastZero(r.total_lag)
        pub   == AtLeastZero(r.seg_pub)
        recv  == AtLeastZero(r.seg_recv)
    IN  [pubToFlush |-> pub, flushToReceived |-> 0, receivedToApplied |-> recv,
         remaining  |-> AtLeastZero(total - (pub + recv))]

Outline(r, seg) == IF r.total_lag <= 0 THEN "ok" ELSE segmentSeverity(Segments(r)[seg])

\* ReplicaTable.
LagCells(r) ==
    [write  |-> lagSeverity(r.write_lag, thresholds["replica_write_lag_seconds"]),
     flush  |-> lagSeverity(r.flush_lag, thresholds["replica_write_lag_seconds"]),
     replay |-> lagSeverity(r.replay_lag, thresholds["replica_replay_lag_seconds"])]

\* (mutant) The axis is the write lag's.
MaxRefOfWrite == thresholds["replica_write_lag_seconds"]["critical"]

\* LagTrendMiniChart, under an open row: the bars end at maxRef.
MaxRef ==
    LET w == thresholds["replica_write_lag_seconds"]["critical"]
        r == thresholds["replica_replay_lag_seconds"]["critical"]
    IN  IF w >= r THEN w ELSE r

\* A bar's width is clamped to the axis; an axis of no length makes it infinite.
BarFull(seconds) == seconds > 0 /\ seconds >= MaxRef

\* (mutant) The change since the sample just pushed.
RateDeltaOfLast(arr, cur) ==
    IF Len(arr) < 2 \/ arr[Len(arr)] <= 0 THEN None ELSE cur - arr[Len(arr)]

\* RateCards: the change since the sample before, or a dash.  The effect runs after the
\* render of a snapshot and has it rendered again; arr is the history of that second one.
RateDelta(arr, cur) ==
    IF Len(arr) < 2 \/ arr[Len(arr) - 1] <= 0 THEN None ELSE cur - arr[Len(arr) - 1]
-----------------------------------------------------------------------------
(***************************************************************************)
(* The page's steps.                                                       *)
(***************************************************************************)
Init ==
    /\ page = "welcome"
    /\ snap = None /\ source = None
    /\ thresholds = DEFAULT_THRESHOLDS
    /\ openSubs = {} /\ openReplicas = {}
    /\ history = <<>> /\ delivered = <<>>

pushSeries(arr, v, max) == IF Len(arr) >= max THEN Append(Tail(arr), v) ELSE Append(arr, v)

ForgetLocal ==
    /\ openSubs' = {} /\ openReplicas' = {}
    /\ history' = <<>> /\ delivered' = <<>>

\* The effect of RateCards on a snapshot it has not seen.
RateEffect(s) ==
    IF s.logical = None
    THEN UNCHANGED <<history, delivered>>
    ELSE /\ history' = pushSeries(history, s.logical.rate, HISTORY_LEN)
         /\ delivered' = Append(delivered, s.logical.rate)

\* Connected: the dashboard is mounted over the snapshot the store still has.
Mount ==
    /\ page = "welcome"
    /\ page' = "dashboard"
    /\ IF snap = None THEN UNCHANGED <<history, delivered>> ELSE RateEffect(snap)
    /\ UNCHANGED <<snap, source, thresholds, openSubs, openReplicas>>

\* A switch of nodes, or a connect that fails, brings the welcome form back.
Unmount ==
    /\ page = "dashboard"
    /\ page' = "welcome"
    /\ ForgetLocal
    /\ UNCHANGED <<snap, source, thresholds>>

\* A build succeeds and its tick arrives.  A render that throws takes the page down;
\* a table that is not drawn any more forgets what was open.
Tick(db) ==
    /\ page = "dashboard" /\ Len(delivered) < MaxTicks
    /\ ~BuildFails(db)
    /\ source' = db
    /\ \E s \in BuildSnapshot(db) :
         /\ snap' = s
         /\ IF RenderThrows(s)
            THEN /\ page' = "blank"
                 /\ ForgetLocal
            ELSE /\ page' = page
                 /\ RateEffect(s)
                 /\ openSubs' = IF s.logical = None THEN {} ELSE openSubs
                 /\ openReplicas' = IF s.physical = None THEN {} ELSE openReplicas
    /\ UNCHANGED thresholds

\* A row is clicked.
ToggleSub(name) ==
    /\ page = "dashboard"
    /\ openSubs' = IF name \in openSubs THEN openSubs \ {name} ELSE openSubs \cup {name}
    /\ UNCHANGED <<page, snap, source, thresholds, openReplicas, history, delivered>>

ToggleReplica(app) ==
    /\ page = "dashboard"
    /\ openReplicas' =
         IF app \in openReplicas THEN openReplicas \ {app} ELSE openReplicas \cup {app}
    /\ UNCHANGED <<page, snap, source, thresholds, openSubs, history, delivered>>

\* SettingsDrawer: a threshold is typed, sizes in MB, at every key stroke.
ThresholdOf(key, input) ==
    AtLeastZero(IF key \in {"total_lag_bytes", "slot_wal_retention"} THEN input * MB ELSE input)

setThresholdField(key, level, input) ==
    /\ page = "dashboard"
    /\ thresholds' = [thresholds EXCEPT ![key][level] = ThresholdOf(key, input)]
    /\ UNCHANGED <<page, snap, source, local>>

restoreDefaults ==
    /\ page = "dashboard"
    /\ thresholds' = DEFAULT_THRESHOLDS
    /\ UNCHANGED <<page, snap, source, local>>

\* The page is loaded again; the thresholds are persisted.
Reload ==
    /\ page' = "welcome"
    /\ snap' = None /\ source' = None
    /\ ForgetLocal
    /\ UNCHANGED thresholds

Next ==
    \/ Mount \/ Unmount \/ Reload \/ restoreDefaults
    \/ \E db \in Databases : Tick(db)
    \/ snap /= None /\ \E r \in Subscriptions(snap) : ToggleSub(r.name)
    \/ snap /= None /\ \E r \in Replicas(snap) : ToggleReplica(r.app)
    \/ \E e \in Edits : setThresholdField(e[1], e[2], e[3])

Spec == Init /\ [][Next]_vars
-----------------------------------------------------------------------------
(***************************************************************************)
(* Properties.                                                             *)
(***************************************************************************)
\* The variables have the values their types say; a rate card keeps no more than
\* its samples.
TypeOK ==
    /\ page \in {"welcome", "dashboard", "blank"}
    /\ thresholds \in Thresholds
    /\ source \in Databases \cup {None}
    /\ openSubs \subseteq STRING /\ openReplicas \subseteq STRING
    /\ history \in Seq(Int) /\ Len(history) <= HISTORY_LEN
    /\ delivered \in Seq(Int)

Alarming(cells) == \E c \in DOMAIN cells : AtLeast(cells[c], "alert")
\* The server's severity leaves the share of spilled bytes out.
WithoutSpill(cells) == [c \in DOMAIN cells \ {"spill"} |-> cells[c]]
\* A replica that the page alarms about, and the server does not.
RedAlone(r) ==
    AtLeast(LagCells(r).flush, "alert") \/ r.write_lag = 300 \/ r.replay_lag = 300

\* severityOf in Go and the thresholds in TypeScript are two tables.  With the default
\* thresholds a row the server calls critical shows why: a red cell, or a lost slot.
CriticalIsVisible ==
    thresholds = DEFAULT_THRESHOLDS /\ snap /= None =>
        /\ \A r \in Subscriptions(snap) :
              r.severity = "critical" => r.wal_status = "lost" \/ Alarming(WithoutSpill(Cells(r)))
        /\ \A r \in Replicas(snap) :
              r.severity = "critical" => AtLeast(LagCells(r).replay, "alert")

\* And a subscription's red cell is never alone: the server does not call its row ok,
\* although the cell adds up seven kinds of conflict and the server looks at one after
\* another.  A replica's row can be red and called ok, but in two ways only: for its
\* flush lag, which replicaSeverity does not look at, or at a lag of 300 s to the second,
\* where the cell is red already and the server not yet alarmed.
AlertCellAlarmsRow ==
    thresholds = DEFAULT_THRESHOLDS /\ snap /= None =>
        /\ \A r \in Subscriptions(snap) :
              Alarming(WithoutSpill(Cells(r))) => r.severity \in {"warn", "critical"}
        /\ \A r \in Replicas(snap) : Alarming(LagCells(r)) /\ r.severity = "ok" => RedAlone(r)

\* SummaryStrip's severity card is not the worst of the page.  Workers, slots, spill and
\* flush lags may be red below an ok of it, and a replica's lag of 300 s; nothing else
\* is, with the default thresholds: not the lag card; of a subscription neither bar,
\* grid, cells (but for spill) nor the slot it has; no row is amber, nor red without a
\* dead worker; and of a replica no other cell.
CalmStripHides ==
    thresholds = DEFAULT_THRESHOLDS /\ snap /= None /\ WorstSeverity(snap) = "ok" =>
        /\ LagCard(snap) /= "alert"
        /\ \A r \in Subscriptions(snap) :
              /\ ~Alarming(WithoutSpill(Cells(r)))
              /\ ~Alarming([seg \in DOMAIN Segments(r) |-> Outline(r, seg)])
              /\ ErrorGrid(snap, r).total < 100
              /\ Row(snap, r).tint /= "none" => \E w \in WorkersUnder(snap, r) : ~w.alive
              /\ r.slot /= "" => \A x \in SlotsUnder(snap, r) : x.severity /= "critical"
        /\ \A r \in Replicas(snap) : Alarming(LagCells(r)) => RedAlone(r)

\* SubscriptionTable, LagStackBar and SummaryStrip colour the same lag.  Unless its
\* thresholds were edited, which only the table heeds, no segment of a row's bar is worse
\* than its cell, and the strip's card is no worse than some row.  Nor is SpillCards'
\* average worse than every slot: it can hide one but not invent one.
SummariesMatchRows ==
    snap /= None =>
        /\ thresholds["total_lag_bytes"] = DEFAULT_THRESHOLDS["total_lag_bytes"] =>
              /\ \A r \in Subscriptions(snap) : \A seg \in DOMAIN Segments(r) :
                    AtLeast(Cells(r).total, Outline(r, seg))
              /\ LagCard(snap) = "ok"
                    \/ \E r \in Subscriptions(snap) : AtLeast(Cells(r).total, LagCard(snap))
        /\ snap.logical /= None /\ snap.logical.spill_stats /= {} =>
              \E d \in snap.logical.spill_stats :
                  AtLeast(pctSeverity(d.spill_pct, 1), SpillCard(snap))

\* ErrorGrid under a row: every number in it is that of one and the same subscription of
\* the row's name; never the sum over namesakes nor a mixture, never another name's.
GridIsANamesakes ==
    snap /= None =>
        \A r \in Subscriptions(snap) :
            \E q \in Subscriptions(snap) :
                /\ q.name = r.name
                /\ ErrorGrid(snap, r).apply_errors = q.apply_errors
                /\ \A k \in DOMAIN ErrorGrid(snap, r).counts :
                      ErrorGrid(snap, r).counts[k] = q.conflicts[k]

\* No query of the node's matrix failed: each subscription has a table, each cell a
\* position.
MatrixScans(db) ==
    /\ \A s \in db.subs : \E t \in db.tables : t.sub = s.name
    /\ \A t \in db.tables :
          \E u \in db.tables : u.sub = t.sub /\ u.state = t.state /\ u.lsn /= None

\* SyncMatrix under a row has a column above zero only for a state that some table of
\* the row's name is in, and one for each such state, unless a table without a position
\* or a subscription without tables, be it another row's, ended the query.
MatrixOfOwnTables ==
    snap /= None =>
        \A r \in Subscriptions(snap), st \in SyncStates :
            LET shown == Column(CellsUnder(snap, r), st) > 0
                own   == \E t \in source.tables : t.sub = r.name /\ t.state = st
            IN  (shown => own) /\ (own /\ MatrixScans(source) => shown)

\* RateCards: the curve is that of the last snapshots since the dashboard appeared,
\* whatever came between, and the change shown is the one since the sample before, if
\* that was above zero.
HistoryIsRecent ==
    LET n == Len(delivered)
    IN  /\ history = SubSeq(delivered, 1 + AtLeastZero(n - HISTORY_LEN), n)
        /\ n > 1 /\ delivered[n - 1] > 0 /\ HISTORY_LEN > 1 =>
              RateDelta(history, delivered[n]) = delivered[n] - delivered[n - 1]

\* A bar and the cell beside it, coloured by the triple of key.
FullAsCell(seconds, cell, key) ==
    /\ BarFull(seconds) => cell = "critical"
    /\ cell = "critical" /\ seconds > 0 /\ thresholds[key]["critical"] = MaxRef =>
          BarFull(seconds)

\* LagTrendMiniChart has one axis for two triples of thresholds that can be edited
\* apart, to zero and in any order: a bar that fills the axis has a critical cell, and a
\* critical cell whose triple ends no lower than the other has a bar that fills it.
FullBarIsCritical ==
    snap /= None =>
        \A r \in Replicas(snap) :
            /\ FullAsCell(r.write_lag, LagCells(r).write, "replica_write_lag_seconds")
            /\ FullAsCell(r.flush_lag, LagCells(r).flush, "replica_write_lag_seconds")
            /\ FullAsCell(r.replay_lag, LagCells(r).replay, "replica_replay_lag_seconds")

\* WorkerTable and SubscriptionTable colour a row by limits of their own, and the badge
\* in it by the server's severity: a worker's row is coloured just when its badge is
\* not OK, and so is a subscription's only if its own badge or that of a worker is not.
TintIsSeverity ==
    snap /= None =>
        /\ \A w \in Workers(snap) : (WorkerRow(w).tint = "none") = (WorkerRow(w).badge = "ok")
        /\ \A r \in Subscriptions(snap) :
              Row(snap, r).tint /= "none" =>
                  \/ Row(snap, r).badge /= "ok"
                  \/ \E w \in WorkersUnder(snap, r) : WorkerRow(w).badge = "critical"
=============================================================================
