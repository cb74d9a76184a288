# pgcm in TLA+

pgcm is one Go process that watches PostgreSQL replication and a web page that
shows it.  This directory models what of it is concurrent or keeps state, checks
the models with TLC and proves the main safety properties of the server's core
with TLAPS.

## 1. Inventory

| Component | State | Operations | Interacts through |
| --- | --- | --- | --- |
| Node registry (`internal/store/nodes.go`) | `nodes`: id → `*Node` | Upsert, Get, Remove, All | calls of the manager and the ticker |
| Pool map (`internal/pg/conns.go`) | `pools`: id → pool, `mu` | Connect, Pool, Close, CloseAll, kind detection | calls; `mu` is held while a pool closes |
| Manager (`internal/server/manager.go`) | `rings`: id → ring, `subs` | connect, disconnect, snapshot, WebSocket handlers, Broadcast | one goroutine a request, two a WebSocket |
| Snapshot builder (`internal/pg/snapshot.go`, `queries*.go`) | none of its own | BuildSnapshot and the queries of each panel | takes connections from the node's pool, writes the node's ring |
| Rolling window (`internal/store/ring.go`) | `buckets`, `mu` | Push, Oldest | hands out the map of a bucket |
| Process (`cmd/pgcm/main.go`, `http.go`) | the signal's context | ticker every 5 s, `--dsn` connect, shutdown | starts all of the above |
| Web store (`web/src/store`) | connection state, snapshots, saved nodes | setConn, setMeta, setSnapshot, saveNode, removeNode | React effects on `connState` |
| WebSocket client (`web/src/api/ws.ts`) | socket, reconnect timer | connect, disconnect, scheduleReconnect | browser events, ticks of the hub |
| Forms (`WelcomeScreen`, `NodeSwitcher`, `SettingsDrawer`) | fetches under way | connect calls | `POST /api/v1/connect`, the store |
| Classification (`queries*.go`, `snapshot.go`) | none | severities, slot and worker health, errors by name, cluster kind | turns rows into the snapshot |
| Panels and charts (`web/src/components`) | open rows, the rate cards' history, thresholds | rendering, clicks, edits of thresholds | read the snapshot and the thresholds |
| Texts, formats (`i18n`, `lib/format.ts`) | none | | |

What is hard about it:

- **Three maps, three locks.** A connect and a disconnect write registry, pools and
  rings one after the other; builds of the ticker and of snapshot requests read
  them in between.  Correct means: an answered connect is served, an answered
  disconnect leaves nothing behind, and a pool is never used after it was closed.
- **Waits under a lock.** `Conns.Close` waits for running queries with `Conns.mu`
  held; a build waits for a second connection with the first in hand.
- **A bounded channel per browser**, filled by the ticker, which must not wait.
- **A ring shared by builds**, whose buckets expire while differences are taken.
- **Asynchronous answers and close events in the browser**, in any order.
- **Two tables of limits**, the server's in Go and the page's in TypeScript, which must
  alarm together; numbers at a limit, NULLs, empty lists and namesakes between them.

Nothing is persisted by the server, so a restart of it is the initial state; the
page persists its settings, and its reload is an action.

## 2. Modules

| Module | Models | Extends / instances |
| --- | --- | --- |
| `Manager` | connect, disconnect, builds over the three maps | |
| `ManagerProofs` | types, open pools, what a disconnect forgets | `Manager` |
| `ManagerServedProofs` | what a connect keeps, which pools are lost, which queries outlive a disconnect | `ManagerProofs` |
| `Feed` | what a subscriber is promised: ticks in order, with gaps | |
| `Hub` | HandleWS, the pumps, Broadcast, CloseAll | instances `Feed` |
| `HubProofs` | its invariants, and that it implements `Feed` | `Hub` |
| `Ring` | `store.Ring` as operators on its buckets | |
| `Window` | what the rolling window promises | |
| `SlotDelta` | builds that read, push and subtract counters | extends `Ring`, instances `Window` |
| `SlotDeltaProofs` | the bound of a difference, and that the ring implements `Window` | `SlotDelta` |
| `ConnPool` | builds of a node over the connections of its pool | |
| `ConnPoolProofs` | the balance of its connections, when a wedge is impossible and how it ends | `ConnPool` |
| `Dashboard` | the page: store, connect calls, sockets | |
| `DashboardProofs` | its safety properties | `Dashboard` |
| `Settings` | the settings drawer: cards, dialog, their tests | |
| `SettingsProofs` | its safety properties | `Settings` |
| `Health` | pure operators: cluster kind, the server's severities, the page's levels | |
| `Panels` | rows to snapshot, snapshot to colours, counts and bars; what panels keep | extends `Health` |
| `PanelsProofs` | its invariants | `Panels` |
| `MC*` | constants of the TLC runs | the module of that name |

`Manager` is the composition of registry, pool map, ring map, handlers and ticker.
The other modules look inside one of its steps: `ConnPool` inside *acquire* and
*query*, `SlotDelta` inside *push* and what follows, `Hub` inside *deliver*; the
page is the other side of the hub and of the connect handler, and the drawer is a part
of the page with a life of its own (its `Unmount` is `Dashboard`'s `SetConn`).  `Panels`
is the data path: what one build makes of the rows it read, and what the dashboard
makes of the build; its `Mount`, `Unmount` and `Reload` are `Dashboard`'s too.

Definitions marked *(mutant)* are the plausible errors each property is shown to catch;
no behaviour of the modules uses them.

### Manager

| Variable | Code |
| --- | --- |
| `reg`, `pools`, `rings` | `Registry.nodes`, `Conns.pools`, `Manager.rings` |
| `poolState` | whether a pool was made, is open, has been closed |
| `connsMu` | the holder of `Conns.mu` across `p.Close()`; elsewhere the lock is held for one step |
| `ringSrc` | the pools whose counters were pushed into a ring |
| `bodyKind`, `metaKind` | `NodeConfig.ClusterKind` of the registered copy; the kind that was detected |
| `pc`, `todo`, `bld`, `callId` | program counters and locals |
| `clean`, `raced`, `retired` | history: overlaps of connects and disconnects, and connects that a disconnect has undone |

An action is one critical section or one wait for PostgreSQL.  Connect:
`Reject`, or `HandleConnect`/`ConnectDirect` (`reg.Upsert`), `Dial` or
`ConnectFails` (all of `Conns.Connect` before its lock), `Publish`, `EnsureRing`.
Disconnect: `HandleDisconnect`, `Close` and `Drain` (start and end of
`Conns.Close`), `Remove`, `ForgetRing`.  Builds: `Tick`/`HandleSnapshot`, `Visit`,
`HasPool`, `GetNode`, `LookupRing`, `StoreRing`, `LookupPool`, then for each query of
`Plan` `Acquire` and `QueryOk` or `QueryFails`, `Push` after the counters, `Deliver`.
A connect fails at any of its queries, a query fails at any time, and its failure
ends the build except for the sync matrix.

### Hub and Feed

`send` is each subscriber's channel, `wr` and `rd` its two goroutines, `conn` the
connection.  `WriteFails` is the 5 s limit and every other error of a write, which
closes the connection; `CloseAll` holds `subsMu` until all close handshakes are
done.  The refinement maps what a connection has been sent to what the abstract
feed has shown.

### Ring, Window, SlotDelta

Time is in seconds. A bucket names its map because `Oldest` shares that map with the reader:
`maps` holds the contents, `FreshMap` is a name no bucket and no reader uses, and `MapsWith`
adds a map under it and lets go of those out of use, as the collector does. One counter
stands for the eight of a slot; its `life` numbers its incarnations, so that a property can
tell a reset from an error. Two builds that cross a period boundary may push in the other
order than they stamped their samples (`now`), since the lock is taken after. `raced` is
history: the builds that a push of another met between their read and their difference,
whose baseline may then be ahead of what they read.

`Window` keeps one sample a period, holding every value pushed in it, and is the
specification the ring implements.  A late sample (`TakeLate`) puts it out of order, in which
state it promises nothing about the samples; when it is in order again (`Recover`) none is too
old and the newest is the one just taken.

### ConnPool

`free` is the pool's semaphore.  A waiter is not woken by `Close`: it fails once it has
a permit, or when the context it waits with is cancelled, which only a request's can be.

### Dashboard

`SetConn` includes what React mounts and unmounts when `connState` changes, which it does
before the page handles another event.  `closing` holds the clients whose socket was
closed by `disconnect()` and has not reported it.  Such a client sets a reconnect timer
when it does, connects again and delivers ticks beside the next one; `LeftoverHadSocket` says
that a client lives on in this way only, and one dropped between two sockets never.  `currentNodeId` is a
variable that no action changes, as in the code; the disconnect button, which needs a
current node, is therefore no action.

### Settings

`test` is the fetches and the timers that follow those of cards.  `live` is whether the
drawer that sent a test is still mounted, since only then do its set calls change anything.
A test's effect on the server is a connect of `Manager`.

### Health and Panels

`Databases` are what the queries of one build may find, row for row; the module builds the
snapshot of it with each early return (`BuildFails`: a NULL scanned into a type that has
none), the severities, the table of errors by name and the sync matrix.  `null` is told from
the empty list, since a Go slice nothing was appended to is `null` in JSON and the page takes
its length (`RenderThrows`).  The page's part is an operator for each table, card and chart,
and the steps that change what panels keep: mounting, ticks, clicks on rows, edits of
thresholds at each key stroke, reloads.  Two namesakes come back in either order, so a build
has a set of results.

- The panels draw `currentSnapshot`, which is an input here: nothing in the page writes
  `currentNodeId` (run `current_node`), so what is said is of the panels themselves.
- Nor does the web client send a cluster kind, and the snapshot takes the one that was sent
  (run `cluster_kind`): a kind is part of the input, and those other than the empty one come
  from other clients of the API.  TopBar's own kind is set to standalone by every tick.
- `queryWorkers` calls `pg_get_backend_pid`, which PostgreSQL does not have; the column is
  taken as it is meant, whether the process runs.
- The share of spilled bytes has a cell of its own thresholds, which `severityOf` does not
  look at: the properties that compare server and page leave this cell out (`WithoutSpill`).

## 3. Runs

| Run | Instance | Shows |
| --- | --- | --- |
| `manager` | 1 id, 2 connects (one the `--dsn` one), 1 disconnect, 1 snapshot request, ticker, 3 rings | the safety of the three maps, and of queries after a disconnect, in every interleaving (3.4 million states) |
| `manager_live` | the same without the snapshot request | calls are answered, the ticker finishes its rounds |
| `hub` | 2 connections, channel of 2, 3 ticks | loss only by overflow, clean-up, and that `Hub` implements `Feed`, whose ticks are in order |
| `delta` | 1 slot, 2 builds at a time, period 2, window 2, 5 seconds, 1 reset | the ring implements `Window`, late pushes included; differences are bounded, and negative only after a reset or a race (4.6 million states) |
| `pool` | ticker and 2 requests, 2 connections, 1 nested query, 2 more queries | connections balance; a wedge is the only way to hang |
| `dashboard` | 2 nodes, 3 connect calls, 3 clients | sockets come back, the form and the page never stick |
| `settings` | 2 nodes, 3 tests | messages of cards go away, the dialog is disabled for its own test only |
| `panels` | about 70 databases, 4 edits of thresholds, 3 ticks, history of 2 | server and page alarm together, panels agree on a row, what the strip does not sum up |
| `cluster_kind`, `hub_leak`, `ring_race`, `current_node` | smaller instances | four statements of documents and comments that the code does not keep |

Why the bounds are enough.  The maps are keyed by id and no operation reads two ids, so one
id with two connects and a disconnect has every overlap of a pair with a third; ids meet
only at `Conns.mu` and in the ticker's loop, which the proofs cover for any number.  Three
rings are the one mapped, the one a build stores and the one another build still has.  A
channel of two holds an order to get wrong, and fills, drains and overflows within three
ticks.  Five seconds have three periods of two: a ring fills, expires a bucket, is put out of
order by a late push, expires all it has after a pause, and is in order again.  A wedge needs
as many builds as connections; the third is the bystander.  Three connect calls are the
form's, the switcher's and the one that comes between; three tests are two that overlap and
one that meets what they leave behind.  The databases of `panels` differ from a quiet one in
one or two places and have each compared number at its limit and beside it, so both sides of
every comparison are met; a history of two fills and shifts within three ticks, and an edit
below zero, to zero and above the level after it are among the edits.  Each bound that cuts behaviours
(`MaxTicks` of `Hub` and of `Panels`, `MaxTime`, `MaxCount`, `MaxResets`, `MaxDiffs`, `Queries`, `Calls`, `Tests`) is a constant
with that note.  Deadlock checking is off: calls are finite, browsers need not act, and a
process may exit.

Symmetry is used for ring names and, in `delta`, for the two builds, and only in runs without
liveness.  `manager` has a VIEW, `Distinguished`: it drops what was pushed into a ring nothing refers to (the name is
cleared before it is used again) and whether a failed connect had made a pool (nothing reads
it any more), which no later step and no property can tell apart.  That of `delta` drops the
names of maps, but for which bucket a build's baseline is, and the values of the latest push,
which only the step that pushes them reads.

Fairness.  Go runs every runnable goroutine, its mutexes and the pool's semaphore serve
waiters in order (strong fairness where a wait is enabled on and off), the ticker fires,
and a query ends or its connection breaks.  No client call, browser action or disconnect
is assumed.  `manager_live` relies on the wait for a pool connection ending; `pool` says
when it does not.  On the page a fetch settles, timers
fire, and a client that keeps trying reaches the server at last.

The four violation runs:

- `cluster_kind`: the detected kind never reaches the snapshot.
- `hub_leak`: writePump outlives its browser, because only CloseAll closes `done`.
- `ring_race`: a bucket's map is read without the lock that writers hold.
- `current_node`: `setMeta` stores its node under `nodeId`, and nothing writes `currentNodeId`.

The models have more, without a run of their own:

- a second connect of an id drops the first pool without closing it, where
  docs/architecture.md:92 promises one connection for a node (`LostOnlyByReconnect` shows that
  a pool is lost in no other way);
- two builds of a node can wait for each other's second connection for good, where
  docs/architecture.md:219 has a snapshot time out after 10 s (`EndsOrWedges` shows that builds
  hang in no other way, and the theorem `ConnPool_EnoughConnections` when they cannot);
- a client dropped while it has a socket lives on after `disconnect()`, where
  docs/architecture.md:245 has one WebSocket instance (`LeftoverHadSocket` shows that no other
  does);
- a column of the sync matrix counts cells, never more than one, where docs/ui-spec.md:116 and
  docs/requirements.md:125 have the number of tables; and one cell without a position, or one
  subscription without tables, empties the matrix of every row, where docs/requirements.md:44
  asks it which table is stuck (`MatrixOfOwnTables` shows that columns are lost in no other way);
- of the four segments of a lag bar only received-to-applied is ever above zero: queries.go:82
  subtracts the confirmed position from the restart position, which is no larger, and the second
  segment is never set.  docs/metrics-catalog.md:148 and the lines after it,
  docs/requirements.md:43 and docs/ui-spec.md:64 have four segments with values of their own
  (`Segments`; the lemma `BarOfRow` of `PanelsProofs` shows it for any database);
- the error grid has five kinds of conflict and no card for the two of differing origins, where
  docs/ui-spec.md:117 and docs/requirements.md:126 have nine cards with all seven kinds and
  docs/metrics-catalog.md:138 and 141 list the two (`GridKinds`);
- a subscription without a process (a NULL pid) or a slot without a position fails the whole
  snapshot of its node (`BuildFails`), where docs/requirements.md:239 has a pid of null,
  docs/ui-spec.md:100 shows disabled subscriptions, SubscriptionTable.tsx:210 and
  WorkerTable.tsx:62 draw a dash for the pid, and docs/metrics-catalog.md:43 shows a lost slot as
  critical;
- a logical panel without subscriptions, or a physical one without replicas, blanks the page
  (`RenderThrows`): the queries overwrite the empty lists of snapshot.go:75 with nil slices.
  docs/architecture.md:323 has an error boundary, LagStackBar.tsx:41 and docs/ui-spec.md:174 an
  empty state;
- the strip's severity is the worst of subscriptions and replicas, where docs/ui-spec.md:58 has
  the worst of all metrics: a dead worker and the row it tints, spill, a lost slot no
  subscription uses and a flush lag are red below an ok of it (`CalmStripHides` is the list);
- a replica's cells are red from 300 s on and the server's warn begins after 300 s, and it does
  not look at the flush lag; a write lag above 300 s is a warn, where docs/metrics-catalog.md:60
  has critical (`AlertCellAlarmsRow` shows that a red cell is in a replica's row called ok in no
  other way);
- a server with walsenders and publications but no subscription is called standalone, where
  docs/requirements.md:5 has standalone for one with neither kind (theorem `StandaloneCases`);
- a slot the oldest bucket has not seen is compared with zero, which
  docs/metrics-catalog.md:199 rules out (`Baseline` of `SlotDelta`).

## 4. Proofs

Eight modules of proofs hold for all values of the constants that satisfy the modules'
assumptions: any sets of ids, calls, goroutines, clients, nodes, tests, slots and databases
(finite where a module's `ASSUME` says so: the requests of `ConnPool`, the builders of
`SlotDelta`, the rows of a database), any sizes of channels, pools, periods, windows and
histories, and any bounds.  Each type invariant is proved; the run `hub` evaluates that of
`Hub` as well.

**ManagerProofs**

- `TypeCorrect`: `TypeOK` always holds;
- `PoolsOpen`: `MappedPoolsOpen`, whoever gets `Conns.mu` finds only open pools;
- `Forgets`: `DisconnectForgets`, nothing of the connects before a clean disconnect is left in
  any map or comes back;
- `Invariance`: the inductive invariant behind all three.

None of these is inductive alone.  `MappedPoolsOpen` needs `Locked`: `Conns.mu` is held exactly
by the disconnect that drains, and the only pool that may be mapped and closed is the one
under its id.  For a connect about to map its pool, `Locals` says the pool is still open, and
`MapsOwned` that no other call can have closed it, since a pool is mapped by its own call and
under its own id.  `DisconnectForgets` needs three more parts: `CleanErases`, what a clean
disconnect has erased at each of its steps, so that when it answers all three maps are empty
for the id; `RetiredEnded`, so that no retired connect maps anything again; and `BuildsCutOff`,
that a build which still has a retired pool pushes into a ring no map has, which in turn needs
`RingsOwned`: rings are not shared between ids, and a ring about to be stored is empty and its
build's own.  `StepIInv` has a lemma for each part, and each of those a step for each action.

**ManagerServedProofs** proves the other four invariants: `Served`, `NoOrphans`, `LostOnly` and
`Quiet`.  For an id whose calls never raced, `SInv` says which of two situations it is in: while
a disconnect runs no connect does and every connect is retired (`Undone`), and otherwise each
connect that is not retired has all the entries it has made so far (`Kept`).  That is more than
`ConnectedIsServed`, which speaks of answered connects only.  `LInv` adds that the pool a
disconnect drains is closed and still mapped, so that what it takes out of the map is no open
pool.  `QuietAfterDisconnect` joins these: a query runs on an open pool or on the one Close is
waiting for (`Used`), which is mapped and so, by `DisconnectForgets`, not retired; and when a
clean disconnect retires a connect whose pool is open, `LostOnlyByReconnect` names the connect
that replaced it, which is retired by the same step (`UndoneReplaced`, `Replaced`).

**HubProofs** proves `NothingLostButOverflow`, `InOrder`, `EntryHasReader` and, for the safety
part, that `Hub` implements `Feed` (`Hub_ImplementsFeed`).  The invariant holds for each
connection by itself: what was sent, what writePump has in hand and what is queued, one after
the other, is increasing and within the ticks since it registered (`InPipe`), and complete
while it is subscribed and has not overflowed (`Complete`).  A write that fails closes its
connection with the message lost from the middle, which is why completeness asks for an open one.

**SlotDeltaProofs** holds for any number of builds, whose pushes may arrive out of order.
`WindowBounded`: the front of the ring never moves back, so it stays near each build's own push
(`FrontNear`, `BuildsNear`).  `NegativeOnlyAfterReset` follows from what maps and builds can have
seen of a counter (`MapsSeen`, `ReadSeen`) and from `RingBehind`, that no map is ahead of a build
under way that no other push has met.  `KeepsWindow` needs the newest bucket to be that of the
latest push (`LastPush`) and the buckets to have a map each (`Apart`), both in and out of order;
each push is then `Update`, `Add`, `TakeLate` or `Recover` of `Window`, by lemmas about merging
and expiring in sequences that are sorted and in such that are not.  `SlotDelta_SingleInOrder`
adds that builds which take turns (`Single`) never put the ring out of order: for them it is the
window at all times.

**ConnPoolProofs** proves `PermitsBalance` and `ClosedIsQuiet`, from the queries a build still
has (`QueryLeft`) and from a pool that `Conns.Close` has begun to close being closed
(`ShutOnce`).  Three theorems are about the wedge that `EndsOrWedges` allows, in which every
connection is kept by a build of its own: a pool with more connections than builds has none
(`ConnPool_EnoughConnections`); all builds in it but one are snapshot requests, so that the
ticker by itself never wedges (`ConnPool_WedgeHasRequests`); and the action property `WedgeLasts`,
that nothing but a client giving up its request ends it, the Close of a disconnect included.

**DashboardProofs** proves `BusyIsWaiting`, `OneSocketPerClient` and the action property
`LeftoverHadSocket`; with them only two parts are needed: that App has a client just while it is
connected (`Attached`), and that this client's socket is not one whose close is still to be
reported (`NotClosing`).  **SettingsProofs** proves `BusyIsOwnTest`, `BannerIsOfLatestTest` and
`CardTestIsAttended`, from `Waits` and `Alone`: the dialog is busy just when there is a test of
this drawer's dialog, and there are never two.

**PanelsProofs.** `IInv` is little: the snapshot shown is one that a successful build makes of
its database (`Sourced`, `Built`), and thresholds are natural numbers (`Limits`). From it
follow, by the arithmetic of the two tables of limits, `CriticalIsVisible`,
`AlertCellAlarmsRow`, `FullBarIsCritical` and `TintIsSeverity`, and by the shape of rows
`GridIsANamesakes` and `MatrixOfOwnTables`. `HistoryIsRecent` has an invariant of its own
(`Recent`). Two are about whole panels. For `CalmStripHides` no row is ranked above the worst of
the panels (`CalmRows`), so each is ok, and the numbers of an ok row are below every limit of a
cell, a bar and the lag card (`Largest`: a maximum over rows is a row's), but for a replica's
flush lag and a lag at the limit itself (`OkReplicaIsRedAlone`).
`SummariesMatchRows` has an average, whose sum is a fold over the set of slots: if each slot is
below a level, so is the sum below its multiple, shown for the smallest subset for which it
would fail, since the induction theorems for finite sets take an operator. Three theorems are about `Health` alone: `LargerIsNotMilder`, for triples
of thresholds in any order; `WorseIsNotMilder`, that a row no healthier in any number gets no
milder badge from the server; and `StandaloneCases`.

Only model-checked is liveness, since fairness and ENABLED are out of the prover's reach:
`CallsAnswered`, `TickerNeverStuck`, `ClosedIsForgotten`, `QueuedIsWritten`, `EndsOrWedges`,
`GoneRequestEnds`, `SocketComesBack`, `ConnectingEnds`, `CardTestGoes` and `BusyEnds`.  Every
safety property of the passing runs is a theorem.

## 5. Not modelled

Routes, CORS and flags (no state); the DSN parser; the text of SQL and of answers; `Node`'s
connected, lastError and lastTick, which are never read; how percentages, ratios and rates are
computed from differences; texts, languages, number formats and layout, the lines of the lag
chart among it, which have another horizontal extent than its bars; the frame RateCards draws
before its effect has pushed the sample; TopBar's labels; the
bundled copy of the page under `cmd/pgcm/static`, which is built from `web/src`; language, theme
and refresh interval (single assignments; the interval never reaches the server).  The ring's
Newest, Snapshot and Len have no caller but tests.  The health checks the pool runs by itself
belong to the library.

## 6. Plan

1. Shutdown as a whole: the order of main's deferred calls, builds in flight, and `CloseAll` of
   the pools, beside `Hub`'s part of it.
2. `Dashboard` and `Panels` in one module, once the page has a current node.
