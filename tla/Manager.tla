------------------------------ MODULE Manager ------------------------------
(***************************************************************************)
(* The server's node lifecycle: connect and disconnect handlers, the      *)
(* ticker and the on-demand snapshot handlers, running concurrently over   *)
(* three maps keyed by node id, each behind a mutex of its own:            *)
(*                                                                         *)
(*   reg    store.Registry.nodes   id -> *Node     (internal/store)        *)
(*   pools  pg.Conns.pools         id -> *Pool     (internal/pg)           *)
(*   rings  Manager.rings          id -> *Ring     (internal/server)       *)
(*                                                                         *)
(* No lock spans two of the maps.  An action is one critical section or    *)
(* one wait for PostgreSQL, so every interleaving of the handlers between  *)
(* two critical sections is a behaviour.  The only mutex held across a     *)
(* wait is Conns.mu in Close, and it is a variable (connsMu).              *)
(*                                                                         *)
(* A connect call makes at most one *Node and one *Pool; both are named by *)
(* the call.  A ring is named by a member of RingNames and the name is     *)
(* reused once nothing refers to the ring.                                 *)
(***************************************************************************)
EXTENDS Naturals, FiniteSets, Sequences

CONSTANTS
    Ids,          \* node ids
    Connects,     \* calls of HandleConnect and of ConnectDirect
    Initial,      \* the calls of ConnectDirect (--dsn) among Connects
    InitialId,    \* the id ConnectDirect is given, "n_initial" in the code
    Disconnects,  \* calls of HandleDisconnect
    Snapshots,    \* goroutines serving POST /api/v1/snapshot
    Ticker,       \* the goroutine of runTicker
    RingNames,    \* names of the rings in memory
    BodyKinds,    \* cluster_kind as connect bodies carry it, "" if absent
    SeenKinds,    \* cluster kinds the servers of the instance have
    None          \* "no such entry"

ClusterKinds == {"standalone", "logical", "physical", "hybrid"}

ASSUME InitialAssumption == Initial \subseteq Connects /\ InitialId \in Ids
ASSUME KindAssumption == /\ SeenKinds \subseteq ClusterKinds
                         /\ BodyKinds \subseteq ClusterKinds \cup {""}
ASSUME NoneAssumption == None \notin Ids \cup Connects \cup RingNames \cup Disconnects
ASSUME ProcAssumption ==
    /\ Connects \cap Disconnects = {}
    /\ (Connects \cup Disconnects) \cap Snapshots = {}
    /\ Ticker \notin Connects \cup Disconnects \cup Snapshots

Builders == Snapshots \cup {Ticker}
Calls    == Connects \cup Disconnects
Procs    == Calls \cup Builders

VARIABLES
    reg,        \* registry: id -> the connect call whose Node is registered
    pools,      \* Conns.pools: id -> the connect call whose pool is mapped
    poolState,  \* of each call's pool: "none", "open" or "closed"
    connsMu,    \* Conns.mu across Close: the disconnect call holding it
    rings,      \* Manager.rings: id -> ring
    ringSrc,    \* ring -> the pools whose samples were pushed into it
    callId,     \* the node id of each call, None before it starts
    bodyKind,   \* Node.ClusterKind: what the connect body said
    metaKind,   \* Node.clusterKind: what detectClusterKind found
    pc,         \* program counter of every goroutine
    todo,       \* ids a build loop still has to visit
    bld         \* locals of a build: id, node, ring, pool, remaining queries

(***************************************************************************)
(* History: a call is clean while no call of the other kind overlaps it;   *)
(* an id is raced from an overlap of a connect with a disconnect until the *)
(* next clean disconnect of it; a connect is retired once a clean          *)
(* disconnect of its id that began after it was answered has answered.     *)
(***************************************************************************)
VARIABLES clean, raced, retired

server  == <<reg, pools, poolState, connsMu, rings, ringSrc>>
node    == <<callId, bodyKind, metaKind>>
build   == <<todo, bld>>
history == <<clean, raced, retired>>
vars    == <<server, node, pc, build, history>>
-----------------------------------------------------------------------------
(***************************************************************************)
(* The queries of BuildSnapshot, in order, for a node of cluster kind k.   *)
(***************************************************************************)
Plan(k) ==
    (IF k \in {"logical", "hybrid"}
        THEN <<"subscriptions", "counters", "workers", "matrix">> ELSE <<>>)
    \o (IF k \in {"physical", "hybrid"} THEN <<"replicas">> ELSE <<>>)
    \o <<"slots">>

QueryNames == {"subscriptions", "counters", "workers", "matrix", "replicas", "slots"}

NoBuild == [id |-> None, node |-> None, ring |-> None, pool |-> None, plan |-> <<>>]

Goto(p, l) == pc' = [pc EXCEPT ![p] = l]

ConnectActive(c) == pc[c] \in {"dial", "publish", "ensure"}
DisconnectActive(d) == pc[d] \in {"close", "drain", "remove", "forget"}

ConnectsOf(id) == {c \in Connects : callId[c] = id}
DisconnectsOf(id) == {d \in Disconnects : callId[d] = id}

InUse == {rings[i] : i \in Ids} \cup {bld[b].ring : b \in Builders}

Init ==
    /\ reg = [i \in Ids |-> None]
    /\ pools = [i \in Ids |-> None]
    /\ poolState = [c \in Connects |-> "none"]
    /\ connsMu = None
    /\ rings = [i \in Ids |-> None]
    /\ ringSrc = [r \in RingNames |-> {}]
    /\ callId = [p \in Calls |-> None]
    /\ bodyKind = [c \in Connects |-> ""]
    /\ metaKind = [c \in Connects |-> ""]
    /\ pc = [p \in Procs |-> "idle"]
    /\ todo = [b \in Builders |-> {}]
    /\ bld = [b \in Builders |-> NoBuild]
    /\ clean = {}
    /\ raced = {}
    /\ retired = {}
-----------------------------------------------------------------------------
(***************************************************************************)
(* HandleConnect.                                                          *)
(***************************************************************************)

\* A body that does not decode or names no host, dbname or user: answer 400.
Reject(p) ==
    /\ pc[p] = "idle"
    /\ Goto(p, "rejected")
    /\ UNCHANGED <<server, node, build, history>>

\* reg.Upsert of a fresh Node that holds a copy of the body.
Upsert(c, id, kind) ==
    /\ pc[c] = "idle"
    /\ reg' = [reg EXCEPT ![id] = c]
    /\ callId' = [callId EXCEPT ![c] = id]
    /\ bodyKind' = [bodyKind EXCEPT ![c] = kind]
    /\ Goto(c, "dial")
    /\ clean' = clean \ DisconnectsOf(id)
    /\ raced' = IF \E d \in DisconnectsOf(id) : DisconnectActive(d)
                  THEN raced \cup {id} ELSE raced
    /\ UNCHANGED <<pools, poolState, connsMu, rings, ringSrc, metaKind, build, retired>>

HandleConnect(c) ==
    /\ c \notin Initial
    /\ \E id \in Ids, kind \in BodyKinds : Upsert(c, id, kind)

\* connectInitial: the --dsn node; parseDSN fills no cluster kind.
ConnectDirect(c) ==
    /\ c \in Initial
    /\ Upsert(c, InitialId, "")

\* (mutant) A failed connect takes its id out of the registry again.
ConnectFailsAndRemoves(c) ==
    /\ pc[c] = "dial"
    /\ \E s \in {"none", "closed"} : poolState' = [poolState EXCEPT ![c] = s]
    /\ reg' = [reg EXCEPT ![callId[c]] = None]
    /\ Goto(c, "failed")
    /\ UNCHANGED <<pools, connsMu, rings, ringSrc, node, build, history>>

\* Conns.Connect fails: bad DSN, ping timeout, or one of the probing queries.
\* A pool already made is closed before it was mapped; the answer is 502 and
\* the Node stays in the registry.
ConnectFails(c) ==
    /\ pc[c] = "dial"
    /\ \E s \in {"none", "closed"} : poolState' = [poolState EXCEPT ![c] = s]
    /\ Goto(c, "failed")
    /\ UNCHANGED <<reg, pools, connsMu, rings, ringSrc, node, build, history>>

\* Conns.Connect has its pool, version and cluster kind, and waits for Conns.mu.
Dial(c) ==
    /\ pc[c] = "dial"
    /\ poolState' = [poolState EXCEPT ![c] = "open"]
    /\ \E k \in SeenKinds : metaKind' = [metaKind EXCEPT ![c] = k]
    /\ Goto(c, "publish")
    /\ UNCHANGED <<reg, pools, connsMu, rings, ringSrc, callId, bodyKind, build, history>>

\* c.pools[cfg.ID] = pool: whatever was mapped before is dropped as it is.
Publish(c) ==
    /\ pc[c] = "publish"
    /\ connsMu = None
    /\ pools' = [pools EXCEPT ![callId[c]] = c]
    /\ Goto(c, "ensure")
    /\ UNCHANGED <<reg, poolState, connsMu, rings, ringSrc, node, build, history>>

\* SetMeta, SetConnected(true), a ring unless the id has one, and the answer.
EnsureRing(c) ==
    /\ pc[c] = "ensure"
    /\ IF rings[callId[c]] = None
         THEN \E r \in RingNames \ InUse :
                /\ rings' = [rings EXCEPT ![callId[c]] = r]
                /\ ringSrc' = [ringSrc EXCEPT ![r] = {}]
         ELSE UNCHANGED <<rings, ringSrc>>
    /\ Goto(c, "ok")
    /\ UNCHANGED <<reg, pools, poolState, connsMu, node, build, history>>
-----------------------------------------------------------------------------
(***************************************************************************)
(* HandleDisconnect: Conns.Close, Registry.Remove, delete(rings), answer.  *)
(***************************************************************************)
HandleDisconnect(d) ==
    /\ pc[d] = "idle"
    /\ \E id \in Ids :
         LET overlap == \E c \in ConnectsOf(id) : ConnectActive(c) IN
         /\ callId' = [callId EXCEPT ![d] = id]
         /\ clean' = IF overlap THEN clean ELSE clean \cup {d}
         /\ raced' = IF overlap THEN raced \cup {id} ELSE raced
    /\ Goto(d, "close")
    /\ UNCHANGED <<server, bodyKind, metaKind, build, retired>>

\* (mutant) Close forgets p.Close().
CloseWithoutClosing(d) ==
    /\ pc[d] = "close"
    /\ connsMu = None
    /\ connsMu' = IF pools[callId[d]] = None THEN None ELSE d
    /\ Goto(d, IF pools[callId[d]] = None THEN "remove" ELSE "drain")
    /\ UNCHANGED <<reg, pools, poolState, rings, ringSrc, node, build, history>>

\* (mutant) Close leaves a pool alone that a build is using.
CloseUnlessQuerying(d) ==
    /\ pc[d] = "close"
    /\ connsMu = None
    /\ LET p == pools[callId[d]] IN
         IF p = None \/ \E b \in Builders : pc[b] = "query" /\ bld[b].pool = p
           THEN /\ Goto(d, "remove")
                /\ UNCHANGED <<poolState, connsMu>>
           ELSE /\ poolState' = [poolState EXCEPT ![p] = "closed"]
                /\ connsMu' = d
                /\ Goto(d, "drain")
    /\ UNCHANGED <<reg, pools, rings, ringSrc, node, build, history>>

\* Conns.Close takes Conns.mu; p.Close refuses new acquires at once.
Close(d) ==
    /\ pc[d] = "close"
    /\ connsMu = None
    /\ LET p == pools[callId[d]] IN
         IF p = None
           THEN /\ Goto(d, "remove")
                /\ UNCHANGED <<poolState, connsMu>>
           ELSE /\ poolState' = [poolState EXCEPT ![p] = "closed"]
                /\ connsMu' = d
                /\ Goto(d, "drain")
    /\ UNCHANGED <<reg, pools, rings, ringSrc, node, build, history>>

Querying(p) == \E b \in Builders : pc[b] = "query" /\ bld[b].pool = p

\* (mutant) Close unlocks without delete(c.pools, id).
DrainKeepingEntry(d) ==
    /\ pc[d] = "drain"
    /\ ~Querying(pools[callId[d]])
    /\ connsMu' = None
    /\ Goto(d, "remove")
    /\ UNCHANGED <<reg, pools, poolState, rings, ringSrc, node, build, history>>

\* (mutant) Close waits for whole builds, with Conns.mu held.
DrainWaitingForBuilds(d) ==
    /\ pc[d] = "drain"
    /\ \A b \in Builders : bld[b].id /= callId[d]
    /\ pools' = [pools EXCEPT ![callId[d]] = None]
    /\ connsMu' = None
    /\ Goto(d, "remove")
    /\ UNCHANGED <<reg, poolState, rings, ringSrc, node, build, history>>

\* (mutant) Close unlocks while queries still run on the pool.
DrainAtOnce(d) ==
    /\ pc[d] = "drain"
    /\ pools' = [pools EXCEPT ![callId[d]] = None]
    /\ connsMu' = None
    /\ Goto(d, "remove")
    /\ UNCHANGED <<reg, poolState, rings, ringSrc, node, build, history>>

\* p.Close returns once every connection taken from the pool is back.
Drain(d) ==
    /\ pc[d] = "drain"
    /\ ~Querying(pools[callId[d]])
    /\ pools' = [pools EXCEPT ![callId[d]] = None]
    /\ connsMu' = None
    /\ Goto(d, "remove")
    /\ UNCHANGED <<reg, poolState, rings, ringSrc, node, build, history>>

Remove(d) ==
    /\ pc[d] = "remove"
    /\ reg' = [reg EXCEPT ![callId[d]] = None]
    /\ Goto(d, "forget")
    /\ UNCHANGED <<pools, poolState, connsMu, rings, ringSrc, node, build, history>>

\* (mutant) HandleDisconnect keeps the ring for a later connect.
KeepRing(d) ==
    /\ pc[d] = "forget"
    /\ Goto(d, "done")
    /\ retired' = IF d \in clean THEN retired \cup ConnectsOf(callId[d]) ELSE retired
    /\ raced' = IF d \in clean THEN raced \ {callId[d]} ELSE raced
    /\ UNCHANGED <<server, node, build, clean>>

\* delete(m.rings, id), and the answer.
ForgetRing(d) ==
    /\ pc[d] = "forget"
    /\ rings' = [rings EXCEPT ![callId[d]] = None]
    /\ Goto(d, "done")
    /\ retired' = IF d \in clean THEN retired \cup ConnectsOf(callId[d]) ELSE retired
    /\ raced' = IF d \in clean THEN raced \ {callId[d]} ELSE raced
    /\ UNCHANGED <<reg, pools, poolState, connsMu, ringSrc, node, build, clean>>
-----------------------------------------------------------------------------
(***************************************************************************)
(* A round of runTicker, and HandleSnapshot: the same loop over node ids,  *)
(* in any order (Go's map order), the ticker skipping ids without a pool.  *)
(***************************************************************************)
Registered == {i \in Ids : reg[i] /= None}

Tick ==
    /\ pc[Ticker] = "idle"
    /\ todo' = [todo EXCEPT ![Ticker] = Registered]
    /\ Goto(Ticker, "next")
    /\ UNCHANGED <<server, node, bld, history>>

\* node_id given, registered or not, or absent for all nodes.
HandleSnapshot(b) ==
    /\ pc[b] = "idle"
    /\ \E ids \in {{i} : i \in Ids} \cup {Registered} :
         todo' = [todo EXCEPT ![b] = ids]
    /\ Goto(b, "next")
    /\ UNCHANGED <<server, node, bld, history>>

Visit(b) ==
    /\ pc[b] = "next"
    /\ \E i \in todo[b] :
         /\ todo' = [todo EXCEPT ![b] = @ \ {i}]
         /\ bld' = [bld EXCEPT ![b] = [NoBuild EXCEPT !.id = i]]
    /\ Goto(b, IF b = Ticker THEN "haspool" ELSE "get")
    /\ UNCHANGED <<server, node, history>>

EndRound(b) ==
    /\ pc[b] = "next"
    /\ todo[b] = {}
    /\ Goto(b, "idle")
    /\ UNCHANGED <<server, node, build, history>>

\* The build ends, with a snapshot or without; its locals are garbage.
Leave(b) ==
    /\ bld' = [bld EXCEPT ![b] = NoBuild]
    /\ Goto(b, "next")
    /\ UNCHANGED todo

HasPool ==
    /\ pc[Ticker] = "haspool"
    /\ connsMu = None
    /\ IF pools[bld[Ticker].id] = None
         THEN Leave(Ticker)
         ELSE Goto(Ticker, "get") /\ UNCHANGED build
    /\ UNCHANGED <<server, node, history>>

\* buildSnapshot: reg.Get, the ring, and then Conns.BuildSnapshot.
GetNode(b) ==
    /\ pc[b] = "get"
    /\ IF reg[bld[b].id] = None
         THEN Leave(b)
         ELSE /\ bld' = [bld EXCEPT ![b].node = reg[bld[b].id]]
              /\ Goto(b, "ring")
              /\ UNCHANGED todo
    /\ UNCHANGED <<server, node, history>>

\* m.rings[nodeID]; if absent, NewRing outside the lock.
LookupRing(b) ==
    /\ pc[b] = "ring"
    /\ IF rings[bld[b].id] /= None
         THEN /\ bld' = [bld EXCEPT ![b].ring = rings[bld[b].id]]
              /\ Goto(b, "pool")
              /\ UNCHANGED ringSrc
         ELSE \E r \in RingNames \ InUse :
              /\ bld' = [bld EXCEPT ![b].ring = r]
              /\ ringSrc' = [ringSrc EXCEPT ![r] = {}]
              /\ Goto(b, "store")
    /\ UNCHANGED <<reg, pools, poolState, connsMu, rings, node, todo, history>>

\* m.rings[nodeID] = r, without looking again.
StoreRing(b) ==
    /\ pc[b] = "store"
    /\ rings' = [rings EXCEPT ![bld[b].id] = bld[b].ring]
    /\ Goto(b, "pool")
    /\ UNCHANGED <<reg, pools, poolState, connsMu, ringSrc, node, build, history>>

\* BuildSnapshot: the panels to fill follow the cluster kind in the NodeConfig.
LookupPool(b) ==
    /\ pc[b] = "pool"
    /\ connsMu = None
    /\ LET p == pools[bld[b].id] IN
         IF p = None
           THEN Leave(b)
           ELSE /\ bld' = [bld EXCEPT ![b].pool = p,
                                      ![b].plan = Plan(bodyKind[bld[b].node])]
                /\ Goto(b, "acquire")
                /\ UNCHANGED todo
    /\ UNCHANGED <<server, node, history>>

\* A query takes a connection from the pool and waits for PostgreSQL.
Acquire(b) ==
    /\ pc[b] = "acquire"
    /\ poolState[bld[b].pool] = "open"
    /\ Goto(b, "query")
    /\ UNCHANGED <<server, node, build, history>>

\* The next query, or Touch and the finished snapshot.
Continue(b) ==
    /\ bld' = [bld EXCEPT ![b].plan = Tail(@)]
    /\ Goto(b, IF Len(bld[b].plan) = 1 THEN "deliver" ELSE "acquire")
    /\ UNCHANGED todo

QueryOk(b) ==
    /\ pc[b] = "query"
    /\ IF Head(bld[b].plan) = "counters"
         THEN Goto(b, "push") /\ UNCHANGED build
         ELSE Continue(b)
    /\ UNCHANGED <<server, node, history>>

\* A closed pool or a failing query ends the build; only the sync matrix may fail.
QueryFails(b) ==
    /\ \/ pc[b] = "query"
       \/ pc[b] = "acquire" /\ poolState[bld[b].pool] = "closed"
    /\ IF Head(bld[b].plan) = "matrix" THEN Continue(b) ELSE Leave(b)
    /\ UNCHANGED <<server, node, history>>

\* buildLogical: r.Push of the slot counters read through the pool.
Push(b) ==
    /\ pc[b] = "push"
    /\ ringSrc' = [ringSrc EXCEPT ![bld[b].ring] = @ \cup {bld[b].pool}]
    /\ Continue(b)
    /\ UNCHANGED <<reg, pools, poolState, connsMu, rings, node, history>>

\* The ticker broadcasts the snapshot, HandleSnapshot adds it to its answer.
Deliver(b) ==
    /\ pc[b] = "deliver"
    /\ Leave(b)
    /\ UNCHANGED <<server, node, history>>
-----------------------------------------------------------------------------
ConnectStep(c) ==
    \/ Reject(c)
    \/ HandleConnect(c) \/ ConnectDirect(c)
    \/ ConnectFails(c) \/ Dial(c)
    \/ Publish(c) \/ EnsureRing(c)

DisconnectStep(d) ==
    \/ Reject(d)
    \/ HandleDisconnect(d)
    \/ Close(d) \/ Drain(d) \/ Remove(d) \/ ForgetRing(d)

BuildStep(b) ==
    \/ Visit(b) \/ EndRound(b)
    \/ GetNode(b) \/ LookupRing(b) \/ StoreRing(b) \/ LookupPool(b)
    \/ Acquire(b) \/ QueryOk(b) \/ QueryFails(b) \/ Push(b) \/ Deliver(b)

Next ==
    \/ \E c \in Connects : ConnectStep(c)
    \/ \E d \in Disconnects : DisconnectStep(d)
    \/ \E b \in Builders : BuildStep(b)
    \/ \E b \in Snapshots : HandleSnapshot(b)
    \/ Tick
    \/ HasPool

Spec == Init /\ [][Next]_vars

(***************************************************************************)
(* Go schedules every runnable goroutine, Conns.mu is starvation free, the *)
(* time.Ticker fires again, and PostgreSQL answers or the connection       *)
(* breaks: the code itself puts no time limit on a query (only on Ping).   *)
(* Waiting for one of the pool's two connections is left to ConnPool.      *)
(* No client need ever call.                                               *)
(***************************************************************************)
Fairness ==
    /\ \A c \in Connects : WF_vars(ConnectStep(c) /\ pc[c] /= "idle")
    /\ \A d \in Disconnects : WF_vars(DisconnectStep(d) /\ pc[d] /= "idle")
    /\ \A b \in Builders : WF_vars(BuildStep(b))
    /\ WF_vars(HasPool)
    /\ WF_vars(Tick)

FairSpec == Spec /\ Fairness
-----------------------------------------------------------------------------
(***************************************************************************)
(* Properties.                                                             *)
(***************************************************************************)
BuildType == [id   : Ids \cup {None},
              node : Connects \cup {None},
              ring : RingNames \cup {None},
              pool : Connects \cup {None},
              plan : Seq(QueryNames)]

ConnectPCs    == {"idle", "rejected", "dial", "publish", "ensure", "ok", "failed"}
DisconnectPCs == {"idle", "rejected", "close", "drain", "remove", "forget", "done"}
BuildPCs      == {"idle", "next", "haspool", "get", "ring", "store", "pool",
                  "acquire", "query", "push", "deliver"}

PcOK ==
    /\ pc \in [Procs -> ConnectPCs \cup DisconnectPCs \cup BuildPCs]
    /\ \A c \in Connects : pc[c] \in ConnectPCs
    /\ \A d \in Disconnects : pc[d] \in DisconnectPCs
    /\ \A b \in Builders : pc[b] \in BuildPCs

\* The maps of Registry, Conns and Manager hold what their Go types say, and
\* each goroutine's locals are well formed.
TypeOK ==
    /\ reg \in [Ids -> Connects \cup {None}]
    /\ pools \in [Ids -> Connects \cup {None}]
    /\ poolState \in [Connects -> {"none", "open", "closed"}]
    /\ connsMu \in Disconnects \cup {None}
    /\ rings \in [Ids -> RingNames \cup {None}]
    /\ ringSrc \in [RingNames -> SUBSET Connects]
    /\ callId \in [Calls -> Ids \cup {None}]
    /\ bodyKind \in [Connects -> BodyKinds \cup {""}]
    /\ metaKind \in [Connects -> SeenKinds \cup {""}]
    /\ PcOK
    /\ todo \in [Builders -> SUBSET Ids]
    /\ bld \in [Builders -> BuildType]
    /\ clean \subseteq Disconnects
    /\ raced \subseteq Ids
    /\ retired \subseteq Connects

\* Conns: whoever gets Conns.mu finds only open pools in the map, so a build
\* never starts on a pool that a disconnect has already closed.
MappedPoolsOpen ==
    connsMu = None =>
        \A i \in Ids : pools[i] /= None => poolState[pools[i]] = "open"

\* HandleDisconnect: after a disconnect that no connect of its id overlapped,
\* nothing of the connects before it is left in any of the three maps, and no
\* build that was still running puts it back or adds their counters to the
\* ring a later connect would find.
DisconnectForgets ==
    \A i \in Ids :
        /\ reg[i] \notin retired
        /\ pools[i] \notin retired
        /\ rings[i] /= None => ringSrc[rings[i]] \cap retired = {}

\* HandleConnect: while no disconnect of its id runs, and unless one raced a
\* connect since, an answered connect that no disconnect has undone keeps its id
\* in all three maps, whatever other connects of the id and builds do.
ConnectedIsServed ==
    \A c \in Connects :
        LET i == callId[c] IN
        (/\ pc[c] = "ok"
         /\ c \notin retired
         /\ i \notin raced
         /\ \A d \in DisconnectsOf(i) : ~DisconnectActive(d))
        => reg[i] /= None /\ pools[i] /= None /\ rings[i] /= None

\* A pool the ticker can reach belongs to a registered node, unless a connect
\* and a disconnect of the id overlapped: otherwise the map would hold a pool
\* that no tick visits and no list of nodes shows.
NoOrphanPool ==
    \A i \in Ids \ raced :
        (/\ pools[i] /= None
         /\ \A d \in DisconnectsOf(i) : ~DisconnectActive(d))
        => reg[i] /= None

\* Conns: of the calls that mapped a pool, the only ones whose pool is open but
\* no longer mapped are those whose id another connect mapped too.  These the code
\* does lose: Connect replaces the entry without closing the pool that was there.
LostOnlyByReconnect ==
    \A c \in Connects :
        (poolState[c] = "open" /\ pc[c] \in {"ensure", "ok"} /\ pools[callId[c]] /= c)
        => \E e \in ConnectsOf(callId[c]) \ {c} : pc[e] \in {"ensure", "ok"}

\* HandleDisconnect: once a clean disconnect has answered, no build has a query running
\* on a pool of the connects it undid, nor comes to run one later, but on a pool that
\* another of these connects had replaced in the map: that one nobody closes.
QuietAfterDisconnect ==
    \A b \in Builders :
        (pc[b] = "query" /\ bld[b].pool \in retired)
        => \E e \in retired \ {bld[b].pool} : callId[e] = callId[bld[b].pool] /\ pc[e] = "ok"

\* PROGRESS.md:19 says that BuildSnapshot passes cluster_kind through.  The kind
\* detectClusterKind found is in the Node; the snapshot takes the body's.
ClusterKindInjected ==
    \A b \in Builders :
        pc[b] = "deliver" => bodyKind[bld[b].node] = metaKind[bld[b].pool]

\* Every connect that is not refused is answered, and every disconnect, even if builds
\* are using the pool it closes.
CallsAnswered ==
    /\ \A c \in Connects : ConnectActive(c) ~> pc[c] \in {"ok", "failed"}
    /\ \A d \in Disconnects : DisconnectActive(d) ~> pc[d] = "done"

\* The ticker finishes every round, whatever becomes of the nodes it visits.
TickerNeverStuck == []<>(pc[Ticker] = "idle")
=============================================================================
