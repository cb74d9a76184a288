--------------------------- MODULE ManagerProofs ---------------------------
(***************************************************************************)
(* Theorems about Manager, for any number of ids, calls and builds.        *)
(*                                                                         *)
(* The safety properties follow from one inductive invariant, the          *)
(* conjunction of                                                          *)
(*   TypeOK   what the maps and locals hold,                               *)
(*   Locals   what a goroutine has in hand at each point of its code,      *)
(*   Locked   who holds Conns.mu and which mapped pool may be closed,      *)
(*   Owned    entries under an id come from calls of that id, and no two   *)
(*            ids or fresh rings share a ring,                             *)
(*   Erased   what a clean disconnect has erased so far, and that nothing  *)
(*            retired is reachable from the maps.                          *)
(***************************************************************************)
EXTENDS Manager, SequenceTheorems, TLAPS

\* What a build has in hand (r) at location l.
HandOK(r, l) ==
    /\ l \notin {"idle", "next"} => r.id \in Ids
    /\ l \in {"ring", "store", "pool", "acquire", "query", "push", "deliver"}
         => r.node \in Connects
    /\ l \in {"store", "pool", "acquire", "query", "push", "deliver"} <=> r.ring /= None
    /\ l \in {"acquire", "query", "push", "deliver"} <=> r.pool /= None
    /\ l \in {"acquire", "query", "push"} => r.plan /= <<>>

\* What each goroutine has in hand.
Locals ==
    /\ \A p \in Calls : pc[p] \in {"idle", "rejected"} <=> callId[p] = None
    /\ \A c \in Connects : pc[c] = "publish" => poolState[c] = "open"
    /\ \A b \in Builders : HandOK(bld[b], pc[b])

\* Conns.mu is held across p.Close only, and only the pool being closed may be
\* both mapped and not open.
Locked ==
    /\ \A d \in Disconnects : pc[d] = "drain" <=> connsMu = d
    /\ connsMu /= None => pools[callId[connsMu]] /= None
    /\ \A i \in Ids :
         pools[i] /= None =>
            \/ poolState[pools[i]] = "open"
            \/ connsMu /= None /\ callId[connsMu] = i

\* Entries under an id, and the pool a build has for an id, come from calls of it.
MapsOwned ==
    /\ \A i \in Ids : reg[i] /= None => callId[reg[i]] = i
    /\ \A i \in Ids : pools[i] /= None =>
         callId[pools[i]] = i /\ pc[pools[i]] \in {"ensure", "ok"}
    /\ \A b \in Builders : bld[b].pool /= None => callId[bld[b].pool] = bld[b].id

\* A ring is mapped under one id, holds samples of that id's pools, and is used by
\* builds of that id; a ring about to be stored is empty and nobody else's.
RingsOwned ==
    /\ \A i, j \in Ids : rings[i] = rings[j] /\ rings[i] /= None => i = j
    /\ \A i \in Ids : rings[i] /= None =>
         \A c \in ringSrc[rings[i]] : callId[c] = i
    /\ \A b \in Builders, i \in Ids :
         bld[b].ring = rings[i] /\ rings[i] /= None => bld[b].id = i
    /\ \A b \in Builders : pc[b] = "store" =>
         /\ ringSrc[bld[b].ring] = {}
         /\ \A i \in Ids : rings[i] /= bld[b].ring
         /\ \A e \in Builders \ {b} : bld[e].ring /= bld[b].ring

Owned == MapsOwned /\ RingsOwned

\* A retired connect was answered long ago.
RetiredEnded == \A c \in retired : pc[c] \in {"ok", "failed"}

\* While a clean disconnect runs no connect of its id does, and what it has erased
\* stays erased.
CleanErases ==
    \A d \in clean :
        /\ callId[d] /= None
        /\ DisconnectActive(d) => \A c \in ConnectsOf(callId[d]) : ~ConnectActive(c)
        /\ pc[d] \in {"remove", "forget"} => pools[callId[d]] = None
        /\ pc[d] = "forget" => reg[callId[d]] = None

\* A build on a retired pool pushes into a ring that is no longer mapped.
BuildsCutOff ==
    \A b \in Builders : bld[b].pool \in retired => \A i \in Ids : rings[i] /= bld[b].ring

Erased == RetiredEnded /\ CleanErases /\ DisconnectForgets /\ BuildsCutOff

IInv == TypeOK /\ Locals /\ Locked /\ Owned /\ Erased
-----------------------------------------------------------------------------
\* Every query plan is a nonempty sequence of queries.
LEMMA PlanType ==
    ASSUME NEW k
    PROVE  Plan(k) \in Seq(QueryNames) /\ Plan(k) /= <<>>
<1> DEFINE L == IF k \in {"logical", "hybrid"}
                  THEN <<"subscriptions", "counters", "workers", "matrix">> ELSE <<>>
           P == IF k \in {"physical", "hybrid"} THEN <<"replicas">> ELSE <<>>
<1>a. /\ <<"subscriptions", "counters", "workers", "matrix">> \in Seq(QueryNames)
      /\ <<"replicas">> \in Seq(QueryNames)
      /\ <<"slots">> \in Seq(QueryNames)
  BY DEF QueryNames
<1>1. L \in Seq(QueryNames)
  BY <1>a, EmptySeq
<1>2. P \in Seq(QueryNames)
  BY <1>a, EmptySeq
<1>3. <<"slots">> \in Seq(QueryNames) /\ Len(<<"slots">>) = 1
  BY <1>a
<1> HIDE DEF L, P
<1>4. (L \o P) \o <<"slots">> \in Seq(QueryNames) /\ Len((L \o P) \o <<"slots">>) >= 1
  BY <1>1, <1>2, <1>3
<1>5. (L \o P) \o <<"slots">> /= <<>>
  BY <1>4
<1> QED
  BY <1>4, <1>5 DEF Plan, L, P

\* Dropping the first query of a plan leaves a plan, empty iff it was the last.
LEMMA PlanTail ==
    ASSUME NEW s \in Seq(QueryNames), s /= <<>>
    PROVE  /\ Tail(s) \in Seq(QueryNames)
           /\ Len(s) /= 1 => Tail(s) /= <<>>
<1>1. /\ Tail(s) \in Seq(QueryNames)
      /\ Len(Tail(s)) = Len(s) - 1
  BY HeadTailProperties
<1>2. Len(s) \in Nat
  BY LenProperties
<1>3. Tail(s) = <<>> => Len(Tail(s)) = 0
  BY EmptySeq
<1> QED
  BY <1>1, <1>2, <1>3

\* The goroutines of different kinds are different.
LEMMA Disjoint ==
    /\ Connects \subseteq Calls /\ Disconnects \subseteq Calls
    /\ Connects \subseteq Procs /\ Disconnects \subseteq Procs /\ Builders \subseteq Procs
    /\ Snapshots \subseteq Builders /\ Ticker \in Builders
    /\ \A c \in Connects : c \notin Disconnects /\ c \notin Builders
    /\ \A d \in Disconnects : d \notin Builders
    /\ \A p \in Procs : p \in Connects \/ p \in Disconnects \/ p \in Builders
    /\ \A p \in Calls : p \in Connects \/ p \in Disconnects
BY ProcAssumption DEF Procs, Calls, Builders

\* The cases of a step, as the proofs below go through them.
LEMMA NextCases ==
    ASSUME [Next]_vars
    PROVE  \/ \E p \in Calls : Reject(p)
           \/ \E c \in Connects, id \in Ids, kind \in BodyKinds \cup {""} : Upsert(c, id, kind)
           \/ \E c \in Connects : \/ ConnectFails(c) \/ Dial(c)
                                 \/ Publish(c) \/ EnsureRing(c)
           \/ \E d \in Disconnects : \/ HandleDisconnect(d)
                                    \/ Close(d) \/ Drain(d) \/ Remove(d) \/ ForgetRing(d)
           \/ \E b \in Builders :
                \/ Visit(b) \/ EndRound(b) \/ GetNode(b) \/ LookupRing(b) \/ StoreRing(b)
                \/ LookupPool(b) \/ Acquire(b) \/ QueryOk(b) \/ QueryFails(b)
                \/ Push(b) \/ Deliver(b)
                \/ HandleSnapshot(b)
                \/ b = Ticker /\ (Tick \/ HasPool)
           \/ UNCHANGED vars
<1>1. ASSUME NEW c \in Connects, ConnectStep(c)
      PROVE  \/ Reject(c) \/ ConnectFails(c) \/ Dial(c) \/ Publish(c) \/ EnsureRing(c)
             \/ \E id \in Ids, kind \in BodyKinds \cup {""} : Upsert(c, id, kind)
  BY <1>1, InitialAssumption DEF ConnectStep, HandleConnect, ConnectDirect
<1> QED
  BY <1>1, Disjoint DEF Next, DisconnectStep, BuildStep
-----------------------------------------------------------------------------
(***************************************************************************)
(* Type correctness.                                                       *)
(***************************************************************************)

\* A connect that goes to one of its own locations keeps every pc well typed.
LEMMA ConnectGoto ==
    ASSUME TypeOK, NEW c \in Connects, NEW l \in ConnectPCs, Goto(c, l)
    PROVE  PcOK'
<1>1. pc' \in [Procs -> ConnectPCs \cup DisconnectPCs \cup BuildPCs]
  BY Disjoint DEF TypeOK, PcOK, Goto
<1> QED
  BY <1>1, Disjoint DEF TypeOK, PcOK, Goto

\* The same of a disconnect.
LEMMA DisconnectGoto ==
    ASSUME TypeOK, NEW d \in Disconnects, NEW l \in DisconnectPCs, Goto(d, l)
    PROVE  PcOK'
<1>1. pc' \in [Procs -> ConnectPCs \cup DisconnectPCs \cup BuildPCs]
  BY Disjoint DEF TypeOK, PcOK, Goto
<1> QED
  BY <1>1, Disjoint DEF TypeOK, PcOK, Goto

\* The same of a build loop.
LEMMA BuildGoto ==
    ASSUME TypeOK, NEW b \in Builders, NEW l \in BuildPCs, Goto(b, l)
    PROVE  PcOK'
<1>1. pc' \in [Procs -> ConnectPCs \cup DisconnectPCs \cup BuildPCs]
  BY Disjoint DEF TypeOK, PcOK, Goto
<1> QED
  BY <1>1, Disjoint DEF TypeOK, PcOK, Goto

\* A call that runs has an id.
LEMMA CallFacts ==
    ASSUME TypeOK, Locals
    PROVE  \A p \in Calls : pc[p] \notin {"idle", "rejected"} => callId[p] \in Ids
BY DEF TypeOK, Locals

\* What a build has in hand, with its type.
LEMMA BuildFacts ==
    ASSUME TypeOK, Locals, NEW b \in Builders
    PROVE  /\ bld[b] \in BuildType
           /\ pc[b] \notin {"idle", "next"} => bld[b].id \in Ids
           /\ pc[b] \in {"ring", "store", "pool", "acquire", "query", "push", "deliver"}
                => bld[b].node \in Connects
           /\ pc[b] \in {"store", "pool", "acquire", "query", "push", "deliver"}
                => bld[b].ring \in RingNames
           /\ pc[b] \in {"acquire", "query", "push", "deliver"} => bld[b].pool \in Connects
           /\ pc[b] \in {"acquire", "query", "push"} => bld[b].plan /= <<>>
<1>1. bld[b] \in BuildType
  BY DEF TypeOK
<1>2. /\ bld[b].ring \in RingNames \cup {None}
      /\ bld[b].pool \in Connects \cup {None}
  BY <1>1 DEF BuildType
<1> QED
  BY <1>1, <1>2 DEF Locals, HandOK

\* The edits of a build's locals that the actions make.
LEMMA BuildEdits ==
    ASSUME NEW r \in BuildType
    PROVE  /\ NoBuild \in BuildType
           /\ \A i \in Ids : [NoBuild EXCEPT !.id = i] \in BuildType
           /\ \A c \in Connects : [r EXCEPT !.node = c] \in BuildType
           /\ \A x \in RingNames : [r EXCEPT !.ring = x] \in BuildType
           /\ \A c \in Connects, s \in Seq(QueryNames) :
                [r EXCEPT !.pool = c, !.plan = s] \in BuildType
           /\ r.plan /= <<>> => [r EXCEPT !.plan = Tail(r.plan)] \in BuildType
<1>1. NoBuild \in BuildType
  BY DEF NoBuild, BuildType
<1>2. \A q \in BuildType, i \in Ids : [q EXCEPT !.id = i] \in BuildType
  BY DEF BuildType
<1>3. r.plan /= <<>> => [r EXCEPT !.plan = Tail(r.plan)] \in BuildType
  <2>1. r.plan \in Seq(QueryNames)
    BY DEF BuildType
  <2>2. r.plan /= <<>> => Tail(r.plan) \in Seq(QueryNames)
    BY <2>1, PlanTail
  <2> QED
    BY <2>2 DEF BuildType
<1>4. /\ \A c \in Connects : [r EXCEPT !.node = c] \in BuildType
      /\ \A x \in RingNames : [r EXCEPT !.ring = x] \in BuildType
      /\ \A c \in Connects, s \in Seq(QueryNames) :
           [r EXCEPT !.pool = c, !.plan = s] \in BuildType
  BY DEF BuildType
<1> QED
  BY <1>1, <1>2, <1>3, <1>4

\* The locals are well typed when the server starts.
LEMMA TypeInit == Init => TypeOK
<1> SUFFICES ASSUME Init PROVE TypeOK
  OBVIOUS
<1>1. PcOK
  BY Disjoint DEF Init, PcOK, ConnectPCs, DisconnectPCs, BuildPCs
<1>2. bld \in [Builders -> BuildType]
  BY EmptySeq DEF Init, NoBuild, BuildType
<1> QED
  BY <1>1, <1>2 DEF Init, TypeOK

\* Ending a build keeps the type invariant.
LEMMA LeaveType ==
    ASSUME TypeOK, NEW b \in Builders, Leave(b)
    PROVE  bld' \in [Builders -> BuildType] /\ PcOK'
<1>1. PcOK'
  BY BuildGoto DEF Leave, BuildPCs
<1>2. NoBuild \in BuildType
  BY DEF NoBuild, BuildType
<1> QED
  BY <1>1, <1>2 DEF TypeOK, Leave

\* Going on to the next query keeps the type invariant.
LEMMA ContinueType ==
    ASSUME TypeOK, NEW b \in Builders, Continue(b), bld[b].plan /= <<>>
    PROVE  bld' \in [Builders -> BuildType] /\ PcOK'
<1>1. PcOK'
  BY BuildGoto DEF Continue, BuildPCs
<1>2. bld[b] \in BuildType
  BY DEF TypeOK
<1> QED
  BY <1>1, <1>2, BuildEdits DEF TypeOK, Continue

\* A refused connect keeps the type invariant.
LEMMA RejectConnectType ==
    ASSUME TypeOK, Locals, NEW c \in Connects, Reject(c)
    PROVE  TypeOK'
<1>1. PcOK'
  BY Disjoint, ConnectGoto DEF Reject, ConnectPCs
<1> QED
  BY <1>1 DEF TypeOK, Reject, server, node, build, history

\* A refused disconnect keeps the type invariant.
LEMMA RejectDisconnectType ==
    ASSUME TypeOK, Locals, NEW d \in Disconnects, Reject(d)
    PROVE  TypeOK'
<1>1. PcOK'
  BY Disjoint, DisconnectGoto DEF Reject, DisconnectPCs
<1> QED
  BY <1>1 DEF TypeOK, Reject, server, node, build, history

\* Registering the node of a connect keeps the type invariant.
LEMMA UpsertType ==
    ASSUME TypeOK, NEW c \in Connects, NEW id \in Ids, NEW kind \in BodyKinds \cup {""},
           Upsert(c, id, kind)
    PROVE  TypeOK'
<1>1. PcOK'
  BY ConnectGoto DEF Upsert, ConnectPCs
<1>2. reg' \in [Ids -> Connects \cup {None}]
  BY Disjoint DEF TypeOK, Upsert
<1>3. callId' \in [Calls -> Ids \cup {None}]
  BY Disjoint DEF TypeOK, Upsert
<1>4. bodyKind' \in [Connects -> BodyKinds \cup {""}]
  BY Disjoint DEF TypeOK, Upsert
<1>5. clean' \subseteq Disconnects
  BY Disjoint DEF TypeOK, Upsert
<1>6. raced' \subseteq Ids
  BY Disjoint DEF TypeOK, Upsert
<1> QED
  BY <1>1, <1>2, <1>3, <1>4, <1>5, <1>6 DEF TypeOK, Upsert, build

\* ConnectFails keeps the type invariant.
LEMMA ConnectFailsType ==
    ASSUME TypeOK, Locals, NEW c \in Connects, ConnectFails(c)
    PROVE  TypeOK'
<1>1. PcOK'
  BY Disjoint, ConnectGoto DEF ConnectFails, ConnectPCs
<1>2. poolState' \in [Connects -> {"none", "open", "closed"}]
  BY Disjoint DEF TypeOK, ConnectFails
<1> QED
  BY <1>1, <1>2 DEF TypeOK, ConnectFails, node, build, history

\* Dial keeps the type invariant.
LEMMA DialType ==
    ASSUME TypeOK, Locals, NEW c \in Connects, Dial(c)
    PROVE  TypeOK'
<1>1. PcOK'
  BY Disjoint, ConnectGoto DEF Dial, ConnectPCs
<1>2. poolState' \in [Connects -> {"none", "open", "closed"}]
  BY Disjoint DEF TypeOK, Dial
<1>3. metaKind' \in [Connects -> SeenKinds \cup {""}]
  BY Disjoint DEF TypeOK, Dial
<1> QED
  BY <1>1, <1>2, <1>3 DEF TypeOK, Dial, build, history

\* Publish keeps the type invariant.
LEMMA PublishType ==
    ASSUME TypeOK, Locals, NEW c \in Connects, Publish(c)
    PROVE  TypeOK'
<1>1. PcOK'
  BY Disjoint, ConnectGoto DEF Publish, ConnectPCs
<1>2. pools' \in [Ids -> Connects \cup {None}]
  BY Disjoint, CallFacts DEF TypeOK, Publish
<1> QED
  BY <1>1, <1>2 DEF TypeOK, Publish, node, build, history

\* EnsureRing keeps the type invariant.
LEMMA EnsureRingType ==
    ASSUME TypeOK, Locals, NEW c \in Connects, EnsureRing(c)
    PROVE  TypeOK'
<1>1. PcOK'
  BY Disjoint, ConnectGoto DEF EnsureRing, ConnectPCs
<1>2. rings' \in [Ids -> RingNames \cup {None}]
  BY Disjoint, CallFacts DEF TypeOK, EnsureRing
<1>3. ringSrc' \in [RingNames -> SUBSET Connects]
  BY Disjoint, CallFacts DEF TypeOK, EnsureRing
<1> QED
  BY <1>1, <1>2, <1>3 DEF TypeOK, EnsureRing, node, build, history

\* HandleDisconnect keeps the type invariant.
LEMMA HandleDisconnectType ==
    ASSUME TypeOK, Locals, NEW d \in Disconnects, HandleDisconnect(d)
    PROVE  TypeOK'
<1>1. PcOK'
  BY Disjoint, DisconnectGoto DEF HandleDisconnect, DisconnectPCs
<1>2. callId' \in [Calls -> Ids \cup {None}]
  <2>1. PICK id \in Ids : callId' = [callId EXCEPT ![d] = id]
    BY DEF HandleDisconnect
  <2> QED
    BY <2>1, Disjoint DEF TypeOK
<1>3. clean' \subseteq Disconnects
  BY Disjoint DEF TypeOK, HandleDisconnect
<1>4. raced' \subseteq Ids
  BY Disjoint DEF TypeOK, HandleDisconnect
<1> QED
  BY <1>1, <1>2, <1>3, <1>4 DEF TypeOK, HandleDisconnect, server, build

\* Close keeps the type invariant.
LEMMA CloseType ==
    ASSUME TypeOK, Locals, NEW d \in Disconnects, Close(d)
    PROVE  TypeOK'
<1>1. PcOK'
  BY Disjoint, DisconnectGoto DEF Close, DisconnectPCs
<1>2. poolState' \in [Connects -> {"none", "open", "closed"}]
  BY Disjoint, CallFacts DEF TypeOK, Close
<1>3. connsMu' \in Disconnects \cup {None}
  BY Disjoint, CallFacts DEF TypeOK, Close
<1> QED
  BY <1>1, <1>2, <1>3 DEF TypeOK, Close, node, build, history

\* Drain keeps the type invariant.
LEMMA DrainType ==
    ASSUME TypeOK, Locals, NEW d \in Disconnects, Drain(d)
    PROVE  TypeOK'
<1>1. PcOK'
  BY Disjoint, DisconnectGoto DEF Drain, DisconnectPCs
<1>2. pools' \in [Ids -> Connects \cup {None}]
  BY Disjoint DEF TypeOK, Drain
<1>3. connsMu' \in Disconnects \cup {None}
  BY Disjoint DEF TypeOK, Drain
<1> QED
  BY <1>1, <1>2, <1>3 DEF TypeOK, Drain, node, build, history

\* Remove keeps the type invariant.
LEMMA RemoveType ==
    ASSUME TypeOK, Locals, NEW d \in Disconnects, Remove(d)
    PROVE  TypeOK'
<1>1. PcOK'
  BY Disjoint, DisconnectGoto DEF Remove, DisconnectPCs
<1>2. reg' \in [Ids -> Connects \cup {None}]
  BY Disjoint DEF TypeOK, Remove
<1> QED
  BY <1>1, <1>2 DEF TypeOK, Remove, node, build, history

\* ForgetRing keeps the type invariant.
LEMMA ForgetRingType ==
    ASSUME TypeOK, Locals, NEW d \in Disconnects, ForgetRing(d)
    PROVE  TypeOK'
<1>1. PcOK'
  BY Disjoint, DisconnectGoto DEF ForgetRing, ConnectsOf, DisconnectPCs
<1>2. rings' \in [Ids -> RingNames \cup {None}]
  BY Disjoint DEF TypeOK, ForgetRing, ConnectsOf
<1>3. raced' \subseteq Ids
  BY Disjoint DEF TypeOK, ForgetRing, ConnectsOf
<1>4. retired' \subseteq Connects
  BY Disjoint DEF TypeOK, ForgetRing, ConnectsOf
<1> QED
  BY <1>1, <1>2, <1>3, <1>4 DEF TypeOK, ForgetRing, ConnectsOf, node, build

\* Tick keeps the type invariant.
LEMMA TickType ==
    ASSUME TypeOK, Locals, Tick
    PROVE  TypeOK'
<1>1. PcOK'
  BY Disjoint, BuildGoto DEF Tick, Registered, BuildPCs
<1>2. todo' \in [Builders -> SUBSET Ids]
  BY Disjoint DEF TypeOK, Tick, Registered
<1> QED
  BY <1>1, <1>2 DEF TypeOK, Tick, Registered, server, node, history

\* HandleSnapshot keeps the type invariant.
LEMMA HandleSnapshotType ==
    ASSUME TypeOK, Locals, NEW b \in Builders, HandleSnapshot(b)
    PROVE  TypeOK'
<1>1. PcOK'
  BY Disjoint, BuildGoto DEF HandleSnapshot, Registered, BuildPCs
<1>2. todo' \in [Builders -> SUBSET Ids]
  <2>1. PICK ids \in SUBSET Ids : todo' = [todo EXCEPT ![b] = ids]
    BY DEF HandleSnapshot, Registered
  <2> QED
    BY <2>1, Disjoint DEF TypeOK
<1> QED
  BY <1>1, <1>2 DEF TypeOK, HandleSnapshot, Registered, server, node, history

\* Visit keeps the type invariant.
LEMMA VisitType ==
    ASSUME TypeOK, Locals, NEW b \in Builders, Visit(b)
    PROVE  TypeOK'
<1>1. PcOK'
  BY Disjoint, BuildGoto DEF Visit, BuildPCs
<1>2. PICK i \in todo[b] :
         /\ todo' = [todo EXCEPT ![b] = @ \ {i}]
         /\ bld' = [bld EXCEPT ![b] = [NoBuild EXCEPT !.id = i]]
  BY DEF Visit
<1>3. i \in Ids /\ todo[b] \ {i} \in SUBSET Ids
  BY DEF TypeOK
<1>4. todo' \in [Builders -> SUBSET Ids]
  BY <1>2, <1>3 DEF TypeOK
<1>5. [NoBuild EXCEPT !.id = i] \in BuildType
  BY <1>3, BuildFacts, BuildEdits
<1>6. bld' \in [Builders -> BuildType]
  BY <1>2, <1>5 DEF TypeOK
<1> QED
  BY <1>1, <1>4, <1>6 DEF TypeOK, Visit, server, node, history

\* EndRound keeps the type invariant.
LEMMA EndRoundType ==
    ASSUME TypeOK, Locals, NEW b \in Builders, EndRound(b)
    PROVE  TypeOK'
<1>1. PcOK'
  BY Disjoint, BuildGoto DEF EndRound, BuildPCs
<1> QED
  BY <1>1 DEF TypeOK, EndRound, server, node, build, history

\* HasPool keeps the type invariant.
LEMMA HasPoolType ==
    ASSUME TypeOK, HasPool
    PROVE  TypeOK'
<1>1. CASE Leave(Ticker)
  BY <1>1, Disjoint, LeaveType DEF HasPool, TypeOK, Leave, server, node, history
<1>2. CASE ~Leave(Ticker)
  <2>1. PcOK'
    BY <1>2, Disjoint, BuildGoto DEF HasPool, BuildPCs
  <2> QED
    BY <1>2, <2>1 DEF HasPool, TypeOK, server, node, build, history
<1> QED
  BY <1>1, <1>2

\* GetNode keeps the type invariant.
LEMMA GetNodeType ==
    ASSUME TypeOK, Locals, NEW b \in Builders, GetNode(b)
    PROVE  TypeOK'
<1>1. bld[b] \in BuildType
  BY DEF TypeOK
<1>2. CASE Leave(b)
  BY <1>2, LeaveType DEF GetNode, TypeOK, Leave, server, node, history
<1>3. CASE ~Leave(b)
  <2>1. PcOK'
    BY <1>3, BuildGoto DEF GetNode, BuildPCs
  <2>2. reg[bld[b].id] \in Connects
    BY <1>3, BuildFacts DEF GetNode, TypeOK
  <2>3. bld' = [bld EXCEPT ![b] = [bld[b] EXCEPT !.node = reg[bld[b].id]]]
    BY <1>3 DEF GetNode
  <2>4. bld' \in [Builders -> BuildType]
    BY <1>1, <2>2, <2>3, BuildEdits DEF TypeOK
  <2> QED
    BY <1>3, <2>1, <2>4 DEF GetNode, TypeOK, server, node, history
<1> QED
  BY <1>2, <1>3

\* LookupRing keeps the type invariant.
LEMMA LookupRingType ==
    ASSUME TypeOK, Locals, NEW b \in Builders, LookupRing(b)
    PROVE  TypeOK'
<1>1. bld[b] \in BuildType
  BY DEF TypeOK
<1>2. PcOK'
  BY BuildGoto DEF LookupRing, BuildPCs
<1>3. PICK r \in RingNames : bld' = [bld EXCEPT ![b] = [bld[b] EXCEPT !.ring = r]]
  BY BuildFacts DEF LookupRing, TypeOK
<1>4. bld' \in [Builders -> BuildType]
  BY <1>1, <1>3, BuildEdits DEF TypeOK
<1>5. ringSrc' \in [RingNames -> SUBSET Connects]
  BY DEF LookupRing, TypeOK
<1> QED
  BY <1>2, <1>4, <1>5 DEF LookupRing, TypeOK, node, history

\* StoreRing keeps the type invariant.
LEMMA StoreRingType ==
    ASSUME TypeOK, Locals, NEW b \in Builders, StoreRing(b)
    PROVE  TypeOK'
<1>1. PcOK'
  BY BuildGoto DEF StoreRing, BuildPCs
<1>2. bld[b].ring \in RingNames
  BY BuildFacts DEF StoreRing
<1>3. rings' \in [Ids -> RingNames \cup {None}]
  BY <1>2 DEF StoreRing, TypeOK
<1> QED
  BY <1>1, <1>3 DEF StoreRing, TypeOK, node, build, history

\* LookupPool keeps the type invariant.
LEMMA LookupPoolType ==
    ASSUME TypeOK, Locals, NEW b \in Builders, LookupPool(b)
    PROVE  TypeOK'
<1>1. bld[b] \in BuildType
  BY DEF TypeOK
<1>2. CASE Leave(b)
  BY <1>2, LeaveType DEF LookupPool, TypeOK, Leave, server, node, history
<1>3. CASE ~Leave(b)
  <2>1. PcOK'
    BY <1>3, BuildGoto DEF LookupPool, BuildPCs
  <2>2. pools[bld[b].id] \in Connects
    BY <1>3, BuildFacts DEF LookupPool, TypeOK
  <2>3. bld' = [bld EXCEPT ![b] = [bld[b] EXCEPT !.pool = pools[bld[b].id],
                                                 !.plan = Plan(bodyKind[bld[b].node])]]
    BY <1>3 DEF LookupPool
  <2>4. bld' \in [Builders -> BuildType]
    BY <1>1, <2>2, <2>3, BuildEdits, PlanType DEF TypeOK
  <2> QED
    BY <1>3, <2>1, <2>4 DEF LookupPool, TypeOK, server, node, history
<1> QED
  BY <1>2, <1>3

\* Acquire keeps the type invariant.
LEMMA AcquireType ==
    ASSUME TypeOK, Locals, NEW b \in Builders, Acquire(b)
    PROVE  TypeOK'
<1>1. PcOK'
  BY Disjoint, BuildGoto DEF Acquire, BuildPCs
<1> QED
  BY <1>1 DEF TypeOK, Acquire, server, node, build, history

\* QueryOk keeps the type invariant.
LEMMA QueryOkType ==
    ASSUME TypeOK, Locals, NEW b \in Builders, QueryOk(b)
    PROVE  TypeOK'
<1>1. bld[b].plan /= <<>>
  BY BuildFacts DEF QueryOk
<1>2. CASE Continue(b)
  BY <1>1, <1>2, ContinueType DEF QueryOk, TypeOK, Continue, server, node, history
<1>3. CASE ~Continue(b)
  <2>1. PcOK'
    BY <1>3, BuildGoto DEF QueryOk, BuildPCs
  <2> QED
    BY <1>3, <2>1 DEF QueryOk, TypeOK, server, node, build, history
<1> QED
  BY <1>2, <1>3

\* QueryFails keeps the type invariant.
LEMMA QueryFailsType ==
    ASSUME TypeOK, Locals, NEW b \in Builders, QueryFails(b)
    PROVE  TypeOK'
<1>1. bld[b].plan /= <<>>
  BY BuildFacts DEF QueryFails
<1>2. bld' \in [Builders -> BuildType] /\ PcOK' /\ UNCHANGED todo
  BY <1>1, LeaveType, ContinueType DEF QueryFails, Leave, Continue
<1> QED
  BY <1>2 DEF QueryFails, TypeOK, server, node, history

\* Push keeps the type invariant.
LEMMA PushType ==
    ASSUME TypeOK, Locals, NEW b \in Builders, Push(b)
    PROVE  TypeOK'
<1>1. bld[b].plan /= <<>> /\ bld[b].pool \in Connects
  BY BuildFacts DEF Push
<1>2. bld' \in [Builders -> BuildType] /\ PcOK' /\ UNCHANGED todo
  BY <1>1, ContinueType DEF Push, Continue
<1>3. ringSrc' \in [RingNames -> SUBSET Connects]
  BY <1>1 DEF Push, TypeOK
<1> QED
  BY <1>2, <1>3 DEF Push, TypeOK, node, history

\* Deliver keeps the type invariant.
LEMMA DeliverType ==
    ASSUME TypeOK, NEW b \in Builders, Deliver(b)
    PROVE  TypeOK'
BY LeaveType DEF Deliver, TypeOK, Leave, server, node, history


\* Every step keeps the type invariant.
LEMMA TypeStep ==
    ASSUME TypeOK, Locals, [Next]_vars
    PROVE  TypeOK'
<1>1. CASE UNCHANGED vars
  BY <1>1 DEF TypeOK, PcOK, vars, server, node, build, history
<1>2. ASSUME NEW p \in Calls, Reject(p)
      PROVE  TypeOK'
  BY <1>2, Disjoint, RejectConnectType, RejectDisconnectType
<1>3. ASSUME NEW b \in Builders, HandleSnapshot(b)
      PROVE  TypeOK'
  BY <1>3, HandleSnapshotType
<1> QED
  BY <1>1, <1>2, <1>3, NextCases, UpsertType, ConnectFailsType, DialType, PublishType,
     EnsureRingType, HandleDisconnectType, CloseType, DrainType, RemoveType, ForgetRingType,
     VisitType, EndRoundType, GetNodeType, LookupRingType, StoreRingType, LookupPoolType,
     AcquireType, QueryOkType, QueryFailsType, PushType, DeliverType, TickType, HasPoolType
-----------------------------------------------------------------------------
(***************************************************************************)
(* What the goroutines have in hand.                                       *)
(***************************************************************************)

\* A build that changes only its own locals keeps Locals if they suit its new
\* location.
LEMMA HandFrame ==
    ASSUME TypeOK, Locals, NEW b \in Builders, NEW r, NEW l,
           bld' = [bld EXCEPT ![b] = r], Goto(b, l), HandOK(r, l),
           UNCHANGED <<poolState, callId>>
    PROVE  Locals'
<1>1. \A e \in Builders : HandOK(bld[e], pc[e])'
  BY Disjoint DEF TypeOK, PcOK, Goto, Locals, HandOK
<1>2. \A p \in Calls : pc'[p] = pc[p]
  BY Disjoint DEF TypeOK, PcOK, Goto
<1>3. \A c \in Connects : c \in Calls
  BY Disjoint
<1> QED
  BY <1>1, <1>2, <1>3 DEF Locals

\* Ending a build keeps its locals well formed.
LEMMA LeaveLocals ==
    ASSUME TypeOK, Locals, NEW b \in Builders, Leave(b), UNCHANGED <<poolState, callId>>
    PROVE  Locals'
<1>1. HandOK(NoBuild, "next")
  BY DEF HandOK, NoBuild
<1> QED
  BY <1>1, HandFrame DEF Leave

\* Going on to the next query keeps a build's locals well formed.
LEMMA ContinueLocals ==
    ASSUME TypeOK, Locals, NEW b \in Builders, Continue(b),
           pc[b] \in {"acquire", "query", "push"}, UNCHANGED <<poolState, callId>>
    PROVE  Locals'
<1> DEFINE r == [bld[b] EXCEPT !.plan = Tail(bld[b].plan)]
           l == IF Len(bld[b].plan) = 1 THEN "deliver" ELSE "acquire"
<1>1. /\ bld[b].plan \in Seq(QueryNames)
      /\ bld[b].plan /= <<>>
      /\ DOMAIN bld[b] = {"id", "node", "ring", "pool", "plan"}
  BY BuildFacts DEF BuildType
<1>2. l = "acquire" => Tail(bld[b].plan) /= <<>>
  BY <1>1, PlanTail
<1>3. HandOK(bld[b], pc[b])
  BY DEF Locals
<1>4. HandOK(r, l)
  BY <1>1, <1>2, <1>3 DEF HandOK
<1>5. bld' = [bld EXCEPT ![b] = r] /\ Goto(b, l)
  BY DEF Continue
<1> QED
  BY <1>4, <1>5, HandFrame

\* A call that moves leaves the builds alone, and keeps Locals if its id suits
\* its new location and no pool waiting to be mapped is closed.
LEMMA CallFrame ==
    ASSUME TypeOK, Locals, NEW p \in Calls, NEW l, Goto(p, l), UNCHANGED bld,
           l \in {"idle", "rejected"} <=> callId'[p] = None,
           \A q \in Calls : q /= p => callId'[q] = callId[q],
           \A c \in Connects : pc'[c] = "publish" => poolState'[c] = "open"
    PROVE  Locals'
<1>1. \A b \in Builders : pc'[b] = pc[b]
  BY Disjoint DEF TypeOK, PcOK, Goto
<1>2. \A q \in Calls : pc'[q] = IF q = p THEN l ELSE pc[q]
  BY Disjoint DEF TypeOK, PcOK, Goto
<1>3. \A b \in Builders : HandOK(bld[b], pc[b])'
  BY <1>1 DEF Locals, HandOK
<1>4. \A q \in Calls : (pc[q] \in {"idle", "rejected"} <=> callId[q] = None)'
  BY <1>2 DEF Locals
<1> QED
  BY <1>3, <1>4 DEF Locals

\* The same when the ids and pools stay as they are.
LEMMA CallMoves ==
    ASSUME TypeOK, Locals, NEW p \in Calls, NEW l, Goto(p, l),
           UNCHANGED <<bld, callId, poolState>>,
           pc[p] \notin {"idle", "rejected"},
           l \notin {"idle", "rejected", "publish"}
    PROVE  Locals'
<1>1. callId[p] /= None
  BY DEF Locals
<1>2. \A c \in Connects : pc'[c] = "publish" => poolState'[c] = "open"
  BY Disjoint DEF Locals, TypeOK, PcOK, Goto
<1> QED
  BY <1>1, <1>2, CallFrame

\* Every step keeps the locals of calls and builds well formed.
LEMMA LocalsStep ==
    ASSUME TypeOK, Locals, Owned, [Next]_vars
    PROVE  Locals'
<1> USE DEF server, node, build, history
<1>1. ASSUME NEW p \in Calls, Reject(p)
     PROVE  Locals'
  <2>1. Goto(p, "rejected") /\ pc[p] = "idle" /\ callId' = callId /\ poolState' = poolState
        /\ bld' = bld
    BY <1>1 DEF Reject
  <2>2. callId[p] = None
    BY <2>1 DEF Locals
  <2>3. \A c \in Connects : pc'[c] = "publish" => poolState'[c] = "open"
    BY <2>1, Disjoint DEF Locals, TypeOK, PcOK, Goto
  <2> QED
    BY <2>1, <2>2, <2>3, CallFrame
<1>2. ASSUME NEW c \in Connects, NEW id \in Ids, NEW kind, Upsert(c, id, kind)
     PROVE  Locals'
  <2>1. Goto(c, "dial") /\ callId' = [callId EXCEPT ![c] = id] /\ poolState' = poolState
        /\ bld' = bld
    BY <1>2 DEF Upsert
  <2>2. callId'[c] /= None /\ \A q \in Calls : q /= c => callId'[q] = callId[q]
    BY <2>1, Disjoint, NoneAssumption DEF TypeOK
  <2>3. \A e \in Connects : pc'[e] = "publish" => poolState'[e] = "open"
    BY <2>1, Disjoint DEF Locals, TypeOK, PcOK, Goto
  <2> QED
    BY <2>1, <2>2, <2>3, Disjoint, CallFrame
<1>3. ASSUME NEW c \in Connects, ConnectFails(c)
     PROVE  Locals'
  <2>1. Goto(c, "failed") /\ callId' = callId /\ bld' = bld /\ pc[c] \notin {"idle", "rejected"}
    BY <1>3 DEF ConnectFails
  <2>2. callId[c] /= None
    BY <2>1, Disjoint DEF Locals
  <2>3. \A e \in Connects : pc'[e] = "publish" => poolState'[e] = "open"
    BY <1>3, Disjoint DEF ConnectFails, Locals, TypeOK, PcOK, Goto
  <2> QED
    BY <2>1, <2>2, <2>3, Disjoint, CallFrame
<1>4. ASSUME NEW c \in Connects, Dial(c)
     PROVE  Locals'
  <2>1. Goto(c, "publish") /\ callId' = callId /\ bld' = bld /\ pc[c] \notin {"idle", "rejected"}
    BY <1>4 DEF Dial
  <2>2. callId[c] /= None
    BY <2>1, Disjoint DEF Locals
  <2>3. \A e \in Connects : pc'[e] = "publish" => poolState'[e] = "open"
    BY <1>4, Disjoint DEF Dial, Locals, TypeOK, PcOK, Goto
  <2> QED
    BY <2>1, <2>2, <2>3, Disjoint, CallFrame
<1>5. ASSUME NEW c \in Connects, Publish(c)
     PROVE  Locals'
  BY <1>5, Disjoint, CallMoves DEF Publish
<1>6. ASSUME NEW c \in Connects, EnsureRing(c)
     PROVE  Locals'
  BY <1>6, Disjoint, CallMoves DEF EnsureRing
<1>7. ASSUME NEW d \in Disconnects, HandleDisconnect(d)
     PROVE  Locals'
  <2>1. PICK id \in Ids : callId' = [callId EXCEPT ![d] = id]
    BY <1>7 DEF HandleDisconnect
  <2>2. Goto(d, "close") /\ poolState' = poolState /\ bld' = bld
    BY <1>7 DEF HandleDisconnect
  <2>3. callId'[d] /= None /\ \A q \in Calls : q /= d => callId'[q] = callId[q]
    BY <2>1, Disjoint, NoneAssumption DEF TypeOK
  <2>4. \A e \in Connects : pc'[e] = "publish" => poolState'[e] = "open"
    BY <2>2, Disjoint DEF Locals, TypeOK, PcOK, Goto
  <2> QED
    BY <2>2, <2>3, <2>4, Disjoint, CallFrame
<1>8. ASSUME NEW d \in Disconnects, Close(d)
     PROVE  Locals'
  <2>1. CASE pools[callId[d]] = None
    BY <1>8, <2>1, Disjoint, CallMoves DEF Close
  <2>2. CASE pools[callId[d]] /= None
    <3>1. /\ Goto(d, "drain") /\ callId' = callId /\ bld' = bld /\ pc[d] = "close"
          /\ poolState' = [poolState EXCEPT ![pools[callId[d]]] = "closed"]
      BY <1>8, <2>2 DEF Close
    <3>2. callId[d] \in Ids
      BY <3>1, CallFacts, Disjoint
    <3>3. pc[pools[callId[d]]] \in {"ensure", "ok"}
      BY <2>2, <3>2 DEF Owned, MapsOwned
    <3>4. \A e \in Connects : pc'[e] = "publish" => poolState'[e] = "open"
      BY <3>1, <3>3, Disjoint DEF Locals, TypeOK, PcOK, Goto
    <3> QED
      BY <3>1, <3>2, <3>4, Disjoint, NoneAssumption, CallFrame
  <2> QED
    BY <2>1, <2>2
<1>9. ASSUME NEW d \in Disconnects, Drain(d)
     PROVE  Locals'
  BY <1>9, Disjoint, CallMoves DEF Drain
<1>10. ASSUME NEW d \in Disconnects, Remove(d)
     PROVE  Locals'
  BY <1>10, Disjoint, CallMoves DEF Remove
<1>11. ASSUME NEW d \in Disconnects, ForgetRing(d)
     PROVE  Locals'
  BY <1>11, Disjoint, CallMoves DEF ForgetRing
<1>12. ASSUME NEW b \in Builders, EndRound(b) \/ Acquire(b) \/ StoreRing(b)
     PROVE  Locals'
  <2>1. PICK l : Goto(b, l) /\ HandOK(bld[b], l)
    BY <1>12 DEF EndRound, Acquire, StoreRing, Locals, HandOK
  <2>2. bld' = [bld EXCEPT ![b] = bld[b]]
    BY <1>12 DEF EndRound, Acquire, StoreRing, TypeOK
  <2> QED
    BY <1>12, <2>1, <2>2, HandFrame DEF EndRound, Acquire, StoreRing
<1>13. ASSUME NEW b \in Builders, Visit(b)
     PROVE  Locals'
  <2>1. PICK i \in todo[b] : bld' = [bld EXCEPT ![b] = [NoBuild EXCEPT !.id = i]]
    BY <1>13 DEF Visit
  <2>2. PICK l \in {"haspool", "get"} : Goto(b, l)
    BY <1>13 DEF Visit
  <2>3. HandOK([NoBuild EXCEPT !.id = i], l)
    BY <2>1 DEF HandOK, NoBuild, TypeOK
  <2> QED
    BY <1>13, <2>1, <2>2, <2>3, HandFrame DEF Visit
<1>14. ASSUME NEW b \in Builders, GetNode(b)
     PROVE  Locals'
  <2>1. CASE Leave(b)
    BY <1>14, <2>1, LeaveLocals DEF GetNode
  <2>2. CASE ~Leave(b)
    <3>1. /\ bld' = [bld EXCEPT ![b] = [bld[b] EXCEPT !.node = reg[bld[b].id]]]
          /\ Goto(b, "ring")
      BY <1>14, <2>2 DEF GetNode
    <3>2. reg[bld[b].id] \in Connects
      BY <1>14, <2>2, BuildFacts DEF GetNode, TypeOK
    <3>3. HandOK([bld[b] EXCEPT !.node = reg[bld[b].id]], "ring")
      BY <1>14, <3>2, BuildFacts, NoneAssumption DEF GetNode, HandOK, Locals, BuildType
    <3> QED
      BY <1>14, <3>1, <3>3, HandFrame DEF GetNode
  <2> QED
    BY <2>1, <2>2
<1>15. ASSUME NEW b \in Builders, LookupRing(b)
     PROVE  Locals'
  <2>1. PICK r \in RingNames, l \in {"pool", "store"} :
          /\ bld' = [bld EXCEPT ![b] = [bld[b] EXCEPT !.ring = r]]
          /\ Goto(b, l)
    BY <1>15, BuildFacts DEF LookupRing, TypeOK
  <2>2. HandOK([bld[b] EXCEPT !.ring = r], l)
    BY <1>15, BuildFacts, NoneAssumption DEF LookupRing, HandOK, Locals, BuildType
  <2> QED
    BY <1>15, <2>1, <2>2, HandFrame DEF LookupRing
<1>16. ASSUME NEW b \in Builders, LookupPool(b)
     PROVE  Locals'
  <2>1. CASE Leave(b)
    BY <1>16, <2>1, LeaveLocals DEF LookupPool
  <2>2. CASE ~Leave(b)
    <3>1. /\ bld' = [bld EXCEPT ![b] = [bld[b] EXCEPT !.pool = pools[bld[b].id],
                    !.plan = Plan(bodyKind[bld[b].node])]]
          /\ Goto(b, "acquire")
      BY <1>16, <2>2 DEF LookupPool
    <3>2. pools[bld[b].id] \in Connects
      BY <1>16, <2>2, BuildFacts DEF LookupPool, TypeOK
    <3>3. HandOK([bld[b] EXCEPT !.pool = pools[bld[b].id],
                    !.plan = Plan(bodyKind[bld[b].node])], "acquire")
      BY <1>16, <3>2, BuildFacts, NoneAssumption, PlanType DEF LookupPool, HandOK, Locals, BuildType
    <3> QED
      BY <1>16, <3>1, <3>3, HandFrame DEF LookupPool
  <2> QED
    BY <2>1, <2>2
<1>17. ASSUME NEW b \in Builders, QueryOk(b)
     PROVE  Locals'
  <2>1. CASE Continue(b)
    BY <1>17, <2>1, ContinueLocals DEF QueryOk
  <2>2. CASE ~Continue(b)
    <3>1. Goto(b, "push") /\ bld' = bld /\ pc[b] = "query"
      BY <1>17, <2>2 DEF QueryOk
    <3>2. HandOK(bld[b], "push")
      BY <3>1 DEF HandOK, Locals
    <3>3. bld' = [bld EXCEPT ![b] = bld[b]]
      BY <3>1 DEF TypeOK
    <3> QED
      BY <1>17, <3>1, <3>2, <3>3, HandFrame DEF QueryOk
  <2> QED
    BY <2>1, <2>2
<1>18. ASSUME NEW b \in Builders, QueryFails(b)
     PROVE  Locals'
  BY <1>18, LeaveLocals, ContinueLocals DEF QueryFails
<1>19. ASSUME NEW b \in Builders, Push(b)
     PROVE  Locals'
  BY <1>19, ContinueLocals DEF Push
<1>20. ASSUME NEW b \in Builders, Deliver(b)
     PROVE  Locals'
  BY <1>20, LeaveLocals DEF Deliver
<1>21. ASSUME NEW b \in Builders, HandleSnapshot(b) \/ (b = Ticker /\ (Tick \/ HasPool))
     PROVE  Locals'
  <2>1. CASE Leave(b)
    BY <1>21, <2>1, LeaveLocals DEF HandleSnapshot, Tick, HasPool
  <2>2. CASE ~Leave(b)
    <3>1. PICK l : Goto(b, l) /\ HandOK(bld[b], l)
      BY <1>21, <2>2 DEF HandleSnapshot, Tick, HasPool, Locals, HandOK
    <3>2. bld' = [bld EXCEPT ![b] = bld[b]]
      BY <1>21, <2>2 DEF HandleSnapshot, Tick, HasPool, TypeOK
    <3> QED
      BY <1>21, <3>1, <3>2, HandFrame DEF HandleSnapshot, Tick, HasPool
  <2> QED
    BY <2>1, <2>2
<1>22. CASE UNCHANGED vars
  BY <1>22 DEF vars, Locals, HandOK
<1> QED
  BY <1>1, <1>2, <1>3, <1>4, <1>5, <1>6, <1>7, <1>8, <1>9, <1>10, <1>11, <1>12, <1>13,
     <1>14, <1>15, <1>16, <1>17, <1>18, <1>19, <1>20, <1>21, <1>22, NextCases
-----------------------------------------------------------------------------
(***************************************************************************)
(* Conns.mu.                                                               *)
(***************************************************************************)

\* A goroutine that moves moves alone.
LEMMA GotoFacts ==
    ASSUME TypeOK, NEW p \in Procs, NEW l, Goto(p, l)
    PROVE  \A q \in Procs : pc'[q] = IF q = p THEN l ELSE pc[q]
BY DEF TypeOK, PcOK, Goto

\* A build changes no call's location, no pool, and neither registry nor history.
LEMMA BuildFrame ==
    ASSUME TypeOK, NEW b \in Builders,
           \/ Visit(b) \/ EndRound(b) \/ GetNode(b) \/ LookupRing(b) \/ StoreRing(b)
           \/ LookupPool(b) \/ Acquire(b) \/ QueryOk(b) \/ QueryFails(b)
           \/ Push(b) \/ Deliver(b)
           \/ HandleSnapshot(b)
           \/ b = Ticker /\ (Tick \/ HasPool)
    PROVE  /\ UNCHANGED <<reg, pools, poolState, connsMu, callId, clean, raced, retired>>
           /\ \A p \in Procs : p /= b => pc'[p] = pc[p]
           /\ \A p \in Calls : pc'[p] = pc[p]
<1>1. UNCHANGED <<reg, pools, poolState, connsMu, callId, clean, raced, retired>>
  BY DEF Visit, EndRound, GetNode, LookupRing, StoreRing, LookupPool, Acquire, QueryOk,
     QueryFails, Push, Deliver, HandleSnapshot, Tick, HasPool, server, node, history
<1>2. \E l : Goto(b, l)
  BY DEF Visit, EndRound, GetNode, LookupRing, StoreRing, LookupPool, Acquire, QueryOk,
     QueryFails, Push, Deliver, HandleSnapshot, Tick, HasPool, Leave, Continue
<1> QED
  BY <1>1, <1>2, GotoFacts, Disjoint

\* Steps that change no pool and lead no disconnect into or out of Close.
LEMMA LockedFrame ==
    ASSUME TypeOK, Locked, UNCHANGED <<pools, poolState, connsMu>>,
           connsMu /= None => callId'[connsMu] = callId[connsMu],
           \A d \in Disconnects : pc'[d] = "drain" <=> pc[d] = "drain"
    PROVE  Locked'
BY DEF Locked, TypeOK

\* Every step keeps Conns.mu and the closed pools in accord.
LEMMA LockedStep ==
    ASSUME TypeOK, Locals, Owned, Locked, [Next]_vars
    PROVE  Locked'
<1> USE DEF server, node, build, history
<1>1. ASSUME NEW p \in Calls, Reject(p)
     PROVE  Locked'
  <2>1. \A d \in Disconnects : pc'[d] = "drain" <=> pc[d] = "drain"
    BY <1>1, GotoFacts, Disjoint DEF Reject
  <2> QED
    BY <1>1, <2>1, LockedFrame DEF Reject
<1>2. ASSUME NEW c \in Connects, NEW id \in Ids, NEW kind, Upsert(c, id, kind)
     PROVE  Locked'
  <2>1. \A d \in Disconnects : pc'[d] = pc[d]
    BY <1>2, GotoFacts, Disjoint DEF Upsert
  <2>2. connsMu /= None => callId'[connsMu] = callId[connsMu]
    BY <1>2, Disjoint DEF Upsert, TypeOK
  <2> QED
    BY <1>2, <2>1, <2>2, LockedFrame DEF Upsert
<1>3. ASSUME NEW c \in Connects, ConnectFails(c)
     PROVE  Locked'
  <2>1. \A d \in Disconnects : pc'[d] = pc[d]
    BY <1>3, GotoFacts, Disjoint DEF ConnectFails
  <2>2. \A i \in Ids : pools[i] /= None => pools[i] /= c
    BY <1>3 DEF ConnectFails, Owned, MapsOwned
  <2>3. \A e \in Connects : e /= c => poolState'[e] = poolState[e]
    BY <1>3 DEF ConnectFails, TypeOK
  <2>4. \A i \in Ids : pools[i] /= None => poolState'[pools[i]] = poolState[pools[i]]
    BY <2>2, <2>3 DEF TypeOK
  <2> QED
    BY <1>3, <2>1, <2>4 DEF ConnectFails, Locked
<1>4. ASSUME NEW c \in Connects, Dial(c)
     PROVE  Locked'
  <2>1. \A d \in Disconnects : pc'[d] = pc[d]
    BY <1>4, GotoFacts, Disjoint DEF Dial
  <2>2. \A i \in Ids : pools[i] /= None => pools[i] /= c
    BY <1>4 DEF Dial, Owned, MapsOwned
  <2>3. \A e \in Connects : e /= c => poolState'[e] = poolState[e]
    BY <1>4 DEF Dial, TypeOK
  <2>4. \A i \in Ids : pools[i] /= None => poolState'[pools[i]] = poolState[pools[i]]
    BY <2>2, <2>3 DEF TypeOK
  <2> QED
    BY <1>4, <2>1, <2>4 DEF Dial, Locked
<1>5. ASSUME NEW c \in Connects, Publish(c)
     PROVE  Locked'
  <2>1. \A d \in Disconnects : pc'[d] = pc[d]
    BY <1>5, GotoFacts, Disjoint DEF Publish
  <2>2. poolState[c] = "open"
    BY <1>5 DEF Publish, Locals
  <2> QED
    BY <1>5, <2>1, <2>2 DEF Publish, Locked, TypeOK
<1>6. ASSUME NEW c \in Connects, EnsureRing(c)
     PROVE  Locked'
  <2>1. \A d \in Disconnects : pc'[d] = pc[d]
    BY <1>6, GotoFacts, Disjoint DEF EnsureRing
  <2> QED
    BY <1>6, <2>1, LockedFrame DEF EnsureRing
<1>7. ASSUME NEW d \in Disconnects, HandleDisconnect(d)
     PROVE  Locked'
  <2>1. \A e \in Disconnects : pc'[e] = "drain" <=> pc[e] = "drain"
    BY <1>7, GotoFacts, Disjoint DEF HandleDisconnect
  <2>2. connsMu /= None => connsMu /= d /\ connsMu \in Disconnects
    BY <1>7 DEF HandleDisconnect, Locked, TypeOK
  <2>3. PICK id \in Ids : callId' = [callId EXCEPT ![d] = id]
    BY <1>7 DEF HandleDisconnect
  <2>4. connsMu /= None => callId'[connsMu] = callId[connsMu]
    BY <2>2, <2>3, Disjoint DEF TypeOK
  <2> QED
    BY <1>7, <2>1, <2>4, LockedFrame DEF HandleDisconnect
<1>8. ASSUME NEW d \in Disconnects, Close(d)
     PROVE  Locked'
  <2>1. callId[d] \in Ids
    BY <1>8, CallFacts, Disjoint DEF Close
  <2>2. CASE pools[callId[d]] = None
    <3>1. \A e \in Disconnects : pc'[e] = "drain" <=> pc[e] = "drain"
      BY <1>8, <2>2, GotoFacts, Disjoint DEF Close
    <3> QED
      BY <1>8, <2>2, <3>1, LockedFrame DEF Close
  <2>3. CASE pools[callId[d]] /= None
    <3>1. \A e \in Disconnects : pc'[e] = IF e = d THEN "drain" ELSE pc[e]
      BY <1>8, <2>3, GotoFacts, Disjoint DEF Close
    <3>2. /\ connsMu = None /\ connsMu' = d
          /\ UNCHANGED <<pools, callId>>
          /\ poolState' = [poolState EXCEPT ![pools[callId[d]]] = "closed"]
      BY <1>8, <2>3 DEF Close
    <3>3. \A e \in Disconnects : pc'[e] = "drain" <=> connsMu' = e
      BY <3>1, <3>2, NoneAssumption DEF Locked
    <3>4. \A i \in Ids : pools'[i] /= None =>
             poolState'[pools'[i]] = "open" \/ callId'[connsMu'] = i
      <4>1. \A i \in Ids : pools[i] /= None =>
               poolState[pools[i]] = "open" /\ callId[pools[i]] = i /\ pools[i] \in Connects
        <5>1. \A i \in Ids : pools[i] /= None => poolState[pools[i]] = "open"
          BY <3>2 DEF Locked
        <5>2. \A i \in Ids : pools[i] /= None => pools[i] \in Connects
          BY DEF TypeOK
        <5> QED
          BY <5>1, <5>2 DEF Owned, MapsOwned
      <4>2. \A i \in Ids : i /= callId[d] /\ pools[i] /= None => pools[i] /= pools[callId[d]]
        BY <2>1, <4>1
      <4> QED
        BY <3>2, <4>1, <4>2 DEF TypeOK
    <3> QED
      BY <2>1, <2>3, <3>2, <3>3, <3>4, NoneAssumption DEF Locked
  <2> QED
    BY <2>2, <2>3
<1>9. ASSUME NEW d \in Disconnects, Drain(d)
     PROVE  Locked'
  <2>1. callId[d] \in Ids /\ connsMu = d
    BY <1>9, CallFacts, Disjoint DEF Drain, Locked
  <2>2. \A e \in Disconnects : pc'[e] /= "drain"
    BY <1>9, <2>1, GotoFacts, Disjoint DEF Drain, Locked
  <2> QED
    BY <1>9, <2>1, <2>2, NoneAssumption DEF Drain, Locked, TypeOK
<1>10. ASSUME NEW d \in Disconnects, Remove(d)
     PROVE  Locked'
  <2>1. \A e \in Disconnects : pc'[e] = "drain" <=> pc[e] = "drain"
    BY <1>10, GotoFacts, Disjoint DEF Remove
  <2> QED
    BY <1>10, <2>1, LockedFrame DEF Remove
<1>11. ASSUME NEW d \in Disconnects, ForgetRing(d)
     PROVE  Locked'
  <2>1. \A e \in Disconnects : pc'[e] = "drain" <=> pc[e] = "drain"
    BY <1>11, GotoFacts, Disjoint DEF ForgetRing
  <2> QED
    BY <1>11, <2>1, LockedFrame DEF ForgetRing
<1>12. CASE UNCHANGED vars
  BY <1>12 DEF vars, Locked
<1> QED
  BY <1>1, <1>2, <1>3, <1>4, <1>5, <1>6, <1>7, <1>8, <1>9, <1>10, <1>11, <1>12, NextCases,
     BuildFrame, LockedFrame, Disjoint
-----------------------------------------------------------------------------
(***************************************************************************)
(* Which id an entry belongs to.                                           *)
(***************************************************************************)

\* Nothing refers to a connect that has not started.
LEMMA IdleUnknown ==
    ASSUME TypeOK, Locals, Owned, NEW c \in Connects, callId[c] = None
    PROVE  /\ \A i \in Ids : reg[i] /= c /\ pools[i] /= c
           /\ \A b \in Builders : bld[b].pool /= c
           /\ \A i \in Ids : rings[i] /= None => c \notin ringSrc[rings[i]]
<1>1. \A i \in Ids : reg[i] /= c /\ pools[i] /= c
  BY NoneAssumption DEF Owned, MapsOwned
<1>2. \A b \in Builders : bld[b].pool /= c
  BY BuildFacts, NoneAssumption DEF Owned, MapsOwned, Locals, HandOK
<1>3. \A i \in Ids : rings[i] /= None => c \notin ringSrc[rings[i]]
  BY NoneAssumption DEF Owned, RingsOwned
<1> QED
  BY <1>1, <1>2, <1>3

\* A call that moves, and does not leave a mapped pool's locations.
LEMMA MapsFrame ==
    ASSUME TypeOK, Locals, Owned, UNCHANGED <<reg, pools, bld>>,
           \A c \in Connects : callId[c] /= None => callId'[c] = callId[c],
           \A c \in Connects : pc[c] \in {"ensure", "ok"} => pc'[c] \in {"ensure", "ok"}
    PROVE  MapsOwned'
<1>1. /\ \A i \in Ids : reg[i] \in Connects \cup {None} /\ pools[i] \in Connects \cup {None}
      /\ \A b \in Builders : bld[b].pool \in Connects \cup {None}
  BY BuildFacts DEF TypeOK, BuildType
<1> QED
  BY <1>1, IdleUnknown DEF Owned, MapsOwned

\* A build that keeps its id and pool, or has no pool.
LEMMA MapsBuildFrame ==
    ASSUME TypeOK, MapsOwned, UNCHANGED <<reg, pools, callId>>,
           \A p \in Calls : pc'[p] = pc[p],
           \A b \in Builders : \/ bld'[b].pool = None
                               \/ bld'[b].pool = bld[b].pool /\ bld'[b].id = bld[b].id
    PROVE  MapsOwned'
<1>1. \A i \in Ids : pools[i] /= None => pools[i] \in Calls
  BY Disjoint DEF TypeOK
<1> QED
  BY <1>1 DEF MapsOwned

\* Steps that touch no ring and give no build a ring.
LEMMA RingsFrame ==
    ASSUME TypeOK, Locals, RingsOwned, UNCHANGED <<rings, ringSrc>>,
           \A c \in Connects : callId[c] /= None => callId'[c] = callId[c],
           \A b \in Builders :
             \/ bld'[b].ring = None /\ pc'[b] /= "store"
             \/ /\ bld'[b].ring = bld[b].ring /\ bld'[b].id = bld[b].id
                /\ pc'[b] = "store" => pc[b] = "store"
    PROVE  RingsOwned'
<1>1. ASSUME NEW i \in Ids, rings[i] /= None, NEW c \in ringSrc[rings[i]]
      PROVE  callId'[c] = i
  <2>1. c \in Connects
    BY <1>1 DEF TypeOK
  <2>2. callId[c] = i
    BY <1>1 DEF RingsOwned
  <2> QED
    BY <2>1, <2>2, NoneAssumption
<1>2. \A i \in Ids : rings[i] /= None =>
        \A c \in ringSrc[rings[i]] : callId'[c] = i
  BY <1>1
<1>3. \A b \in Builders : pc[b] = "store" => bld[b].ring /= None
  BY DEF Locals, HandOK
<1>4. \A b \in Builders : pc'[b] = "store" =>
         /\ ringSrc[bld'[b].ring] = {}
         /\ \A i \in Ids : rings[i] /= bld'[b].ring
         /\ \A e \in Builders \ {b} : bld'[e].ring /= bld'[b].ring
  BY <1>3 DEF RingsOwned
<1> QED
  BY <1>2, <1>4 DEF RingsOwned

\* Every step of a build but LookupRing and LookupPool keeps its id, ring and pool
\* or, starting or ending a build, drops the ring and the pool.
LEMMA BuildSame ==
    ASSUME TypeOK, Locals, NEW b \in Builders,
            \/ Visit(b) \/ EndRound(b) \/ GetNode(b) \/ LookupRing(b) \/ StoreRing(b)
            \/ Acquire(b) \/ QueryOk(b) \/ QueryFails(b)
            \/ Push(b) \/ Deliver(b) \/ HandleSnapshot(b)
            \/ b = Ticker /\ (Tick \/ HasPool)
    PROVE  \A e \in Builders :
             \/ bld'[e].pool = None /\ (bld'[e].ring = None \/ LookupRing(b))
             \/ /\ bld'[e].pool = bld[e].pool /\ bld'[e].id = bld[e].id
                /\ bld'[e].ring = bld[e].ring \/ (e = b /\ LookupRing(b))
<1>1. bld[b] \in BuildType
  BY DEF TypeOK
<1>a. ASSUME NEW r, bld' = [bld EXCEPT ![b] = r]
      PROVE  bld'[b] = r /\ \A e \in Builders : e /= b => bld'[e] = bld[e]
  BY <1>a DEF TypeOK
<1>2. \/ UNCHANGED bld
      \/ \E i : bld' = [bld EXCEPT ![b] = [NoBuild EXCEPT !.id = i]]
      \/ bld' = [bld EXCEPT ![b] = NoBuild]
      \/ \E c : bld' = [bld EXCEPT ![b] = [bld[b] EXCEPT !.node = c]]
      \/ \E q : bld' = [bld EXCEPT ![b] = [bld[b] EXCEPT !.plan = q]]
      \/ LookupRing(b) /\ \E r : bld' = [bld EXCEPT ![b] = [bld[b] EXCEPT !.ring = r]]
  BY DEF Visit, EndRound, GetNode, LookupRing, StoreRing, Acquire, QueryOk, QueryFails, Push,
     Deliver, HandleSnapshot, Tick, HasPool, Leave, Continue, build
<1>3. ASSUME NEW i
      PROVE  [NoBuild EXCEPT !.id = i].pool = None /\ [NoBuild EXCEPT !.id = i].ring = None
  BY DEF NoBuild
<1>4. NoBuild.pool = None /\ NoBuild.ring = None
  BY DEF NoBuild
<1>5. ASSUME NEW x
      PROVE  /\ [bld[b] EXCEPT !.node = x].pool = bld[b].pool
             /\ [bld[b] EXCEPT !.node = x].id = bld[b].id
             /\ [bld[b] EXCEPT !.node = x].ring = bld[b].ring
             /\ [bld[b] EXCEPT !.plan = x].pool = bld[b].pool
             /\ [bld[b] EXCEPT !.plan = x].id = bld[b].id
             /\ [bld[b] EXCEPT !.plan = x].ring = bld[b].ring
             /\ [bld[b] EXCEPT !.ring = x].pool = bld[b].pool
             /\ [bld[b] EXCEPT !.ring = x].id = bld[b].id
  BY <1>1 DEF BuildType
<1>6. CASE UNCHANGED bld
  BY <1>6
<1>7. ASSUME NEW i, bld' = [bld EXCEPT ![b] = [NoBuild EXCEPT !.id = i]]
      PROVE  \A e \in Builders : IF e = b THEN bld'[e].pool = None /\ bld'[e].ring = None
                                          ELSE bld'[e] = bld[e]
  BY <1>3, <1>7, <1>a
<1>8. CASE bld' = [bld EXCEPT ![b] = NoBuild]
  BY <1>4, <1>8, <1>a
<1>9. ASSUME NEW x, \/ bld' = [bld EXCEPT ![b] = [bld[b] EXCEPT !.node = x]]
                    \/ bld' = [bld EXCEPT ![b] = [bld[b] EXCEPT !.plan = x]]
      PROVE  \A e \in Builders : /\ bld'[e].pool = bld[e].pool /\ bld'[e].id = bld[e].id
                                  /\ bld'[e].ring = bld[e].ring
  <2>1. CASE bld' = [bld EXCEPT ![b] = [bld[b] EXCEPT !.node = x]]
    BY <1>5, <2>1, <1>a
  <2>2. CASE bld' = [bld EXCEPT ![b] = [bld[b] EXCEPT !.plan = x]]
    BY <1>5, <2>2, <1>a
  <2> QED
    BY <1>9, <2>1, <2>2
<1>10. ASSUME NEW x, bld' = [bld EXCEPT ![b] = [bld[b] EXCEPT !.ring = x]]
      PROVE  \A e \in Builders : /\ bld'[e].pool = bld[e].pool /\ bld'[e].id = bld[e].id
                                  /\ e /= b => bld'[e].ring = bld[e].ring
  BY <1>5, <1>10, <1>a
<1>11. ASSUME NEW i, bld' = [bld EXCEPT ![b] = [NoBuild EXCEPT !.id = i]], NEW e \in Builders
      PROVE  \/ bld'[e].pool = None /\ bld'[e].ring = None
             \/ /\ bld'[e].pool = bld[e].pool /\ bld'[e].id = bld[e].id
                /\ bld'[e].ring = bld[e].ring
  BY <1>7, <1>11
<1>12. CASE LookupRing(b) /\ \E r : bld' = [bld EXCEPT ![b] = [bld[b] EXCEPT !.ring = r]]
  BY <1>10, <1>12
<1>13. CASE \E i : bld' = [bld EXCEPT ![b] = [NoBuild EXCEPT !.id = i]]
  BY <1>11, <1>13
<1>14. CASE \/ \E c : bld' = [bld EXCEPT ![b] = [bld[b] EXCEPT !.node = c]]
            \/ \E q : bld' = [bld EXCEPT ![b] = [bld[b] EXCEPT !.plan = q]]
  BY <1>9, <1>14
<1> QED
  BY <1>2, <1>6, <1>8, <1>12, <1>13, <1>14

\* Every step keeps mapped pools in the hands of connects past Publish.
LEMMA MapsStep ==
    ASSUME TypeOK, Locals, Owned, [Next]_vars
    PROVE  MapsOwned'
<1> USE DEF server, node, build, history
<1>1. ASSUME NEW p \in Calls, Reject(p)
     PROVE  MapsOwned'
  <2>1. \A c \in Connects : pc[c] \in {"ensure", "ok"} => pc'[c] = pc[c]
    BY <1>1, GotoFacts, Disjoint DEF Reject
  <2> QED
    BY <1>1, <2>1, MapsFrame DEF Reject
<1>2. ASSUME NEW c \in Connects, NEW id \in Ids, NEW kind, Upsert(c, id, kind)
     PROVE  MapsOwned'
  <2>1. /\ callId[c] = None
        /\ \A p \in Procs : p /= c => pc'[p] = pc[p]
        /\ \A p \in Calls : p /= c => callId'[p] = callId[p]
        /\ callId'[c] = id
    <3>1. c \in Procs /\ c \in Calls
      BY Disjoint
    <3>2. pc[c] = "idle" /\ Goto(c, "dial") /\ callId' = [callId EXCEPT ![c] = id]
      BY <1>2 DEF Upsert
    <3>3. callId[c] = None
      BY <3>1, <3>2 DEF Locals
    <3>4. \A p \in Procs : p /= c => pc'[p] = pc[p]
      BY <3>1, <3>2, GotoFacts
    <3>5. /\ \A p \in Calls : p /= c => callId'[p] = callId[p]
          /\ callId'[c] = id
      BY <3>1, <3>2 DEF TypeOK
    <3> QED
      BY <3>3, <3>4, <3>5
  <2>a. \A i \in Ids : reg[i] /= c /\ pools[i] /= c
    BY <2>1, IdleUnknown
  <2>b. \A i \in Ids : reg[i] \in Connects \cup {None} /\ pools[i] \in Connects \cup {None}
    BY DEF TypeOK
  <2>c. \A i \in Ids : reg'[i] = IF i = id THEN c ELSE reg[i]
    BY <1>2 DEF Upsert, TypeOK
  <2>2. \A i \in Ids : reg'[i] /= None => callId'[reg'[i]] = i
    BY <2>1, <2>a, <2>b, <2>c, Disjoint DEF Owned, MapsOwned
  <2>3. \A i \in Ids : pools[i] /= None => pools[i] /= c /\ pools[i] \in Connects
    BY <2>a, <2>b
  <2>4. \A i \in Ids : pools'[i] /= None =>
           callId'[pools'[i]] = i /\ pc'[pools'[i]] \in {"ensure", "ok"}
    BY <1>2, <2>1, <2>3, Disjoint DEF Upsert, Owned, MapsOwned
  <2>5. \A b \in Builders : bld[b].pool /= None => bld[b].pool /= c /\ bld[b].pool \in Connects
    BY <2>1, IdleUnknown, BuildFacts DEF BuildType
  <2>6. \A b \in Builders : bld'[b].pool /= None => callId'[bld'[b].pool] = bld'[b].id
    BY <1>2, <2>1, <2>5, Disjoint DEF Upsert, Owned, MapsOwned
  <2> QED
    BY <2>2, <2>4, <2>6 DEF MapsOwned
<1>3. ASSUME NEW c \in Connects, ConnectFails(c)
     PROVE  MapsOwned'
  <2>1. \A e \in Connects : pc[e] \in {"ensure", "ok"} => pc'[e] \in {"ensure", "ok"}
    BY <1>3, GotoFacts, Disjoint DEF ConnectFails
  <2> QED
    BY <1>3, <2>1, MapsFrame DEF ConnectFails
<1>4. ASSUME NEW c \in Connects, Dial(c)
     PROVE  MapsOwned'
  <2>1. \A e \in Connects : pc[e] \in {"ensure", "ok"} => pc'[e] \in {"ensure", "ok"}
    BY <1>4, GotoFacts, Disjoint DEF Dial
  <2> QED
    BY <1>4, <2>1, MapsFrame DEF Dial
<1>5. ASSUME NEW c \in Connects, EnsureRing(c)
     PROVE  MapsOwned'
  <2>1. \A e \in Connects : pc[e] \in {"ensure", "ok"} => pc'[e] \in {"ensure", "ok"}
    BY <1>5, GotoFacts, Disjoint DEF EnsureRing
  <2> QED
    BY <1>5, <2>1, MapsFrame DEF EnsureRing
<1>6. ASSUME NEW c \in Connects, Publish(c)
     PROVE  MapsOwned'
  <2>1. /\ \A p \in Procs : pc'[p] = IF p = c THEN "ensure" ELSE pc[p]
        /\ callId[c] \in Ids
    BY <1>6, GotoFacts, CallFacts, Disjoint DEF Publish
  <2>2. \A i \in Ids : pools'[i] = IF i = callId[c] THEN c ELSE pools[i]
    BY <1>6, <2>1 DEF Publish, TypeOK
  <2>3. \A i \in Ids : pools[i] /= None => pools[i] \in Procs
    BY Disjoint DEF TypeOK
  <2>4. UNCHANGED <<reg, callId, bld>>
    BY <1>6 DEF Publish
  <2>5. \A i \in Ids : pools'[i] /= None =>
           callId[pools'[i]] = i /\ pc'[pools'[i]] \in {"ensure", "ok"}
    BY <2>1, <2>2, <2>3, Disjoint DEF Owned, MapsOwned
  <2> QED
    BY <2>4, <2>5 DEF Owned, MapsOwned
<1>7. ASSUME NEW d \in Disconnects, HandleDisconnect(d)
     PROVE  MapsOwned'
  <2>1. \A c \in Connects : pc'[c] = pc[c]
    BY <1>7, GotoFacts, Disjoint DEF HandleDisconnect
  <2>2. PICK id \in Ids : callId' = [callId EXCEPT ![d] = id]
    BY <1>7 DEF HandleDisconnect
  <2>3. \A c \in Connects : callId'[c] = callId[c]
    BY <2>2, Disjoint DEF TypeOK
  <2> QED
    BY <1>7, <2>1, <2>3, MapsFrame DEF HandleDisconnect
<1>8. ASSUME NEW d \in Disconnects, Close(d) \/ ForgetRing(d)
     PROVE  MapsOwned'
  <2>1. \E l : Goto(d, l)
    BY <1>8 DEF Close, ForgetRing
  <2>2. \A c \in Connects : pc'[c] = pc[c]
    BY <2>1, GotoFacts, Disjoint
  <2> QED
    BY <1>8, <2>2, MapsFrame DEF Close, ForgetRing
<1>9. ASSUME NEW d \in Disconnects, Drain(d) \/ Remove(d)
     PROVE  MapsOwned'
  <2>1. \E l : Goto(d, l)
    BY <1>9 DEF Drain, Remove
  <2>2. \A c \in Connects : pc'[c] = pc[c]
    BY <2>1, GotoFacts, Disjoint
  <2>3. \A i \in Ids : reg'[i] \in {reg[i], None} /\ pools'[i] \in {pools[i], None}
    BY <1>9 DEF Drain, Remove, TypeOK
  <2>4. \A i \in Ids : pools[i] /= None => pools[i] \in Connects
    BY DEF TypeOK
  <2>5. UNCHANGED <<callId, bld>>
    BY <1>9 DEF Drain, Remove
  <2> QED
    BY <2>2, <2>3, <2>4, <2>5 DEF Owned, MapsOwned
<1>10. ASSUME NEW b \in Builders, LookupPool(b)
     PROVE  MapsOwned'
  <2>1. /\ UNCHANGED <<reg, pools, callId>>
        /\ \A p \in Calls : pc'[p] = pc[p]
    BY <1>10, BuildFrame
  <2>2. CASE Leave(b)
    <3>1. \A e \in Builders : bld'[e].pool = None \/ bld'[e] = bld[e]
      BY <2>2 DEF Leave, NoBuild, TypeOK
    <3> QED
      BY <2>1, <3>1, MapsBuildFrame DEF Owned
  <2>3. CASE ~Leave(b)
    <3>1. bld' = [bld EXCEPT ![b] = [bld[b] EXCEPT !.pool = pools[bld[b].id],
                                                  !.plan = Plan(bodyKind[bld[b].node])]]
      BY <1>10, <2>3 DEF LookupPool
    <3>2. bld[b].id \in Ids /\ bld[b] \in BuildType
      BY <1>10, BuildFacts DEF LookupPool
    <3>3. bld'[b].pool = pools[bld[b].id] /\ bld'[b].id = bld[b].id
      BY <3>1, <3>2 DEF TypeOK, BuildType
    <3>4. \A e \in Builders : e /= b => bld'[e] = bld[e]
      BY <3>1 DEF TypeOK
    <3>5. \A e \in Builders : bld'[e].pool /= None => callId[bld'[e].pool] = bld'[e].id
      BY <3>2, <3>3, <3>4 DEF Owned, MapsOwned
    <3>6. \A i \in Ids : pools[i] /= None => pools[i] \in Calls
      BY Disjoint DEF TypeOK
    <3> QED
      BY <2>1, <3>5, <3>6 DEF Owned, MapsOwned
  <2> QED
    BY <2>2, <2>3
<1>11. ASSUME NEW b \in Builders,
            \/ Visit(b) \/ EndRound(b) \/ GetNode(b) \/ LookupRing(b) \/ StoreRing(b)
            \/ Acquire(b) \/ QueryOk(b) \/ QueryFails(b)
            \/ Push(b) \/ Deliver(b) \/ HandleSnapshot(b)
            \/ b = Ticker /\ (Tick \/ HasPool)
     PROVE  MapsOwned'
  <2>1. /\ UNCHANGED <<reg, pools, callId>>
        /\ \A p \in Calls : pc'[p] = pc[p]
    BY <1>11, BuildFrame
  <2>2. \A e \in Builders : \/ bld'[e].pool = None
                            \/ bld'[e].pool = bld[e].pool /\ bld'[e].id = bld[e].id
    BY <1>11, BuildSame
  <2> QED
    BY <2>1, <2>2, MapsBuildFrame DEF Owned
<1>12. CASE UNCHANGED vars
  BY <1>12 DEF vars, Owned, MapsOwned
<1> QED
  BY <1>1, <1>2, <1>3, <1>4, <1>5, <1>6, <1>7, <1>8, <1>9, <1>10, <1>11, <1>12, NextCases

\* No build but one in LookupRing goes to "store".
LEMMA StoreOnly ==
    ASSUME TypeOK, NEW b \in Builders,
            \/ Visit(b) \/ EndRound(b) \/ GetNode(b) \/ StoreRing(b) \/ LookupPool(b)
            \/ Acquire(b) \/ QueryOk(b) \/ QueryFails(b)
            \/ Push(b) \/ Deliver(b) \/ HandleSnapshot(b)
            \/ b = Ticker /\ (Tick \/ HasPool)
    PROVE  \A e \in Builders : pc'[e] = "store" => e /= b /\ pc[e] = "store"
<1>1. \E l : l /= "store" /\ Goto(b, l)
  BY DEF Visit, EndRound, GetNode, StoreRing, LookupPool, Acquire, QueryOk, QueryFails, Push,
     Deliver, HandleSnapshot, Tick, HasPool, Leave, Continue
<1> QED
  BY <1>1, GotoFacts, Disjoint

\* Every step keeps the rings of different ids, and unpublished rings, apart.
LEMMA RingsStep ==
    ASSUME TypeOK, Locals, Owned, [Next]_vars
    PROVE  RingsOwned'
<1> USE DEF server, node, build, history
<1>a. ASSUME NEW b \in Builders
      PROVE  bld[b].ring \in RingNames \cup {None} /\ (pc[b] = "store" => bld[b].ring /= None)
  BY BuildFacts, NoneAssumption DEF BuildType
<1>b. \A i \in Ids : rings[i] /= None => rings[i] \in RingNames
  BY DEF TypeOK
<1>c. RingsOwned
  BY DEF Owned
<1>1. ASSUME NEW p \in Calls, NEW l, Goto(p, l), UNCHANGED <<rings, ringSrc, bld>>,
             \A c \in Connects : callId[c] /= None => callId'[c] = callId[c]
      PROVE  RingsOwned'
  <2>1. \A b \in Builders : pc'[b] = pc[b]
    BY <1>1, GotoFacts, Disjoint
  <2> QED
    BY <1>1, <1>c, <2>1, RingsFrame
<1>2. ASSUME NEW p \in Calls, Reject(p)
      PROVE  RingsOwned'
  BY <1>1, <1>2 DEF Reject
<1>3. ASSUME NEW c \in Connects, NEW id \in Ids, NEW kind, Upsert(c, id, kind)
      PROVE  RingsOwned'
  <2>1. callId[c] = None
    BY <1>3, Disjoint DEF Upsert, Locals
  <2>2. \A e \in Connects : e /= c => callId'[e] = callId[e]
    BY <1>3, Disjoint DEF Upsert, TypeOK
  <2>3. Goto(c, "dial") /\ UNCHANGED <<rings, ringSrc, bld>>
    BY <1>3 DEF Upsert
  <2> QED
    BY <1>1, <2>1, <2>2, <2>3, Disjoint
<1>4. ASSUME NEW c \in Connects, ConnectFails(c) \/ Dial(c) \/ Publish(c)
      PROVE  RingsOwned'
  <2>1. PICK l : Goto(c, l) /\ UNCHANGED <<rings, ringSrc, bld, callId>>
    BY <1>4 DEF ConnectFails, Dial, Publish
  <2> QED
    BY <1>1, <2>1, Disjoint
<1>5. ASSUME NEW d \in Disconnects, HandleDisconnect(d)
      PROVE  RingsOwned'
  <2>1. PICK id \in Ids : callId' = [callId EXCEPT ![d] = id]
    BY <1>5 DEF HandleDisconnect
  <2>2. \A c \in Connects : callId'[c] = callId[c]
    BY <2>1, Disjoint DEF TypeOK
  <2>3. Goto(d, "close") /\ UNCHANGED <<rings, ringSrc, bld>>
    BY <1>5 DEF HandleDisconnect
  <2> QED
    BY <1>1, <2>2, <2>3, Disjoint
<1>6. ASSUME NEW d \in Disconnects, Close(d) \/ Drain(d) \/ Remove(d)
      PROVE  RingsOwned'
  <2>1. PICK l : Goto(d, l) /\ UNCHANGED <<rings, ringSrc, bld, callId>>
    BY <1>6 DEF Close, Drain, Remove
  <2> QED
    BY <1>1, <2>1, Disjoint
<1>7. ASSUME NEW c \in Connects, EnsureRing(c)
      PROVE  RingsOwned'
  <2> DEFINE i0 == callId[c]
  <2>1. i0 \in Ids /\ UNCHANGED <<bld, callId>> /\ Goto(c, "ok")
    BY <1>7, CallFacts, Disjoint DEF EnsureRing
  <2>2. CASE UNCHANGED <<rings, ringSrc>>
    BY <1>1, <2>1, <2>2, Disjoint
  <2>3. CASE ~UNCHANGED <<rings, ringSrc>>
    <3>1. PICK r \in RingNames \ InUse :
            rings' = [rings EXCEPT ![i0] = r] /\ ringSrc' = [ringSrc EXCEPT ![r] = {}]
      BY <1>7, <2>3 DEF EnsureRing
    <3>2. /\ r \in RingNames /\ r /= None
          /\ \A i \in Ids : rings[i] /= r
          /\ \A b \in Builders : bld[b].ring /= r
      BY NoneAssumption DEF InUse
    <3>3. \A i \in Ids : rings'[i] = IF i = i0 THEN r ELSE rings[i]
      BY <2>1, <3>1 DEF TypeOK
    <3>4. \A s \in RingNames : ringSrc'[s] = IF s = r THEN {} ELSE ringSrc[s]
      BY <3>1 DEF TypeOK
    <3>5. \A b \in Builders : pc'[b] = pc[b]
      BY <2>1, GotoFacts, Disjoint
    <3>6. \A i, j \in Ids : rings'[i] = rings'[j] /\ rings'[i] /= None => i = j
      BY <1>c, <3>2, <3>3 DEF RingsOwned
    <3>7. \A i \in Ids : rings'[i] /= None => \A e \in ringSrc'[rings'[i]] : callId'[e] = i
      BY <1>b, <1>c, <2>1, <3>2, <3>3, <3>4 DEF RingsOwned
    <3>8. \A b \in Builders, i \in Ids :
            bld'[b].ring = rings'[i] /\ rings'[i] /= None => bld'[b].id = i
      BY <1>c, <2>1, <3>2, <3>3 DEF RingsOwned
    <3>9. ASSUME NEW b \in Builders, pc'[b] = "store"
          PROVE  /\ ringSrc'[bld'[b].ring] = {}
                 /\ \A i \in Ids : rings'[i] /= bld'[b].ring
                 /\ \A e \in Builders \ {b} : bld'[e].ring /= bld'[b].ring
      <4>1. bld[b].ring \in RingNames /\ bld[b].ring /= r
        BY <1>a, <3>2, <3>5, <3>9
      <4> QED
        BY <1>c, <2>1, <3>3, <3>4, <3>5, <3>9, <4>1 DEF RingsOwned
    <3> QED
      BY <3>6, <3>7, <3>8, <3>9 DEF RingsOwned
  <2> QED
    BY <2>2, <2>3
<1>8. ASSUME NEW d \in Disconnects, ForgetRing(d)
      PROVE  RingsOwned'
  <2>1. UNCHANGED <<bld, callId, ringSrc>> /\ Goto(d, "done")
    BY <1>8 DEF ForgetRing
  <2>2. \A i \in Ids : rings'[i] \in {None, rings[i]}
    BY <1>8 DEF ForgetRing, TypeOK
  <2>3. \A b \in Builders : pc'[b] = pc[b]
    BY <2>1, GotoFacts, Disjoint
  <2>4. \A b \in Builders : pc[b] = "store" => \A i \in Ids : rings'[i] /= bld[b].ring
    BY <1>a, <1>c, <2>2 DEF RingsOwned
  <2> QED
    BY <1>c, <2>1, <2>2, <2>3, <2>4 DEF RingsOwned
<1>9. ASSUME NEW b \in Builders,
            \/ Visit(b) \/ EndRound(b) \/ GetNode(b) \/ Acquire(b) \/ QueryOk(b)
            \/ QueryFails(b) \/ Deliver(b) \/ HandleSnapshot(b)
            \/ b = Ticker /\ (Tick \/ HasPool)
      PROVE  RingsOwned'
  <2>1. UNCHANGED <<rings, ringSrc>>
    BY <1>9 DEF Visit, EndRound, GetNode, Acquire, QueryOk, QueryFails, Deliver,
       HandleSnapshot, Tick, HasPool
  <2>2. \A e \in Builders : pc'[e] = "store" => pc[e] = "store"
    BY <1>9, StoreOnly
  <2>3. ~LookupRing(b)
    BY <1>9 DEF LookupRing, Visit, EndRound, GetNode, Acquire, QueryOk, QueryFails, Deliver,
       HandleSnapshot, Tick, HasPool
  <2>4. \A e \in Builders :
             \/ bld'[e].ring = None
             \/ bld'[e].id = bld[e].id /\ bld'[e].ring = bld[e].ring
    BY <1>9, <2>3, BuildSame
  <2>5. ASSUME NEW e \in Builders, pc'[e] = "store"
        PROVE  bld'[e] = bld[e]
    <3>1. e /= b
      BY <1>9, <2>5, StoreOnly
    <3>2. bld' = bld \/ \E r : bld' = [bld EXCEPT ![b] = r]
      BY <1>9 DEF Visit, EndRound, GetNode, Acquire, QueryOk, QueryFails, Deliver,
         HandleSnapshot, Tick, HasPool, Leave, Continue
    <3> QED
      BY <3>1, <3>2 DEF TypeOK
  <2>6. \A e \in Builders :
             \/ bld'[e].ring = None /\ pc'[e] /= "store"
             \/ /\ bld'[e].ring = bld[e].ring /\ bld'[e].id = bld[e].id
                /\ pc'[e] = "store" => pc[e] = "store"
    BY <2>2, <2>4, <2>5
  <2> QED
    BY <1>9, <1>c, <2>1, <2>6, BuildFrame, RingsFrame
<1>10. ASSUME NEW b \in Builders, LookupPool(b)
      PROVE  RingsOwned'
  <2>1. UNCHANGED <<rings, ringSrc>>
    BY <1>10 DEF LookupPool
  <2>2. \A e \in Builders : pc'[e] = "store" => e /= b /\ pc[e] = "store"
    BY <1>10, StoreOnly
  <2>3. \A e \in Builders : e /= b => bld'[e] = bld[e]
    BY <1>10 DEF LookupPool, Leave, TypeOK
  <2>4. \/ bld'[b].ring = None
        \/ bld'[b].ring = bld[b].ring /\ bld'[b].id = bld[b].id
    <3>1. CASE Leave(b)
      BY <3>1 DEF Leave, NoBuild, TypeOK
    <3>2. CASE ~Leave(b)
      <4>1. bld' = [bld EXCEPT ![b] = [bld[b] EXCEPT !.pool = pools[bld[b].id],
                                                    !.plan = Plan(bodyKind[bld[b].node])]]
        BY <1>10, <3>2 DEF LookupPool
      <4> QED
        BY <4>1, BuildFacts DEF TypeOK, BuildType
    <3> QED
      BY <3>1, <3>2
  <2> QED
    BY <1>10, <1>c, <2>1, <2>2, <2>3, <2>4, BuildFrame, RingsFrame
<1>11. ASSUME NEW b \in Builders, LookupRing(b)
      PROVE  RingsOwned'
  <2>1. bld[b].id \in Ids /\ bld[b] \in BuildType
    BY <1>11, BuildFacts DEF LookupRing
  <2>2. \A e \in Builders : e /= b => pc'[e] = pc[e]
    BY <1>11, BuildFrame, Disjoint
  <2>3. UNCHANGED <<rings, callId>>
    BY <1>11 DEF LookupRing
  <2>4. CASE rings[bld[b].id] /= None
    <3>1. bld' = [bld EXCEPT ![b] = [bld[b] EXCEPT !.ring = rings[bld[b].id]]]
      BY <1>11, <2>4 DEF LookupRing
    <3>2. bld'[b].ring = rings[bld[b].id] /\ bld'[b].id = bld[b].id
      BY <2>1, <3>1 DEF TypeOK, BuildType
    <3>3. \A e \in Builders : e /= b => bld'[e] = bld[e]
      BY <3>1 DEF TypeOK
    <3>4. ringSrc' = ringSrc /\ pc'[b] /= "store"
      BY <1>11, <2>4, GotoFacts, Disjoint DEF LookupRing
    <3>5. \A e \in Builders, i \in Ids :
            bld'[e].ring = rings[i] /\ rings[i] /= None => bld'[e].id = i
      BY <1>c, <2>1, <2>4, <3>2, <3>3 DEF RingsOwned
    <3>6. ASSUME NEW e \in Builders, pc'[e] = "store"
          PROVE  /\ ringSrc[bld'[e].ring] = {}
                 /\ \A i \in Ids : rings[i] /= bld'[e].ring
                 /\ \A a \in Builders \ {e} : bld'[a].ring /= bld'[e].ring
      <4>1. e /= b /\ pc[e] = "store" /\ bld'[e] = bld[e]
        BY <2>2, <3>3, <3>4, <3>6
      <4> QED
        BY <1>c, <2>1, <3>2, <3>3, <4>1 DEF RingsOwned
    <3> QED
      BY <1>c, <2>3, <3>4, <3>5, <3>6 DEF RingsOwned
  <2>5. CASE rings[bld[b].id] = None
    <3>1. PICK r \in RingNames \ InUse :
             /\ bld' = [bld EXCEPT ![b] = [bld[b] EXCEPT !.ring = r]]
             /\ ringSrc' = [ringSrc EXCEPT ![r] = {}]
      BY <1>11, <2>5 DEF LookupRing
    <3>2. bld'[b].ring = r /\ bld'[b].id = bld[b].id
      BY <2>1, <3>1 DEF TypeOK, BuildType
    <3>3. \A e \in Builders : e /= b => bld'[e] = bld[e]
      BY <3>1 DEF TypeOK
    <3>4. /\ r \in RingNames /\ r /= None
          /\ \A i \in Ids : rings[i] /= r
          /\ \A e \in Builders : bld[e].ring /= r
      BY NoneAssumption DEF InUse
    <3>5. \A s \in RingNames : ringSrc'[s] = IF s = r THEN {} ELSE ringSrc[s]
      BY <3>1 DEF TypeOK
    <3>6. \A i \in Ids : rings[i] /= None => ringSrc'[rings[i]] = ringSrc[rings[i]]
      BY <1>b, <3>4, <3>5
    <3>7. \A e \in Builders, i \in Ids :
            bld'[e].ring = rings[i] /\ rings[i] /= None => bld'[e].id = i
      BY <1>c, <3>2, <3>3, <3>4 DEF RingsOwned
    <3>8. ASSUME NEW e \in Builders, pc'[e] = "store"
          PROVE  /\ ringSrc'[bld'[e].ring] = {}
                 /\ \A i \in Ids : rings[i] /= bld'[e].ring
                 /\ \A a \in Builders \ {e} : bld'[a].ring /= bld'[e].ring
      <4>1. CASE e = b
        BY <3>2, <3>3, <3>4, <3>5, <4>1
      <4>2. CASE e /= b
        <5>1. pc[e] = "store" /\ bld'[e] = bld[e] /\ bld[e].ring \in RingNames
          BY <1>a, <2>2, <3>3, <3>8, <4>2
        <5> QED
          BY <1>c, <3>2, <3>3, <3>4, <3>5, <5>1 DEF RingsOwned
      <4> QED
        BY <4>1, <4>2
    <3> QED
      BY <1>c, <2>3, <3>6, <3>7, <3>8 DEF RingsOwned
  <2> QED
    BY <2>4, <2>5
<1>12. ASSUME NEW b \in Builders, StoreRing(b)
      PROVE  RingsOwned'
  <2>1. bld[b].id \in Ids /\ bld[b].ring \in RingNames
    BY <1>12, BuildFacts DEF StoreRing
  <2>2. UNCHANGED <<bld, ringSrc, callId>> /\ pc[b] = "store"
    BY <1>12 DEF StoreRing
  <2>3. \A i \in Ids : rings'[i] = IF i = bld[b].id THEN bld[b].ring ELSE rings[i]
    BY <1>12, <2>1 DEF StoreRing, TypeOK
  <2>4. \A e \in Builders : pc'[e] = "store" => e /= b /\ pc[e] = "store"
    BY <1>12, StoreOnly
  <2>5. /\ ringSrc[bld[b].ring] = {}
        /\ \A i \in Ids : rings[i] /= bld[b].ring
        /\ \A e \in Builders \ {b} : bld[e].ring /= bld[b].ring
    BY <1>c, <2>2 DEF RingsOwned
  <2>6. \A i, j \in Ids : rings'[i] = rings'[j] /\ rings'[i] /= None => i = j
    BY <1>c, <2>3, <2>5 DEF RingsOwned
  <2>7. \A i \in Ids : rings'[i] /= None => \A c \in ringSrc[rings'[i]] : callId[c] = i
    BY <1>c, <2>3, <2>5 DEF RingsOwned
  <2>8. \A e \in Builders, i \in Ids :
          bld[e].ring = rings'[i] /\ rings'[i] /= None => bld[e].id = i
    BY <1>c, <2>3, <2>5 DEF RingsOwned
  <2>9. \A e \in Builders : pc'[e] = "store" =>
          /\ ringSrc[bld[e].ring] = {}
          /\ \A i \in Ids : rings'[i] /= bld[e].ring
          /\ \A a \in Builders \ {e} : bld[a].ring /= bld[e].ring
    BY <1>c, <2>3, <2>4, <2>5 DEF RingsOwned
  <2> QED
    BY <2>2, <2>6, <2>7, <2>8, <2>9 DEF RingsOwned
<1>13. ASSUME NEW b \in Builders, Push(b)
      PROVE  RingsOwned'
  <2>1. /\ bld[b].id \in Ids /\ bld[b].ring \in RingNames /\ bld[b].pool \in Connects
        /\ callId[bld[b].pool] = bld[b].id
    BY <1>13, BuildFacts, NoneAssumption DEF Push, Owned, MapsOwned
  <2>2. UNCHANGED <<rings, callId>>
    BY <1>13 DEF Push
  <2>3. \A s \in RingNames :
          ringSrc'[s] = IF s = bld[b].ring THEN ringSrc[s] \cup {bld[b].pool} ELSE ringSrc[s]
    BY <1>13, <2>1 DEF Push, TypeOK
  <2>4. \A e \in Builders : bld'[e].id = bld[e].id /\ bld'[e].ring = bld[e].ring
    BY <1>13, BuildFacts DEF Push, Continue, TypeOK, BuildType
  <2>5. \A e \in Builders : pc'[e] = "store" => e /= b /\ pc[e] = "store"
    BY <1>13, StoreOnly
  <2>6. \A i \in Ids : rings[i] = bld[b].ring /\ rings[i] /= None => bld[b].id = i
    BY <1>c DEF RingsOwned
  <2>7. ASSUME NEW i \in Ids, rings[i] /= None, NEW c \in ringSrc'[rings[i]]
        PROVE  callId[c] = i
    <3>1. rings[i] \in RingNames
      BY <1>b, <2>7
    <3>2. CASE c \in ringSrc[rings[i]]
      BY <1>c, <2>7, <3>2 DEF RingsOwned
    <3>3. CASE c \notin ringSrc[rings[i]]
      <4>1. rings[i] = bld[b].ring /\ c = bld[b].pool
        BY <2>3, <2>7, <3>1, <3>3
      <4> QED
        BY <2>1, <2>6, <2>7, <4>1
    <3> QED
      BY <3>2, <3>3
  <2>8. ASSUME NEW e \in Builders, pc'[e] = "store"
        PROVE  ringSrc'[bld[e].ring] = {}
    <3>1. bld[e].ring \in RingNames /\ bld[b].ring /= bld[e].ring /\ ringSrc[bld[e].ring] = {}
      BY <1>a, <1>c, <2>5, <2>8 DEF RingsOwned
    <3> QED
      BY <2>3, <3>1
  <2> QED
    BY <1>c, <2>2, <2>4, <2>5, <2>7, <2>8 DEF RingsOwned
<1>14. CASE UNCHANGED vars
  BY <1>14 DEF vars, Owned, RingsOwned
<1> QED
  BY <1>2, <1>3, <1>4, <1>5, <1>6, <1>7, <1>8, <1>9, <1>10, <1>11, <1>12, <1>13, <1>14,
     NextCases
-----------------------------------------------------------------------------
(***************************************************************************)
(* What a disconnect erases.                                               *)
(***************************************************************************)

\* A connect that was answered stays where it is.
LEMMA AnsweredStays ==
    ASSUME TypeOK, [Next]_vars, NEW c \in Connects, pc[c] \in {"ok", "failed"}
    PROVE  pc'[c] = pc[c]
<1>1. ASSUME NEW e \in Connects, NEW id \in Ids, NEW kind, Upsert(e, id, kind)
      PROVE  pc'[c] = pc[c]
  BY <1>1, GotoFacts, Disjoint DEF Upsert
<1>2. ASSUME NEW e \in Connects,
             Reject(e) \/ ConnectFails(e) \/ Dial(e) \/ Publish(e) \/ EnsureRing(e)
      PROVE  pc'[c] = pc[c]
  <2>1. c /= e /\ \E l : Goto(e, l)
    BY <1>2 DEF Reject, ConnectFails, Dial, Publish, EnsureRing
  <2> QED
    BY <2>1, GotoFacts, Disjoint
<1>3. ASSUME NEW d \in Disconnects, \/ Reject(d) \/ HandleDisconnect(d)
             \/ Close(d) \/ Drain(d) \/ Remove(d) \/ ForgetRing(d)
      PROVE  pc'[c] = pc[c]
  <2>1. \E l : Goto(d, l)
    BY <1>3 DEF Reject, HandleDisconnect, Close, Drain, Remove, ForgetRing
  <2> QED
    BY <2>1, GotoFacts, Disjoint
<1>4. CASE UNCHANGED vars
  BY <1>4 DEF vars
<1> QED
  BY <1>1, <1>2, <1>3, <1>4, NextCases, BuildFrame, Disjoint

\* Every step keeps retired connects ended.
LEMMA RetiredEndedStep ==
    ASSUME TypeOK, Locals, Erased, [Next]_vars
    PROVE  RetiredEnded'
<1> USE DEF server, node, build, history
<1>1. RetiredEnded
  BY DEF Erased
<1>2. retired \subseteq Connects
  BY DEF TypeOK
<1>3. CASE UNCHANGED retired
  BY <1>1, <1>2, <1>3, AnsweredStays DEF RetiredEnded
<1>4. ASSUME NEW d \in Disconnects, ForgetRing(d)
      PROVE  RetiredEnded'
  <2>1. CASE d \notin clean
    BY <1>3, <1>4, <2>1 DEF ForgetRing
  <2>2. CASE d \in clean
    <3>1. retired' = retired \cup ConnectsOf(callId[d]) /\ pc[d] = "forget"
      BY <1>4, <2>2 DEF ForgetRing
    <3>2. \A c \in ConnectsOf(callId[d]) : c \in Connects /\ ~ConnectActive(c) /\ callId[c] /= None
      BY <2>2, <3>1 DEF Erased, CleanErases, ConnectsOf, DisconnectActive
    <3>3. \A c \in ConnectsOf(callId[d]) : pc[c] \in {"ok", "failed"}
      BY <3>2, Disjoint DEF Locals, ConnectActive, TypeOK, PcOK, ConnectPCs
    <3> QED
      BY <1>1, <1>2, <3>1, <3>2, <3>3, AnsweredStays DEF RetiredEnded
  <2> QED
    BY <2>1, <2>2
<1>5. CASE UNCHANGED vars
  BY <1>3, <1>5 DEF vars
<1>6. ASSUME NEW p, Reject(p) \/ ConnectFails(p) \/ Dial(p) \/ Publish(p) \/ EnsureRing(p)
               \/ HandleDisconnect(p) \/ Close(p) \/ Drain(p) \/ Remove(p)
      PROVE  RetiredEnded'
  <2>1. UNCHANGED retired
    BY <1>6 DEF Reject, ConnectFails, Dial, Publish, EnsureRing, HandleDisconnect, Close,
       Drain, Remove
  <2> QED
    BY <1>3, <2>1
<1>7. ASSUME NEW c, NEW id, NEW kind, Upsert(c, id, kind)
      PROVE  RetiredEnded'
  BY <1>3, <1>7 DEF Upsert
<1> QED
  BY <1>3, <1>4, <1>5, <1>6, <1>7, NextCases, BuildFrame

\* A step that starts no call, empties entries only and moves no disconnect.
LEMMA CleanFrame ==
    ASSUME TypeOK, CleanErases, UNCHANGED <<callId, clean>>,
           \A d \in Disconnects : pc'[d] = pc[d],
           \A c \in Connects : ConnectActive(c)' => ConnectActive(c),
           \A d \in clean : DisconnectActive(d) =>
             /\ pools'[callId[d]] \in {pools[callId[d]], None}
             /\ reg'[callId[d]] \in {reg[callId[d]], None}
    PROVE  CleanErases'
<1>1. clean \subseteq Disconnects
  BY DEF TypeOK
<1>2. \A i : ConnectsOf(i)' = ConnectsOf(i)
  BY DEF ConnectsOf
<1>3. \A i : ConnectsOf(i) \subseteq Connects
  BY DEF ConnectsOf
<1>4. ASSUME NEW d \in clean
      PROVE  /\ callId'[d] /= None
             /\ DisconnectActive(d)' => \A c \in ConnectsOf(callId[d])' : ~ConnectActive(c)'
             /\ pc'[d] \in {"remove", "forget"} => pools'[callId'[d]] = None
             /\ pc'[d] = "forget" => reg'[callId'[d]] = None
  BY <1>1, <1>2, <1>3 DEF CleanErases, DisconnectActive, ConnectsOf
<1> QED
  BY <1>4 DEF CleanErases, ConnectsOf

\* Every step keeps what a clean disconnect has erased so far.
LEMMA CleanErasesStep ==
    ASSUME TypeOK, Locals, Owned, Locked, Erased, [Next]_vars
    PROVE  CleanErases'
<1> USE DEF server, node, build, history
<1>a. CleanErases /\ clean \subseteq Disconnects
  BY DEF Erased, TypeOK
<1>b. \A d \in clean : DisconnectActive(d) => callId[d] \in Ids
  BY <1>a, CallFacts, Disjoint DEF DisconnectActive
<1>1. ASSUME NEW p \in Calls, Reject(p)
      PROVE  CleanErases'
  <2>1. pc[p] = "idle" /\ UNCHANGED <<callId, clean, reg, pools>> /\ Goto(p, "rejected")
    BY <1>1 DEF Reject
  <2>2. \A q \in Procs : pc'[q] = IF q = p THEN "rejected" ELSE pc[q]
    BY <2>1, GotoFacts, Disjoint
  <2>3. p \notin clean
    BY <1>a, <2>1 DEF Locals, CleanErases
  <2>4. \A d \in clean : pc'[d] = pc[d]
    BY <1>a, <2>2, <2>3, Disjoint
  <2>5. \A c \in Connects : ConnectActive(c)' => ConnectActive(c)
    BY <2>2, Disjoint DEF ConnectActive
  <2> QED
    BY <1>a, <2>1, <2>4, <2>5 DEF CleanErases, DisconnectActive, ConnectsOf
<1>2. ASSUME NEW c \in Connects, NEW id \in Ids, NEW kind, Upsert(c, id, kind)
      PROVE  CleanErases'
  <2>1. /\ callId' = [callId EXCEPT ![c] = id]
        /\ pools' = pools
        /\ clean' = clean \ DisconnectsOf(id)
        /\ Goto(c, "dial")
    BY <1>2 DEF Upsert
  <2>a. \A q \in Procs : q /= c => pc'[q] = pc[q]
    BY <2>1, GotoFacts, Disjoint
  <2>b. \A q \in Calls : callId'[q] = IF q = c THEN id ELSE callId[q]
    BY <2>1, Disjoint DEF TypeOK
  <2>2. /\ \A q \in Procs : q /= c => pc'[q] = pc[q]
        /\ \A q \in Calls : callId'[q] = IF q = c THEN id ELSE callId[q]
    BY <2>a, <2>b
  <2>3. \A i \in Ids : i /= id => reg'[i] = reg[i]
    BY <1>2 DEF Upsert, TypeOK
  <2>4. ASSUME NEW d \in clean'
        PROVE  /\ callId'[d] /= None
               /\ DisconnectActive(d)' => \A e \in ConnectsOf(callId[d])' : ~ConnectActive(e)'
               /\ pc'[d] \in {"remove", "forget"} => pools'[callId'[d]] = None
               /\ pc'[d] = "forget" => reg'[callId'[d]] = None
    <3>1. d \in clean /\ d \in Disconnects /\ callId[d] /= id
      BY <1>a, <2>1 DEF DisconnectsOf
    <3>2. callId'[d] = callId[d] /\ pc'[d] = pc[d]
      BY <2>2, <3>1, Disjoint
    <3>3. DisconnectActive(d)' => DisconnectActive(d)
      BY <3>2 DEF DisconnectActive
    <3>4. \A e \in Connects : callId'[e] = callId'[d] =>
             callId[e] = callId[d] /\ pc'[e] = pc[e]
      BY <2>2, <3>1, <3>2, Disjoint
    <3>5. DisconnectActive(d)' => \A e \in Connects : callId'[e] = callId'[d] => ~ConnectActive(e)'
      BY <1>a, <3>1, <3>2, <3>3, <3>4 DEF CleanErases, ConnectsOf, ConnectActive
    <3>6. pc'[d] = "forget" => callId[d] \in Ids
      BY <1>b, <3>1, <3>2 DEF DisconnectActive
    <3> QED
      BY <1>a, <2>1, <2>3, <3>1, <3>2, <3>5, <3>6 DEF CleanErases, ConnectsOf
  <2> QED
    BY <2>4 DEF CleanErases, ConnectsOf
<1>3. ASSUME NEW c \in Connects, ConnectFails(c) \/ Dial(c) \/ Publish(c) \/ EnsureRing(c)
      PROVE  CleanErases'
  <2>1. PICK l : Goto(c, l) /\ UNCHANGED <<callId, clean, reg>>
    BY <1>3 DEF ConnectFails, Dial, Publish, EnsureRing
  <2>2. \A q \in Procs : q /= c => pc'[q] = pc[q]
    BY <2>1, GotoFacts, Disjoint
  <2>3. ConnectActive(c)
    BY <1>3 DEF ConnectFails, Dial, Publish, EnsureRing, ConnectActive
  <2>4. callId[c] \in Ids
    BY <2>3, CallFacts, Disjoint DEF ConnectActive
  <2>5. \A i \in Ids : i /= callId[c] => pools'[i] = pools[i]
    BY <1>3, <2>4 DEF ConnectFails, Dial, Publish, EnsureRing, TypeOK
  <2>6. \A d \in clean : DisconnectActive(d) => callId[d] /= callId[c]
    BY <1>a, <2>3 DEF CleanErases, ConnectsOf
  <2>7. \A d \in clean : DisconnectActive(d) =>
             /\ pools'[callId[d]] \in {pools[callId[d]], None}
             /\ reg'[callId[d]] \in {reg[callId[d]], None}
    BY <1>b, <2>1, <2>5, <2>6
  <2>8. \A e \in Connects : ConnectActive(e)' => ConnectActive(e)
    BY <2>2, <2>3, Disjoint DEF ConnectActive
  <2>9. \A d \in Disconnects : pc'[d] = pc[d]
    BY <2>2, Disjoint
  <2> QED
    BY <1>a, <2>1, <2>7, <2>8, <2>9, CleanFrame
<1>4. ASSUME NEW d \in Disconnects, HandleDisconnect(d)
      PROVE  CleanErases'
  <2>1. PICK id \in Ids :
          /\ callId' = [callId EXCEPT ![d] = id]
          /\ clean' = IF \E c \in ConnectsOf(id) : ConnectActive(c) THEN clean ELSE clean \cup {d}
    BY <1>4 DEF HandleDisconnect
  <2>2. pc[d] = "idle" /\ Goto(d, "close") /\ UNCHANGED <<reg, pools>>
    BY <1>4 DEF HandleDisconnect
  <2>3. callId[d] = None /\ d \notin clean
    BY <1>a, <2>2, Disjoint DEF Locals, CleanErases
  <2>4. /\ \A q \in Procs : pc'[q] = IF q = d THEN "close" ELSE pc[q]
        /\ \A q \in Calls : callId'[q] = IF q = d THEN id ELSE callId[q]
    BY <2>1, <2>2, GotoFacts, Disjoint DEF TypeOK
  <2>5. \A c \in Connects : callId'[c] = callId[c] /\ pc'[c] = pc[c]
    BY <2>4, Disjoint
  <2>6. \A i : ConnectsOf(i)' = ConnectsOf(i)
    BY <2>5 DEF ConnectsOf
  <2>7. ASSUME NEW e \in clean', e /= d
        PROVE  /\ callId'[e] /= None
               /\ DisconnectActive(e)' => \A c \in ConnectsOf(callId[e])' : ~ConnectActive(c)'
               /\ pc'[e] \in {"remove", "forget"} => pools'[callId'[e]] = None
               /\ pc'[e] = "forget" => reg'[callId'[e]] = None
    <3>1. e \in clean /\ e \in Disconnects
      BY <1>a, <2>1, <2>7
    <3>2. callId'[e] = callId[e] /\ pc'[e] = pc[e]
      BY <2>4, <2>7, <3>1, Disjoint
    <3>3. \A i : \A c \in ConnectsOf(i) : ConnectActive(c)' => ConnectActive(c)
      BY <2>5 DEF ConnectsOf, ConnectActive
    <3>4. DisconnectActive(e)' => \A c \in ConnectsOf(callId[e])' : ~ConnectActive(c)'
      BY <1>a, <2>5, <3>1, <3>2 DEF CleanErases, ConnectsOf, DisconnectActive, ConnectActive
    <3> QED
      BY <1>a, <2>2, <3>1, <3>2, <3>4 DEF CleanErases
  <2>8. ASSUME d \in clean'
        PROVE  \A c \in ConnectsOf(callId[d])' : ~ConnectActive(c)'
    <3>1. \A c \in ConnectsOf(id) : ~ConnectActive(c)
      BY <2>1, <2>3, <2>8
    <3> QED
      BY <2>4, <2>5, <3>1, Disjoint DEF ConnectsOf, ConnectActive
  <2>9. callId'[d] /= None /\ pc'[d] = "close"
    BY <2>4, Disjoint, NoneAssumption
  <2> QED
    BY <2>7, <2>8, <2>9 DEF CleanErases
<1>5. ASSUME NEW d \in Disconnects, Close(d) \/ Drain(d) \/ Remove(d) \/ ForgetRing(d)
      PROVE  CleanErases'
  <2>1. PICK l \in DisconnectPCs : Goto(d, l)
    BY <1>5 DEF Close, Drain, Remove, ForgetRing, DisconnectPCs
  <2>2. /\ UNCHANGED <<callId, clean>>
        /\ DisconnectActive(d) /\ callId[d] \in Ids
    BY <1>5, CallFacts, Disjoint DEF Close, Drain, Remove, ForgetRing, DisconnectActive
  <2>3. \A q \in Procs : q /= d => pc'[q] = pc[q]
    BY <2>1, GotoFacts, Disjoint
  <2>4. \A i \in Ids : reg'[i] \in {reg[i], None} /\ pools'[i] \in {pools[i], None}
    BY <1>5 DEF Close, Drain, Remove, ForgetRing, TypeOK
  <2>5. /\ pc'[d] \in {"remove", "forget"} => pools'[callId[d]] = None \/ pc[d] = "remove"
        /\ pc'[d] = "forget" => pc[d] = "remove" /\ reg'[callId[d]] = None
    <3>1. CASE Close(d)
      <4>1. \/ Goto(d, "remove") /\ pools[callId[d]] = None /\ pools' = pools
            \/ Goto(d, "drain")
        BY <3>1 DEF Close
      <4> QED
        BY <4>1, GotoFacts, Disjoint
    <3>2. CASE Drain(d)
      <4>1. Goto(d, "remove") /\ pools'[callId[d]] = None
        BY <2>2, <3>2 DEF Drain, TypeOK
      <4> QED
        BY <4>1, GotoFacts, Disjoint
    <3>3. CASE Remove(d)
      <4>1. pc[d] = "remove" /\ reg'[callId[d]] = None
        BY <2>2, <3>3 DEF Remove, TypeOK
      <4> QED
        BY <4>1
    <3>4. CASE ForgetRing(d)
      <4>1. Goto(d, "done")
        BY <3>4 DEF ForgetRing
      <4> QED
        BY <4>1, GotoFacts, Disjoint
    <3> QED
      BY <1>5, <3>1, <3>2, <3>3, <3>4
  <2>7. \A c \in Connects : pc'[c] = pc[c] /\ callId'[c] = callId[c]
    BY <2>2, <2>3, Disjoint
  <2>8. ASSUME NEW e \in clean
        PROVE  /\ callId'[e] /= None
               /\ DisconnectActive(e)' => \A c \in ConnectsOf(callId[e])' : ~ConnectActive(c)'
               /\ pc'[e] \in {"remove", "forget"} => pools'[callId'[e]] = None
               /\ pc'[e] = "forget" => reg'[callId'[e]] = None
    <3>1. e \in Disconnects /\ callId[e] /= None
      BY <1>a DEF CleanErases
    <3>2. DisconnectActive(e)' => DisconnectActive(e)
      BY <2>2, <2>3, <3>1, Disjoint DEF DisconnectActive
    <3>3. DisconnectActive(e)' => \A c \in ConnectsOf(callId[e])' : ~ConnectActive(c)'
      BY <1>a, <2>2, <2>7, <3>2 DEF CleanErases, ConnectsOf, ConnectActive
    <3>4. CASE e = d
      <4>1. pc[e] = "remove" => pools[callId[e]] = None
        BY <1>a DEF CleanErases
      <4> QED
        BY <2>2, <2>4, <2>5, <3>1, <3>3, <3>4, <4>1
    <3>5. CASE e /= d
      <4>1. pc'[e] = pc[e]
        BY <2>3, <3>1, <3>5, Disjoint
      <4>2. pc[e] \in {"remove", "forget"} => callId[e] \in Ids /\ pools[callId[e]] = None
        BY <1>a, <1>b DEF CleanErases, DisconnectActive
      <4>3. pc[e] = "forget" => callId[e] \in Ids /\ reg[callId[e]] = None
        BY <1>a, <1>b DEF CleanErases, DisconnectActive
      <4> QED
        BY <2>2, <2>4, <3>1, <3>3, <4>1, <4>2, <4>3
    <3> QED
      BY <3>4, <3>5
  <2> QED
    BY <2>2, <2>8 DEF CleanErases
<1>6. ASSUME NEW b \in Builders,
            \/ Visit(b) \/ EndRound(b) \/ GetNode(b) \/ LookupRing(b) \/ StoreRing(b)
            \/ LookupPool(b) \/ Acquire(b) \/ QueryOk(b) \/ QueryFails(b)
            \/ Push(b) \/ Deliver(b)
            \/ HandleSnapshot(b)
            \/ b = Ticker /\ (Tick \/ HasPool)
      PROVE  CleanErases'
  <2>1. /\ UNCHANGED <<reg, pools, callId, clean>>
        /\ \A p \in Calls : pc'[p] = pc[p]
    BY <1>6, BuildFrame
  <2>2. \A c \in Connects : ConnectActive(c)' => ConnectActive(c)
    BY <2>1, Disjoint DEF ConnectActive
  <2> QED
    BY <1>a, <2>1, <2>2, Disjoint, CleanFrame
<1>7. CASE UNCHANGED vars
  BY <1>a, <1>7 DEF vars, CleanErases, ConnectsOf, DisconnectActive, ConnectActive
<1> QED
  BY <1>1, <1>2, <1>3, <1>4, <1>5, <1>6, <1>7, NextCases

\* Nothing of a retired connect comes back into the maps.
LEMMA ForgetsStep ==
    ASSUME TypeOK, Locals, Owned, Erased, [Next]_vars
    PROVE  DisconnectForgets'
<1> USE DEF server, node, build, history
<1>a. /\ RetiredEnded /\ CleanErases /\ DisconnectForgets /\ BuildsCutOff
      /\ RingsOwned /\ MapsOwned
  BY DEF Erased, Owned
<1>b. \A i \in Ids : rings[i] /= None => rings[i] \in RingNames
  BY DEF TypeOK
<1>1. CASE UNCHANGED <<reg, pools, rings, ringSrc, retired>>
  BY <1>1, <1>a DEF DisconnectForgets
<1>2. ASSUME NEW c \in Connects, NEW id \in Ids, NEW kind, Upsert(c, id, kind)
      PROVE  DisconnectForgets'
  <2>1. c \notin retired
    BY <1>2, <1>a DEF Upsert, RetiredEnded
  <2>2. \A i \in Ids : reg'[i] \in {reg[i], c}
    BY <1>2 DEF Upsert, TypeOK
  <2>3. UNCHANGED <<pools, rings, ringSrc, retired>>
    BY <1>2 DEF Upsert
  <2> QED
    BY <1>a, <2>1, <2>2, <2>3 DEF DisconnectForgets
<1>3. ASSUME NEW c \in Connects, Publish(c)
      PROVE  DisconnectForgets'
  <2>1. c \notin retired
    BY <1>3, <1>a DEF Publish, RetiredEnded
  <2>2. \A i \in Ids : pools'[i] \in {pools[i], c}
    BY <1>3 DEF Publish, TypeOK
  <2>3. UNCHANGED <<reg, rings, ringSrc, retired>>
    BY <1>3 DEF Publish
  <2> QED
    BY <1>a, <2>1, <2>2, <2>3 DEF DisconnectForgets
<1>4. ASSUME NEW c \in Connects, EnsureRing(c)
      PROVE  DisconnectForgets'
  <2>1. UNCHANGED <<reg, pools, retired>>
    BY <1>4 DEF EnsureRing
  <2>2. CASE UNCHANGED <<rings, ringSrc>>
    BY <1>1, <2>1, <2>2
  <2>3. CASE ~UNCHANGED <<rings, ringSrc>>
    <3>1. PICK r \in RingNames \ InUse :
            rings' = [rings EXCEPT ![callId[c]] = r] /\ ringSrc' = [ringSrc EXCEPT ![r] = {}]
      BY <1>4, <2>3 DEF EnsureRing
    <3>2. \A i \in Ids : rings'[i] \in {rings[i], r} /\ rings[i] /= r
      BY <3>1 DEF InUse, TypeOK
    <3>3. \A s \in RingNames : ringSrc'[s] = IF s = r THEN {} ELSE ringSrc[s]
      BY <3>1 DEF TypeOK
    <3>4. \A i \in Ids : rings'[i] /= None => ringSrc'[rings'[i]] \cap retired = {}
      BY <1>a, <1>b, <3>1, <3>2, <3>3 DEF DisconnectForgets
    <3> QED
      BY <1>a, <2>1, <3>4 DEF DisconnectForgets
  <2> QED
    BY <2>2, <2>3
<1>5. ASSUME NEW d \in Disconnects, Drain(d) \/ Remove(d)
      PROVE  DisconnectForgets'
  <2>1. \A i \in Ids : reg'[i] \in {reg[i], None} /\ pools'[i] \in {pools[i], None}
    BY <1>5 DEF Drain, Remove, TypeOK
  <2>2. UNCHANGED <<rings, ringSrc, retired>> /\ None \notin retired
    BY <1>5, NoneAssumption DEF Drain, Remove, TypeOK
  <2> QED
    BY <1>a, <2>1, <2>2 DEF DisconnectForgets
<1>6. ASSUME NEW d \in Disconnects, ForgetRing(d)
      PROVE  DisconnectForgets'
  <2> DEFINE i0 == callId[d]
  <2>1. i0 \in Ids /\ UNCHANGED <<reg, pools, ringSrc>>
    BY <1>6, CallFacts, Disjoint DEF ForgetRing
  <2>2. \A i \in Ids : rings'[i] = IF i = i0 THEN None ELSE rings[i]
    BY <1>6, <2>1 DEF ForgetRing, TypeOK
  <2>3. CASE retired' = retired
    BY <1>a, <2>1, <2>2, <2>3 DEF DisconnectForgets
  <2>4. CASE retired' /= retired
    <3>1. d \in clean /\ retired' = retired \cup ConnectsOf(i0) /\ pc[d] = "forget"
      BY <1>6, <2>4 DEF ForgetRing
    <3>2. reg[i0] = None /\ pools[i0] = None
      BY <1>a, <3>1 DEF CleanErases
    <3>3. ASSUME NEW i \in Ids
          PROVE  reg[i] \notin retired' /\ pools[i] \notin retired'
      <4>1. reg[i] \notin ConnectsOf(i0) /\ pools[i] \notin ConnectsOf(i0)
        BY <1>a, <3>2, NoneAssumption DEF MapsOwned, ConnectsOf
      <4> QED
        BY <1>a, <3>1, <4>1 DEF DisconnectForgets
    <3>4. ASSUME NEW i \in Ids, rings'[i] /= None
          PROVE  ringSrc[rings'[i]] \cap retired' = {}
      <4>1. i /= i0 /\ rings'[i] = rings[i]
        BY <2>2, <3>4
      <4>2. \A c \in ringSrc[rings[i]] : c \notin ConnectsOf(i0)
        BY <1>a, <3>4, <4>1 DEF RingsOwned, ConnectsOf
      <4>3. ringSrc[rings[i]] \cap retired = {}
        BY <1>a, <3>4, <4>1 DEF DisconnectForgets
      <4> QED
        BY <3>1, <4>1, <4>2, <4>3
    <3> QED
      BY <2>1, <3>3, <3>4 DEF DisconnectForgets
  <2> QED
    BY <2>3, <2>4
<1>7. ASSUME NEW b \in Builders, LookupRing(b)
      PROVE  DisconnectForgets'
  <2>1. UNCHANGED <<reg, pools, rings, retired>>
    BY <1>7, BuildFrame DEF LookupRing
  <2>2. CASE UNCHANGED ringSrc
    BY <1>1, <2>1, <2>2
  <2>3. CASE ~UNCHANGED ringSrc
    <3>1. PICK r \in RingNames \ InUse : ringSrc' = [ringSrc EXCEPT ![r] = {}]
      BY <1>7, <2>3 DEF LookupRing
    <3>2. \A i \in Ids : rings[i] /= r
      BY DEF InUse
    <3>3. \A i \in Ids : rings[i] /= None => ringSrc'[rings[i]] = ringSrc[rings[i]]
      BY <1>b, <3>1, <3>2 DEF TypeOK
    <3> QED
      BY <1>a, <2>1, <3>3 DEF DisconnectForgets
  <2> QED
    BY <2>2, <2>3
<1>8. ASSUME NEW b \in Builders, StoreRing(b)
      PROVE  DisconnectForgets'
  <2>1. UNCHANGED <<reg, pools, ringSrc, retired>> /\ pc[b] = "store"
    BY <1>8, BuildFrame DEF StoreRing
  <2>2. \A i \in Ids : rings'[i] \in {rings[i], bld[b].ring}
    BY <1>8 DEF StoreRing, TypeOK
  <2>3. ringSrc[bld[b].ring] = {}
    BY <1>a, <2>1 DEF RingsOwned
  <2> QED
    BY <1>a, <2>1, <2>2, <2>3 DEF DisconnectForgets
<1>9. ASSUME NEW b \in Builders, Push(b)
      PROVE  DisconnectForgets'
  <2>1. UNCHANGED <<reg, pools, rings, retired>>
    BY <1>9, BuildFrame DEF Push
  <2>2. \A s \in RingNames : ringSrc'[s] = IF s = bld[b].ring THEN ringSrc[s] \cup {bld[b].pool}
                                                             ELSE ringSrc[s]
    BY <1>9 DEF Push, TypeOK
  <2>3. \A i \in Ids : rings[i] = bld[b].ring => bld[b].pool \notin retired
    BY <1>a DEF BuildsCutOff
  <2>4. ASSUME NEW i \in Ids, rings[i] /= None
        PROVE  ringSrc'[rings[i]] \cap retired = {}
    <3>1. rings[i] \in RingNames /\ ringSrc[rings[i]] \cap retired = {}
      BY <1>a, <1>b, <2>4 DEF DisconnectForgets
    <3> QED
      BY <2>2, <2>3, <3>1
  <2> QED
    BY <1>a, <2>1, <2>4 DEF DisconnectForgets
<1>10. ASSUME NEW b \in Builders,
            \/ Visit(b) \/ EndRound(b) \/ GetNode(b) \/ LookupPool(b)
            \/ Acquire(b) \/ QueryOk(b) \/ QueryFails(b) \/ Deliver(b) \/ HandleSnapshot(b)
            \/ b = Ticker /\ (Tick \/ HasPool)
      PROVE  DisconnectForgets'
  <2>1. UNCHANGED <<reg, pools, rings, ringSrc, retired>>
    BY <1>10 DEF Visit, EndRound, GetNode, LookupPool, Acquire, QueryOk, QueryFails, Deliver,
       HandleSnapshot, Tick, HasPool
  <2> QED
    BY <1>1, <2>1
<1>11. ASSUME NEW p, Reject(p) \/ ConnectFails(p) \/ Dial(p) \/ HandleDisconnect(p) \/ Close(p)
      PROVE  DisconnectForgets'
  <2>1. UNCHANGED <<reg, pools, rings, ringSrc, retired>>
    BY <1>11 DEF Reject, ConnectFails, Dial, HandleDisconnect, Close
  <2> QED
    BY <1>1, <2>1
<1>12. CASE UNCHANGED vars
  BY <1>1, <1>12 DEF vars
<1> QED
  BY <1>2, <1>3, <1>4, <1>5, <1>6, <1>7, <1>8, <1>9, <1>10, <1>11, <1>12, NextCases

\* A build whose pool is retired keeps its ring, and no map takes that ring.
LEMMA CutOffStep ==
    ASSUME TypeOK, Locals, Owned, Erased, [Next]_vars
    PROVE  BuildsCutOff'
<1> USE DEF server, node, build, history
<1>a. /\ RetiredEnded /\ CleanErases /\ DisconnectForgets /\ BuildsCutOff
      /\ RingsOwned /\ MapsOwned
  BY DEF Erased, Owned
<1>b. None \notin retired /\ retired \subseteq Connects
  BY NoneAssumption DEF TypeOK
<1>c. \A b \in Builders : bld[b].pool \in retired => bld[b].ring \in RingNames
  BY <1>b, BuildFacts, NoneAssumption DEF Locals, HandOK, BuildType
<1>1. CASE UNCHANGED <<bld, rings, retired>>
  BY <1>1, <1>a DEF BuildsCutOff
<1>2. ASSUME NEW c \in Connects, EnsureRing(c)
      PROVE  BuildsCutOff'
  <2>1. UNCHANGED <<bld, retired>>
    BY <1>2 DEF EnsureRing
  <2>2. CASE UNCHANGED rings
    BY <1>1, <2>1, <2>2
  <2>3. CASE ~UNCHANGED rings
    <3>1. PICK r \in RingNames \ InUse : rings' = [rings EXCEPT ![callId[c]] = r]
      BY <1>2, <2>3 DEF EnsureRing
    <3>2. \A b \in Builders : bld[b].ring /= r
      BY DEF InUse
    <3>3. \A i \in Ids : rings'[i] \in {rings[i], r}
      BY <3>1 DEF TypeOK
    <3> QED
      BY <1>a, <2>1, <3>2, <3>3 DEF BuildsCutOff
  <2> QED
    BY <2>2, <2>3
<1>3. ASSUME NEW d \in Disconnects, ForgetRing(d)
      PROVE  BuildsCutOff'
  <2> DEFINE i0 == callId[d]
  <2>1. i0 \in Ids /\ UNCHANGED bld
    BY <1>3, CallFacts, Disjoint DEF ForgetRing
  <2>2. \A i \in Ids : rings'[i] = IF i = i0 THEN None ELSE rings[i]
    BY <1>3, <2>1 DEF ForgetRing, TypeOK
  <2>3. retired' \subseteq retired \cup ConnectsOf(i0)
    BY <1>3 DEF ForgetRing
  <2>4. ASSUME NEW b \in Builders, bld[b].pool \in retired', NEW i \in Ids
        PROVE  rings'[i] /= bld[b].ring
    <3>1. bld[b].pool /= None
      BY <1>b, <2>3, <2>4, NoneAssumption DEF ConnectsOf
    <3>2. bld[b].ring /= None
      BY <3>1 DEF Locals, HandOK
    <3>3. CASE bld[b].pool \in retired
      BY <1>a, <2>2, <3>2, <3>3 DEF BuildsCutOff
    <3>4. CASE bld[b].pool \in ConnectsOf(i0)
      <4>1. bld[b].id = i0
        BY <1>a, <3>1, <3>4 DEF MapsOwned, ConnectsOf
      <4> QED
        BY <1>a, <2>2, <3>2, <4>1 DEF RingsOwned
    <3> QED
      BY <2>3, <2>4, <3>3, <3>4
  <2> QED
    BY <2>1, <2>4 DEF BuildsCutOff
<1>4. ASSUME NEW b \in Builders, LookupRing(b)
      PROVE  BuildsCutOff'
  <2>1. UNCHANGED <<rings, retired>>
    BY <1>4, BuildFrame DEF LookupRing
  <2>2. bld[b].pool = None
    BY <1>4 DEF LookupRing, Locals, HandOK
  <2>3. PICK r : bld' = [bld EXCEPT ![b] = [bld[b] EXCEPT !.ring = r]]
    BY <1>4 DEF LookupRing
  <2>4. \A e \in Builders : e /= b => bld'[e] = bld[e]
    BY <2>3 DEF TypeOK
  <2>5. bld'[b].pool = None
    <3>1. bld[b] \in BuildType
      BY BuildFacts
    <3>2. bld'[b] = [bld[b] EXCEPT !.ring = r]
      BY <2>3 DEF TypeOK
    <3> QED
      BY <2>2, <3>1, <3>2 DEF BuildType
  <2> QED
    BY <1>a, <1>b, <2>1, <2>4, <2>5 DEF BuildsCutOff
<1>5. ASSUME NEW b \in Builders, StoreRing(b)
      PROVE  BuildsCutOff'
  <2>1. UNCHANGED <<bld, retired>> /\ pc[b] = "store"
    BY <1>5, BuildFrame DEF StoreRing
  <2>2. \A i \in Ids : rings'[i] \in {rings[i], bld[b].ring}
    BY <1>5 DEF StoreRing, TypeOK
  <2>3. bld[b].pool = None
    BY <2>1 DEF Locals, HandOK
  <2>4. \A e \in Builders \ {b} : bld[e].ring /= bld[b].ring
    BY <1>a, <2>1 DEF RingsOwned
  <2> QED
    BY <1>a, <1>b, <2>1, <2>2, <2>3, <2>4 DEF BuildsCutOff
<1>6. ASSUME NEW b \in Builders, LookupPool(b)
      PROVE  BuildsCutOff'
  <2>1. UNCHANGED <<rings, retired>> /\ bld[b].id \in Ids
    BY <1>6, BuildFrame, BuildFacts DEF LookupPool
  <2>2. bld'[b].pool \in {None, pools[bld[b].id]}
    <3>1. CASE Leave(b)
      BY <3>1 DEF Leave, NoBuild, TypeOK
    <3>2. CASE ~Leave(b)
      <4>1. bld' = [bld EXCEPT ![b] = [bld[b] EXCEPT !.pool = pools[bld[b].id],
                                                    !.plan = Plan(bodyKind[bld[b].node])]]
        BY <1>6, <3>2 DEF LookupPool
      <4> QED
        BY <4>1, BuildFacts DEF TypeOK, BuildType
    <3> QED
      BY <3>1, <3>2
  <2>3. \A e \in Builders : e /= b => bld'[e] = bld[e]
    BY <1>6 DEF LookupPool, Leave, TypeOK
  <2>4. bld'[b].pool \notin retired
    BY <1>a, <1>b, <2>1, <2>2 DEF DisconnectForgets
  <2> QED
    BY <1>a, <2>1, <2>3, <2>4 DEF BuildsCutOff
<1>7. ASSUME NEW b \in Builders,
            \/ Visit(b) \/ EndRound(b) \/ GetNode(b) \/ Acquire(b) \/ QueryOk(b)
            \/ QueryFails(b) \/ Push(b) \/ Deliver(b) \/ HandleSnapshot(b)
            \/ b = Ticker /\ (Tick \/ HasPool)
      PROVE  BuildsCutOff'
  <2>1. UNCHANGED rings
    BY <1>7 DEF Visit, EndRound, GetNode, Acquire, QueryOk, QueryFails, Push, Deliver,
       HandleSnapshot, Tick, HasPool
  <2>2. ~LookupRing(b)
    BY <1>7 DEF LookupRing, Visit, EndRound, GetNode, Acquire, QueryOk, QueryFails, Push,
       Deliver, HandleSnapshot, Tick, HasPool
  <2>3. \A e \in Builders : \/ bld'[e].pool = None
                            \/ bld'[e].pool = bld[e].pool /\ bld'[e].ring = bld[e].ring
    BY <1>7, <2>2, BuildSame
  <2>4. retired' = retired
    BY <1>7, BuildFrame
  <2> QED
    BY <1>a, <1>b, <2>1, <2>3, <2>4 DEF BuildsCutOff
<1>8. ASSUME NEW p, \/ Reject(p) \/ ConnectFails(p) \/ Dial(p) \/ Publish(p)
                    \/ HandleDisconnect(p) \/ Close(p) \/ Drain(p) \/ Remove(p)
                    \/ \E id, kind : Upsert(p, id, kind)
      PROVE  BuildsCutOff'
  <2>1. UNCHANGED <<bld, rings, retired>>
    BY <1>8 DEF Reject, ConnectFails, Dial, Publish, HandleDisconnect, Close, Drain, Remove, Upsert
  <2> QED
    BY <1>1, <2>1
<1>9. CASE UNCHANGED vars
  BY <1>1, <1>9 DEF vars
<1> QED
  BY <1>2, <1>3, <1>4, <1>5, <1>6, <1>7, <1>8, <1>9, NextCases
-----------------------------------------------------------------------------
(***************************************************************************)
(* The theorems.                                                           *)
(***************************************************************************)
\* The inductive invariant holds when the server starts.
LEMMA InitIInv == Init => IInv
<1> SUFFICES ASSUME Init PROVE IInv
  OBVIOUS
<1>1. TypeOK
  BY TypeInit
<1>2. Locals
  BY Disjoint DEF Init, Locals, HandOK, NoBuild
<1>3. Locked
  BY Disjoint, NoneAssumption DEF Init, Locked
<1>4. Owned
  BY Disjoint, NoneAssumption DEF Init, Owned, MapsOwned, RingsOwned, NoBuild
<1>5. Erased
  BY DEF Init, Erased, RetiredEnded, CleanErases, DisconnectForgets, BuildsCutOff
<1> QED
  BY <1>1, <1>2, <1>3, <1>4, <1>5 DEF IInv

\* Every step keeps the inductive invariant.
LEMMA StepIInv == IInv /\ [Next]_vars => IInv'
<1> SUFFICES ASSUME IInv, [Next]_vars PROVE IInv'
  OBVIOUS
<1>1. TypeOK /\ Locals /\ Locked /\ Owned /\ Erased
  BY DEF IInv
<1>2. TypeOK'
  BY <1>1, TypeStep
<1>3. Locals' /\ Locked'
  BY <1>1, LocalsStep, LockedStep
<1>4. MapsOwned' /\ RingsOwned'
  BY <1>1, MapsStep, RingsStep
<1>5. RetiredEnded' /\ CleanErases' /\ DisconnectForgets' /\ BuildsCutOff'
  BY <1>1, RetiredEndedStep, CleanErasesStep, ForgetsStep, CutOffStep
<1> QED
  BY <1>2, <1>3, <1>4, <1>5 DEF IInv, Owned, Erased

\* The inductive invariant holds in every reachable state.
THEOREM Invariance == Spec => []IInv
BY InitIInv, StepIInv, PTL DEF Spec

\* Type correctness of the three maps, the pools and all goroutines.
THEOREM TypeCorrect == Spec => []TypeOK
<1>1. IInv => TypeOK
  BY DEF IInv
<1> QED
  BY <1>1, Invariance, PTL

\* Conns: a pool found in the map under Conns.mu is open, for any number of
\* concurrent connects, disconnects and builds.
THEOREM PoolsOpen == Spec => []MappedPoolsOpen
<1>1. IInv => MappedPoolsOpen
  BY DEF IInv, Locked, MappedPoolsOpen
<1> QED
  BY <1>1, Invariance, PTL

\* HandleDisconnect: after a disconnect that no connect of its id overlapped, no
\* map holds anything of the connects before it, whatever builds were running.
THEOREM Forgets == Spec => []DisconnectForgets
<1>1. IInv => DisconnectForgets
  BY DEF IInv, Erased
<1> QED
  BY <1>1, Invariance, PTL
=============================================================================
