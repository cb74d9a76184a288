------------------------ MODULE ManagerServedProofs ------------------------
(***************************************************************************)
(* More theorems about Manager: what an answered connect can rely on,      *)
(* which pools are lost, and which queries outlive a disconnect.           *)
(*                                                                         *)
(* The first needs an invariant for each id that is not raced.  While a    *)
(* disconnect of it runs, no connect does, and a disconnect that is not    *)
(* clean has nothing left to undo that is not retired already.  While none *)
(* runs, the connects that are not retired have their id in the registry,  *)
(* and from the point at which each adds it in the other two maps.         *)
(***************************************************************************)
EXTENDS ManagerProofs

Busy(i) == \E d \in DisconnectsOf(i) : DisconnectActive(d)

Undone(i) ==
    /\ \A c \in ConnectsOf(i) : ~ConnectActive(c)
    /\ \A d \in DisconnectsOf(i) : DisconnectActive(d) /\ d \notin clean => ConnectsOf(i) \subseteq retired

Kept(i) ==
    \A c \in ConnectsOf(i) \ retired :
        /\ reg[i] /= None
        /\ pc[c] \in {"ensure", "ok"} => pools[i] /= None
        /\ pc[c] = "ok" => rings[i] /= None

ServedAt(i) == i \notin raced => IF Busy(i) THEN Undone(i) ELSE Kept(i)

SInv == \A i \in Ids : ServedAt(i)

LEMMA InitServed == Init => SInv
<1> SUFFICES ASSUME Init, NEW i \in Ids PROVE ServedAt(i)
  BY DEF SInv
<1>1. ConnectsOf(i) = {} /\ DisconnectsOf(i) = {}
  BY NoneAssumption, Disjoint DEF Init, ConnectsOf, DisconnectsOf
<1> QED
  BY <1>1 DEF ServedAt, Busy, Kept
-----------------------------------------------------------------------------
\* A step of the call p, of id k, leaves the other ids and their calls alone.
OnlyOf(p, k) ==
    /\ callId[p] \in {k, None} /\ callId'[p] = k
    /\ \A q \in Calls : q /= p => pc'[q] = pc[q] /\ callId'[q] = callId[q]
    /\ \A i \in Ids \ {k} : /\ reg'[i] = reg[i] /\ pools'[i] = pools[i] /\ rings'[i] = rings[i]
                            /\ i \in raced' <=> i \in raced
    /\ \A d \in Disconnects : callId'[d] /= k => (d \in clean' <=> d \in clean)
    /\ \A c \in Connects : callId'[c] /= k => (c \in retired' <=> c \in retired)

LEMMA OthersServed ==
    ASSUME SInv, NEW p \in Calls, NEW k \in Ids, OnlyOf(p, k), NEW i \in Ids \ {k}
    PROVE  ServedAt(i)'
<1>1. callId'[p] /= i /\ callId[p] /= i
  BY NoneAssumption DEF OnlyOf
<1>2. \A q \in Calls : (callId'[q] = i <=> callId[q] = i) /\ (callId[q] = i => pc'[q] = pc[q])
  BY <1>1 DEF OnlyOf
<1>3. ConnectsOf(i)' = ConnectsOf(i) /\ DisconnectsOf(i)' = DisconnectsOf(i)
  BY <1>2, Disjoint DEF ConnectsOf, DisconnectsOf
<1>4. /\ \A c \in ConnectsOf(i) : pc'[c] = pc[c] /\ (c \in retired' <=> c \in retired)
      /\ \A d \in DisconnectsOf(i) : pc'[d] = pc[d] /\ (d \in clean' <=> d \in clean)
  BY <1>2, Disjoint DEF ConnectsOf, DisconnectsOf, OnlyOf
<1>5. Busy(i)' <=> Busy(i)
  BY <1>3, <1>4 DEF Busy, DisconnectActive
<1>6. reg'[i] = reg[i] /\ pools'[i] = pools[i] /\ rings'[i] = rings[i] /\ (i \in raced' <=> i \in raced)
  BY DEF OnlyOf
<1>7. Undone(i) => Undone(i)'
  BY <1>3, <1>4 DEF Undone, ConnectActive, DisconnectActive
<1>8. Kept(i) => Kept(i)'
  BY <1>3, <1>4, <1>6 DEF Kept
<1> QED
  BY <1>5, <1>6, <1>7, <1>8 DEF SInv, ServedAt

\* A step of a connect that runs, or begins to, while no disconnect of its id does.
LEMMA ConnectServed ==
    ASSUME TypeOK, SInv, NEW c \in Connects, NEW k \in Ids, OnlyOf(c, k),
           raced' = raced, retired' = retired, k \notin raced, ~ Busy(k),
           reg'[k] /= None,
           pools[k] /= None => pools'[k] /= None,
           rings[k] /= None => rings'[k] /= None,
           pc'[c] \in {"ensure", "ok"} => pools'[k] /= None,
           pc'[c] = "ok" => rings'[k] /= None
    PROVE  ServedAt(k)'
<1>1. Kept(k)
  BY DEF SInv, ServedAt
<1>2. \A q \in Calls : q /= c => pc'[q] = pc[q] /\ callId'[q] = callId[q]
  BY DEF OnlyOf
<1>3. ~ Busy(k)'
  BY <1>2, Disjoint DEF Busy, DisconnectsOf, DisconnectActive
<1>4. \A e \in ConnectsOf(k)' : e /= c => e \in ConnectsOf(k) /\ pc'[e] = pc[e]
  BY <1>2, Disjoint DEF ConnectsOf
<1>5. Kept(k)'
  <2> SUFFICES ASSUME NEW e \in ConnectsOf(k)' \ retired'
               PROVE  /\ reg'[k] /= None
                      /\ pc'[e] \in {"ensure", "ok"} => pools'[k] /= None
                      /\ pc'[e] = "ok" => rings'[k] /= None
    BY DEF Kept
  <2>1. CASE e = c
    BY <2>1
  <2>2. CASE e /= c
    BY <1>1, <1>4, <2>2 DEF Kept
  <2> QED
    BY <2>1, <2>2
<1> QED
  BY <1>3, <1>5 DEF ServedAt

\* A step of a disconnect that runs before and after it.
LEMMA DisconnectServed ==
    ASSUME TypeOK, SInv, NEW d \in Disconnects, NEW k \in Ids, OnlyOf(d, k),
           raced' = raced, retired' = retired, clean' = clean,
           callId[d] = k, DisconnectActive(d), DisconnectActive(d)'
    PROVE  ServedAt(k)'
<1>1. \A q \in Calls : callId'[q] = callId[q] /\ (q /= d => pc'[q] = pc[q])
  BY DEF OnlyOf
<1>2. d \in DisconnectsOf(k) /\ d \in DisconnectsOf(k)'
  BY <1>1, Disjoint DEF DisconnectsOf
<1>3. Busy(k) /\ Busy(k)'
  BY <1>2 DEF Busy
<1>4. ConnectsOf(k)' = ConnectsOf(k) /\ DisconnectsOf(k)' = DisconnectsOf(k)
  BY <1>1, Disjoint DEF ConnectsOf, DisconnectsOf
<1>5. \A c \in ConnectsOf(k) : pc'[c] = pc[c]
  BY <1>1, Disjoint DEF ConnectsOf
<1>6. \A e \in DisconnectsOf(k) : DisconnectActive(e)' => DisconnectActive(e)
  BY <1>1, Disjoint DEF DisconnectsOf, DisconnectActive
<1>7. Undone(k) => Undone(k)'
  BY <1>4, <1>5, <1>6 DEF Undone, ConnectActive
<1> QED
  BY <1>3, <1>7 DEF SInv, ServedAt

\* A connect that runs while its id is not raced has it to itself.
LEMMA ActiveAlone ==
    ASSUME SInv, NEW c \in Connects, NEW k \in Ids, callId[c] = k, ConnectActive(c), k \notin raced
    PROVE  ~ Busy(k)
BY DEF SInv, ServedAt, Undone, ConnectsOf
-----------------------------------------------------------------------------
LEMMA SInvStep ==
    ASSUME IInv, SInv, [Next]_vars
    PROVE  SInv'
<1> USE DEF server, node, build, history
<1>a. TypeOK /\ Locals /\ Locked /\ Owned /\ Erased /\ CleanErases
  BY DEF IInv, Erased
<1>b. \A p \in Calls : pc[p] \in {"idle", "rejected"} <=> callId[p] = None
  BY <1>a DEF Locals
<1>1. ASSUME NEW p \in Calls, Reject(p)
      PROVE  SInv'
  <2>1. /\ UNCHANGED <<reg, pools, rings, callId, clean, raced, retired>>
        /\ \A q \in Calls : pc'[q] = IF q = p THEN "rejected" ELSE pc[q]
        /\ pc[p] = "idle"
    BY <1>1, <1>a, GotoFacts, Disjoint DEF Reject
  <2>2. \A q \in Calls : callId[q] \in Ids => pc'[q] = pc[q]
    BY <1>b, <2>1, NoneAssumption
  <2>3. \A i \in Ids : /\ ConnectsOf(i)' = ConnectsOf(i) /\ DisconnectsOf(i)' = DisconnectsOf(i)
                       /\ \A c \in ConnectsOf(i) : pc'[c] = pc[c]
                       /\ \A d \in DisconnectsOf(i) : pc'[d] = pc[d]
    BY <2>1, <2>2, Disjoint DEF ConnectsOf, DisconnectsOf
  <2>4. ASSUME NEW i \in Ids PROVE ServedAt(i)'
    <3>1. Busy(i)' <=> Busy(i)
      BY <2>3 DEF Busy, DisconnectActive
    <3>2. Undone(i) => Undone(i)'
      BY <2>1, <2>3 DEF Undone, ConnectActive, DisconnectActive
    <3>3. Kept(i) => Kept(i)'
      BY <2>1, <2>3 DEF Kept
    <3> QED
      BY <2>1, <3>1, <3>2, <3>3 DEF SInv, ServedAt
  <2> QED
    BY <2>4 DEF SInv
<1>2. ASSUME NEW c \in Connects, NEW k \in Ids, NEW kind, Upsert(c, k, kind)
      PROVE  SInv'
  <2>1. /\ pc[c] = "idle" /\ UNCHANGED <<pools, rings, retired>>
        /\ reg' = [reg EXCEPT ![k] = c] /\ callId' = [callId EXCEPT ![c] = k]
        /\ clean' = clean \ DisconnectsOf(k)
        /\ raced' = IF Busy(k) THEN raced \cup {k} ELSE raced
    BY <1>2 DEF Upsert, Busy
  <2>2. /\ \A q \in Calls : pc'[q] = IF q = c THEN "dial" ELSE pc[q]
        /\ \A q \in Calls : callId'[q] = IF q = c THEN k ELSE callId[q]
        /\ callId[c] = None /\ c \in Calls
    <3>1. c \in Calls /\ c \in Procs /\ callId[c] = None
      BY <1>b, <2>1, Disjoint
    <3>2. \A q \in Procs : pc'[q] = IF q = c THEN "dial" ELSE pc[q]
      BY <1>2, <1>a, <3>1, GotoFacts DEF Upsert
    <3>3. \A q \in Calls : callId'[q] = IF q = c THEN k ELSE callId[q]
      BY <1>a, <2>1 DEF TypeOK
    <3> QED
      BY <3>1, <3>2, <3>3 DEF Procs
  <2>3. OnlyOf(c, k)
    <3>1. \A i \in Ids \ {k} : reg'[i] = reg[i]
      BY <1>a, <2>1 DEF TypeOK
    <3>2. \A d \in Disconnects : callId'[d] /= k => (d \in clean' <=> d \in clean)
      BY <2>1, <2>2, Disjoint DEF DisconnectsOf
    <3> QED
      BY <2>1, <2>2, <3>1, <3>2 DEF OnlyOf
  <2>4. ServedAt(k)'
    <3>1. CASE k \in raced \/ Busy(k)
      BY <2>1, <3>1 DEF ServedAt
    <3>2. CASE k \notin raced /\ ~ Busy(k)
      <4>1. reg'[k] /= None
        BY <1>a, <2>1, NoneAssumption DEF TypeOK
      <4>2. pc'[c] = "dial"
        BY <2>2
      <4> QED
        BY <1>a, <2>1, <2>3, <3>2, <4>1, <4>2, ConnectServed
    <3> QED
      BY <3>1, <3>2
  <2> QED
    BY <2>2, <2>3, <2>4, OthersServed DEF SInv
<1>3. ASSUME NEW c \in Connects, ConnectFails(c) \/ Dial(c) \/ Publish(c) \/ EnsureRing(c)
      PROVE  SInv'
  <2>1. ConnectActive(c) /\ UNCHANGED <<reg, callId, clean, raced, retired>> /\ \E l : Goto(c, l)
    BY <1>3 DEF ConnectFails, Dial, Publish, EnsureRing, ConnectActive
  <2>2. PICK k \in Ids : callId[c] = k /\ c \in Calls
    BY <1>a, <2>1, CallFacts, Disjoint DEF ConnectActive
  <2>3. \A q \in Calls : q /= c => pc'[q] = pc[q]
    BY <1>a, <2>1, <2>2, GotoFacts, Disjoint
  <2>4. pools' = pools \/ pools' = [pools EXCEPT ![k] = c]
    BY <1>3, <2>2 DEF ConnectFails, Dial, Publish, EnsureRing
  <2>5. rings' = rings \/ \E r \in RingNames : rings' = [rings EXCEPT ![k] = r]
    BY <1>3, <2>2 DEF ConnectFails, Dial, Publish, EnsureRing
  <2>6. \A i \in Ids \ {k} : pools'[i] = pools[i] /\ rings'[i] = rings[i]
    BY <1>a, <2>4, <2>5 DEF TypeOK
  <2>7. /\ pools[k] /= None => pools'[k] /= None
        /\ rings[k] /= None => rings'[k] /= None
    <3>1. pools \in [Ids -> Connects \cup {None}] /\ rings \in [Ids -> RingNames \cup {None}]
      BY <1>a DEF TypeOK
    <3> QED
      BY <2>2, <2>4, <2>5, <3>1, NoneAssumption
  <2>8. OnlyOf(c, k)
    BY <2>1, <2>2, <2>3, <2>6 DEF OnlyOf
  <2>9. ServedAt(k)'
    <3>1. CASE k \in raced
      BY <2>1, <3>1 DEF ServedAt
    <3>2. CASE k \notin raced
      <4>1. ~ Busy(k)
        BY <2>1, <2>2, <3>2, ActiveAlone
      <4>2. Kept(k)
        BY <2>2, <3>2, <4>1 DEF SInv, ServedAt
      <4>3. c \in ConnectsOf(k) /\ c \notin retired
        BY <1>a, <2>1, <2>2 DEF ConnectsOf, Erased, RetiredEnded, ConnectActive
      <4>4. reg'[k] /= None
        BY <2>1, <4>2, <4>3 DEF Kept
      <4>5. pc'[c] \in {"ensure", "ok"} => pools'[k] /= None
        <5>1. CASE ConnectFails(c)
          BY <1>a, <5>1, GotoFacts, Disjoint DEF ConnectFails
        <5>2. CASE Dial(c)
          BY <1>a, <5>2, GotoFacts, Disjoint DEF Dial
        <5>3. CASE Publish(c)
          <6>1. pools' = [pools EXCEPT ![k] = c] /\ pools \in [Ids -> Connects \cup {None}]
            BY <1>a, <2>2, <5>3 DEF Publish, TypeOK
          <6> QED
            BY <6>1, NoneAssumption
        <5>4. CASE EnsureRing(c)
          BY <2>2, <2>7, <4>2, <4>3, <5>4 DEF EnsureRing, Kept
        <5> QED
          BY <1>3, <5>1, <5>2, <5>3, <5>4
      <4>6. pc'[c] = "ok" => rings'[k] /= None
        <5>1. CASE ConnectFails(c)
          BY <1>a, <5>1, GotoFacts, Disjoint DEF ConnectFails
        <5>2. CASE Dial(c)
          BY <1>a, <5>2, GotoFacts, Disjoint DEF Dial
        <5>3. CASE Publish(c)
          BY <1>a, <5>3, GotoFacts, Disjoint DEF Publish
        <5>4. CASE EnsureRing(c)
          <6>1. rings \in [Ids -> RingNames \cup {None}]
            BY <1>a DEF TypeOK
          <6>2. rings[k] /= None \/ \E r \in RingNames : rings' = [rings EXCEPT ![k] = r]
            BY <2>2, <5>4 DEF EnsureRing
          <6> QED
            BY <2>7, <6>1, <6>2, NoneAssumption
        <5> QED
          BY <1>3, <5>1, <5>2, <5>3, <5>4
      <4> QED
        BY <1>a, <2>1, <2>2, <2>7, <2>8, <3>2, <4>1, <4>4, <4>5, <4>6, ConnectServed
    <3> QED
      BY <3>1, <3>2
  <2> QED
    BY <2>2, <2>8, <2>9, OthersServed DEF SInv
<1>4. ASSUME NEW d \in Disconnects, HandleDisconnect(d)
      PROVE  SInv'
  <2>1. PICK k \in Ids :
           /\ callId' = [callId EXCEPT ![d] = k]
           /\ clean' = IF \E c \in ConnectsOf(k) : ConnectActive(c) THEN clean ELSE clean \cup {d}
           /\ raced' = IF \E c \in ConnectsOf(k) : ConnectActive(c) THEN raced \cup {k} ELSE raced
    BY <1>4 DEF HandleDisconnect
  <2>2. pc[d] = "idle" /\ Goto(d, "close") /\ UNCHANGED <<reg, pools, rings, retired>>
    BY <1>4 DEF HandleDisconnect
  <2>3. /\ d \in Calls /\ callId[d] = None
        /\ \A q \in Calls : pc'[q] = IF q = d THEN "close" ELSE pc[q]
        /\ \A q \in Calls : callId'[q] = IF q = d THEN k ELSE callId[q]
    <3>1. d \in Calls /\ d \in Procs /\ callId[d] = None
      BY <1>b, <2>2, Disjoint
    <3>2. \A q \in Procs : pc'[q] = IF q = d THEN "close" ELSE pc[q]
      BY <1>a, <2>2, <3>1, GotoFacts
    <3>3. \A q \in Calls : callId'[q] = IF q = d THEN k ELSE callId[q]
      BY <1>a, <2>1 DEF TypeOK
    <3> QED
      BY <3>1, <3>2, <3>3 DEF Procs
  <2>4. OnlyOf(d, k)
    <3>1. \A e \in Disconnects : callId'[e] /= k => (e \in clean' <=> e \in clean)
      BY <2>1, <2>3, Disjoint
    <3> QED
      BY <2>1, <2>2, <2>3, <3>1 DEF OnlyOf
  <2>5. ServedAt(k)'
    <3>1. CASE k \in raced'
      BY <3>1 DEF ServedAt
    <3>2. CASE k \notin raced'
      <4>1. /\ \A c \in ConnectsOf(k) : ~ ConnectActive(c)
            /\ k \notin raced /\ clean' = clean \cup {d}
        BY <2>1, <3>2
      <4>2. /\ ConnectsOf(k)' = ConnectsOf(k)
            /\ \A c \in ConnectsOf(k) : pc'[c] = pc[c]
        BY <2>3, Disjoint DEF ConnectsOf
      <4>3. d \in DisconnectsOf(k)' /\ DisconnectActive(d)'
        BY <2>3, Disjoint DEF DisconnectsOf, DisconnectActive
      <4>4. Busy(k)'
        BY <4>3 DEF Busy
      <4>5. ASSUME NEW e \in DisconnectsOf(k)', DisconnectActive(e)', e \notin clean'
            PROVE  ConnectsOf(k)' \subseteq retired'
        <5>1. e /= d /\ e \notin clean /\ e \in Disconnects
          BY <4>1, <4>5 DEF DisconnectsOf
        <5>2. e \in DisconnectsOf(k) /\ DisconnectActive(e)
          BY <2>3, <4>5, <5>1, Disjoint DEF DisconnectsOf, DisconnectActive
        <5>3. Busy(k)
          BY <5>2 DEF Busy
        <5>4. Undone(k)
          BY <4>1, <5>3 DEF SInv, ServedAt
        <5> QED
          BY <2>2, <4>2, <5>1, <5>2, <5>4 DEF Undone
      <4>6. Undone(k)'
        BY <4>1, <4>2, <4>5 DEF Undone, ConnectActive
      <4> QED
        BY <4>4, <4>6 DEF ServedAt
    <3> QED
      BY <3>1, <3>2
  <2> QED
    BY <2>3, <2>4, <2>5, OthersServed DEF SInv
<1>5. ASSUME NEW d \in Disconnects, Close(d) \/ Drain(d) \/ Remove(d)
      PROVE  SInv'
  <2>1. DisconnectActive(d) /\ UNCHANGED <<rings, callId, clean, raced, retired>>
        /\ \E l \in {"drain", "remove", "forget"} : Goto(d, l)
    BY <1>5 DEF Close, Drain, Remove, DisconnectActive
  <2>2. PICK k \in Ids : callId[d] = k /\ d \in Calls
    BY <1>a, <2>1, CallFacts, Disjoint DEF DisconnectActive
  <2>3. (\A q \in Calls : q /= d => pc'[q] = pc[q]) /\ DisconnectActive(d)'
    BY <1>a, <2>1, <2>2, GotoFacts, Disjoint DEF DisconnectActive
  <2>4. \A i \in Ids \ {k} : reg'[i] = reg[i] /\ pools'[i] = pools[i]
    BY <1>5, <1>a, <2>2 DEF Close, Drain, Remove, TypeOK
  <2>5. OnlyOf(d, k)
    BY <2>1, <2>2, <2>3, <2>4 DEF OnlyOf
  <2>6. ServedAt(k)'
    BY <1>a, <2>1, <2>2, <2>3, <2>5, DisconnectServed
  <2> QED
    BY <2>2, <2>5, <2>6, OthersServed DEF SInv
<1>6. ASSUME NEW d \in Disconnects, ForgetRing(d)
      PROVE  SInv'
  <2>1. /\ DisconnectActive(d) /\ UNCHANGED <<reg, pools, callId, clean>> /\ Goto(d, "done")
    BY <1>6 DEF ForgetRing, DisconnectActive
  <2>2. PICK k \in Ids : callId[d] = k /\ d \in Calls
    BY <1>a, <2>1, CallFacts, Disjoint DEF DisconnectActive
  <2>3. \A q \in Calls : pc'[q] = IF q = d THEN "done" ELSE pc[q]
    BY <1>a, <2>1, <2>2, GotoFacts, Disjoint
  <2>a. /\ rings' = [rings EXCEPT ![k] = None]
        /\ retired' = IF d \in clean THEN retired \cup ConnectsOf(k) ELSE retired
        /\ raced' = IF d \in clean THEN raced \ {k} ELSE raced
    BY <1>6, <2>2 DEF ForgetRing
  <2>4. /\ \A i \in Ids \ {k} : rings'[i] = rings[i] /\ (i \in raced' <=> i \in raced)
        /\ \A c \in Connects : callId'[c] /= k => (c \in retired' <=> c \in retired)
    BY <1>a, <2>1, <2>a DEF TypeOK, ConnectsOf
  <2>5. OnlyOf(d, k)
    BY <2>1, <2>2, <2>3, <2>4 DEF OnlyOf
  <2>6. d \in DisconnectsOf(k)
    BY <2>2 DEF DisconnectsOf
  <2>7. ConnectsOf(k)' = ConnectsOf(k) /\ \A c \in ConnectsOf(k) : pc'[c] = pc[c]
    BY <2>1, <2>3, Disjoint DEF ConnectsOf
  <2>8. ASSUME k \notin raced'
        PROVE  (\A c \in ConnectsOf(k) : ~ ConnectActive(c)) /\ ConnectsOf(k) \subseteq retired'
    <3>1. CASE d \in clean
      BY <1>a, <2>1, <2>2, <2>a, <3>1 DEF CleanErases
    <3>2. CASE d \notin clean
      <4>1. k \notin raced /\ retired' = retired
        BY <2>8, <2>a, <3>2
      <4>2. Busy(k)
        BY <2>1, <2>6 DEF Busy
      <4>3. Undone(k)
        BY <2>2, <4>1, <4>2 DEF SInv, ServedAt
      <4> QED
        BY <2>1, <2>6, <3>2, <4>1, <4>3 DEF Undone
    <3> QED
      BY <3>1, <3>2
  <2>9. ServedAt(k)'
    <3> SUFFICES ASSUME k \notin raced' PROVE Undone(k)' /\ Kept(k)'
      BY DEF ServedAt
    <3>1. Undone(k)'
      BY <2>7, <2>8 DEF Undone, ConnectActive
    <3>2. Kept(k)'
      BY <2>7, <2>8 DEF Kept
    <3> QED
      BY <3>1, <3>2
  <2> QED
    BY <2>2, <2>5, <2>9, OthersServed DEF SInv
<1>7. ASSUME NEW b \in Builders,
            \/ Visit(b) \/ EndRound(b) \/ GetNode(b) \/ LookupRing(b) \/ StoreRing(b)
            \/ LookupPool(b) \/ Acquire(b) \/ QueryOk(b) \/ QueryFails(b)
            \/ Push(b) \/ Deliver(b)
            \/ HandleSnapshot(b)
            \/ b = Ticker /\ (Tick \/ HasPool)
      PROVE  SInv'
  <2>1. /\ UNCHANGED <<reg, pools, callId, clean, raced, retired>>
        /\ \A p \in Calls : pc'[p] = pc[p]
    BY <1>7, <1>a, BuildFrame
  <2>2. \A i \in Ids : rings[i] /= None => rings'[i] /= None
    <3>1. CASE StoreRing(b)
      <4>1. bld[b].ring \in RingNames /\ rings' = [rings EXCEPT ![bld[b].id] = bld[b].ring]
        BY <1>a, <3>1, BuildFacts DEF StoreRing
      <4> QED
        BY <1>a, <4>1, NoneAssumption DEF TypeOK
    <3>2. CASE ~ StoreRing(b)
      <4>1. UNCHANGED rings
        BY <1>7, <3>2 DEF Visit, EndRound, GetNode, LookupRing, LookupPool, Acquire, QueryOk,
           QueryFails, Push, Deliver, HandleSnapshot, Tick, HasPool
      <4> QED
        BY <4>1
    <3> QED
      BY <3>1, <3>2
  <2>3. ASSUME NEW i \in Ids PROVE ServedAt(i)'
    <3>1. ConnectsOf(i)' = ConnectsOf(i) /\ DisconnectsOf(i)' = DisconnectsOf(i)
      BY <2>1 DEF ConnectsOf, DisconnectsOf
    <3>2. /\ \A c \in ConnectsOf(i) : pc'[c] = pc[c]
          /\ \A d \in DisconnectsOf(i) : pc'[d] = pc[d]
      BY <2>1, Disjoint DEF ConnectsOf, DisconnectsOf
    <3>3. Busy(i)' <=> Busy(i)
      BY <3>1, <3>2 DEF Busy, DisconnectActive
    <3>4. Undone(i) => Undone(i)'
      BY <2>1, <3>1, <3>2 DEF Undone, ConnectActive, DisconnectActive
    <3>5. Kept(i) => Kept(i)'
      BY <2>1, <2>2, <3>1, <3>2 DEF Kept
    <3> QED
      BY <2>1, <3>3, <3>4, <3>5 DEF SInv, ServedAt
  <2> QED
    BY <2>3 DEF SInv
<1>8. CASE UNCHANGED vars
  BY <1>8 DEF vars, SInv, ServedAt, Busy, Undone, Kept, ConnectsOf, DisconnectsOf, ConnectActive,
     DisconnectActive
<1> QED
  BY <1>1, <1>2, <1>3, <1>4, <1>5, <1>6, <1>7, <1>8, NextCases
-----------------------------------------------------------------------------
(***************************************************************************)
(* Which pools are lost.  The pool that a disconnect waits for is the one  *)
(* it has closed, so an open pool leaves the map only by being replaced.   *)
(***************************************************************************)
Mapped(c) == pc[c] \in {"ensure", "ok"}

DrainsClosed ==
    \A d \in Disconnects : pc[d] = "drain" =>
        /\ pools[callId[d]] /= None
        /\ poolState[pools[callId[d]]] = "closed"

LInv == DrainsClosed /\ LostOnlyByReconnect

LEMMA MappedPools ==
    ASSUME TypeOK, MapsOwned, NEW i \in Ids, pools[i] /= None
    PROVE  pools[i] \in Connects /\ callId[pools[i]] = i /\ Mapped(pools[i])
<1>1. pools[i] \in Connects \cup {None}
  BY DEF TypeOK
<1>2. callId[pools[i]] = i /\ pc[pools[i]] \in {"ensure", "ok"}
  BY DEF MapsOwned
<1> QED
  BY <1>1, <1>2 DEF Mapped

\* A step that maps and unmaps nothing.
LEMMA LostFrame ==
    ASSUME TypeOK, Locals, MapsOwned, LInv, UNCHANGED pools,
           \A c \in Connects : Mapped(c)' <=> Mapped(c),
           \A p \in Calls : callId[p] /= None => callId'[p] = callId[p],
           \A d \in Disconnects : pc'[d] = "drain" => pc[d] = "drain",
           \A c \in Connects : Mapped(c) => poolState'[c] = poolState[c]
    PROVE  LInv'
<1>1. \A c \in Connects : Mapped(c) => callId[c] /= None /\ callId'[c] = callId[c]
  BY Disjoint DEF Mapped, Locals
<1>2. \A d \in Disconnects : pc[d] = "drain" => callId[d] \in Ids /\ callId'[d] = callId[d]
  BY CallFacts, Disjoint, NoneAssumption
<1>3. \A i \in Ids : pools[i] /= None => pools[i] \in Connects /\ Mapped(pools[i])
  BY MappedPools
<1>4. DrainsClosed'
  BY <1>2, <1>3 DEF LInv, DrainsClosed
<1>5. LostOnlyByReconnect'
  <2> SUFFICES ASSUME NEW c \in Connects, poolState'[c] = "open", pc'[c] \in {"ensure", "ok"},
                      pools'[callId'[c]] /= c
               PROVE  \E e \in ConnectsOf(callId[c])' \ {c} : pc'[e] \in {"ensure", "ok"}
    BY DEF LostOnlyByReconnect
  <2>1. Mapped(c) /\ poolState[c] = "open" /\ callId'[c] = callId[c] /\ pools[callId[c]] /= c
    BY <1>1 DEF Mapped
  <2>2. PICK e \in ConnectsOf(callId[c]) \ {c} : pc[e] \in {"ensure", "ok"}
    BY <2>1 DEF LInv, LostOnlyByReconnect, Mapped
  <2>3. e \in Connects /\ Mapped(e) /\ callId[e] = callId[c]
    BY <2>2 DEF ConnectsOf, Mapped
  <2>4. e \in ConnectsOf(callId[c])' /\ pc'[e] \in {"ensure", "ok"}
    BY <1>1, <2>1, <2>3 DEF ConnectsOf, Mapped
  <2> QED
    BY <2>2, <2>4
<1> QED
  BY <1>4, <1>5 DEF LInv

LEMMA LostStep ==
    ASSUME IInv, LInv, [Next]_vars
    PROVE  LInv'
<1> USE DEF server, node, build, history
<1>a. TypeOK /\ Locals /\ Locked /\ MapsOwned
  BY DEF IInv, Owned
<1>b. \A p \in Calls : pc[p] \in {"idle", "rejected"} <=> callId[p] = None
  BY <1>a DEF Locals
<1>c. \A i \in Ids : pools[i] /= None =>
         pools[i] \in Connects /\ callId[pools[i]] = i /\ Mapped(pools[i])
  BY <1>a, MappedPools
<1>1. ASSUME NEW p \in Calls, Reject(p)
      PROVE  LInv'
  <2>1. \A q \in Procs : pc'[q] = IF q = p THEN "rejected" ELSE pc[q]
    BY <1>1, <1>a, GotoFacts, Disjoint DEF Reject
  <2>2. pc[p] = "idle" /\ UNCHANGED <<pools, poolState, callId>>
    BY <1>1 DEF Reject
  <2>3. \A c \in Connects : Mapped(c)' <=> Mapped(c)
    BY <2>1, <2>2, Disjoint DEF Mapped
  <2>4. \A d \in Disconnects : pc'[d] = "drain" => pc[d] = "drain"
    BY <2>1, Disjoint
  <2> QED
    BY <1>a, <2>2, <2>3, <2>4, LostFrame
<1>2. ASSUME NEW c \in Connects, NEW k \in Ids, NEW kind, Upsert(c, k, kind)
      PROVE  LInv'
  <2>1. \A q \in Procs : pc'[q] = IF q = c THEN "dial" ELSE pc[q]
    BY <1>2, <1>a, GotoFacts, Disjoint DEF Upsert
  <2>2. pc[c] = "idle" /\ UNCHANGED <<pools, poolState>> /\ callId' = [callId EXCEPT ![c] = k]
    BY <1>2 DEF Upsert
  <2>3. callId[c] = None
    BY <1>b, <2>2, Disjoint
  <2>4. \A p \in Calls : callId[p] /= None => callId'[p] = callId[p]
    BY <1>a, <2>2, <2>3 DEF TypeOK
  <2>5. \A e \in Connects : Mapped(e)' <=> Mapped(e)
    BY <2>1, <2>2, Disjoint DEF Mapped
  <2>6. \A d \in Disconnects : pc'[d] = "drain" => pc[d] = "drain"
    BY <2>1, Disjoint
  <2> QED
    BY <1>a, <2>2, <2>4, <2>5, <2>6, LostFrame
<1>3. ASSUME NEW c \in Connects, ConnectFails(c) \/ Dial(c)
      PROVE  LInv'
  <2>1. PICK l \in {"failed", "publish"} : Goto(c, l)
    BY <1>3 DEF ConnectFails, Dial
  <2>2. pc[c] = "dial" /\ UNCHANGED <<pools, callId>>
        /\ \E s \in {"none", "closed", "open"} : poolState' = [poolState EXCEPT ![c] = s]
    BY <1>3 DEF ConnectFails, Dial
  <2>3. \A q \in Procs : pc'[q] = IF q = c THEN l ELSE pc[q]
    BY <1>a, <2>1, GotoFacts, Disjoint
  <2>4. \A e \in Connects : (Mapped(e)' <=> Mapped(e)) /\ (Mapped(e) => e /= c)
    BY <2>2, <2>3, Disjoint DEF Mapped
  <2>5. \A e \in Connects : Mapped(e) => poolState'[e] = poolState[e]
    BY <1>a, <2>2, <2>4 DEF TypeOK
  <2>6. \A d \in Disconnects : pc'[d] = "drain" => pc[d] = "drain"
    BY <2>3, Disjoint
  <2> QED
    BY <1>a, <2>2, <2>4, <2>5, <2>6, LostFrame
<1>4. ASSUME NEW c \in Connects, EnsureRing(c)
      PROVE  LInv'
  <2>1. \A q \in Procs : pc'[q] = IF q = c THEN "ok" ELSE pc[q]
    BY <1>4, <1>a, GotoFacts, Disjoint DEF EnsureRing
  <2>2. pc[c] = "ensure" /\ UNCHANGED <<pools, poolState, callId>>
    BY <1>4 DEF EnsureRing
  <2>3. \A e \in Connects : Mapped(e)' <=> Mapped(e)
    BY <2>1, <2>2, Disjoint DEF Mapped
  <2>4. \A d \in Disconnects : pc'[d] = "drain" => pc[d] = "drain"
    BY <2>1, Disjoint
  <2> QED
    BY <1>a, <2>2, <2>3, <2>4, LostFrame
<1>5. ASSUME NEW c \in Connects, Publish(c)
      PROVE  LInv'
  <2>1. pc[c] = "publish" /\ connsMu = None /\ UNCHANGED <<poolState, connsMu, callId>>
        /\ pools' = [pools EXCEPT ![callId[c]] = c]
    BY <1>5 DEF Publish
  <2>2. \A q \in Procs : pc'[q] = IF q = c THEN "ensure" ELSE pc[q]
    BY <1>5, <1>a, GotoFacts, Disjoint DEF Publish
  <2>3. PICK k \in Ids : callId[c] = k
    BY <1>a, <2>1, CallFacts, Disjoint
  <2>4. \A i \in Ids : pools'[i] = IF i = k THEN c ELSE pools[i]
    BY <1>a, <2>1, <2>3 DEF TypeOK
  <2>5. \A d \in Disconnects : pc'[d] /= "drain"
    BY <1>a, <2>1, <2>2, NoneAssumption, Disjoint DEF Locked
  <2>6. DrainsClosed'
    BY <2>5 DEF DrainsClosed
  <2>7. LostOnlyByReconnect'
    <3> SUFFICES ASSUME NEW e \in Connects, poolState'[e] = "open", pc'[e] \in {"ensure", "ok"},
                        pools'[callId'[e]] /= e
                 PROVE  \E x \in ConnectsOf(callId[e])' \ {e} : pc'[x] \in {"ensure", "ok"}
      BY DEF LostOnlyByReconnect
    <3>1. e /= c
      BY <2>1, <2>3, <2>4
    <3>2. pc[e] \in {"ensure", "ok"} /\ callId[e] \in Ids
      BY <1>a, <2>2, <3>1, CallFacts, Disjoint
    <3>3. CASE callId[e] = k
      <4>1. c \in ConnectsOf(callId[e])' /\ pc'[c] = "ensure"
        BY <2>1, <2>2, <2>3, <3>3, Disjoint DEF ConnectsOf
      <4> QED
        BY <3>1, <4>1
    <3>4. CASE callId[e] /= k
      <4>1. pools[callId[e]] /= e
        BY <2>1, <2>4, <3>2, <3>4
      <4>2. PICK x \in ConnectsOf(callId[e]) \ {e} : pc[x] \in {"ensure", "ok"}
        BY <2>1, <3>2, <4>1 DEF LInv, LostOnlyByReconnect
      <4>3. x \in ConnectsOf(callId[e])' /\ pc'[x] \in {"ensure", "ok"}
        BY <2>1, <2>2, <4>2, Disjoint DEF ConnectsOf
      <4> QED
        BY <4>2, <4>3
    <3> QED
      BY <3>3, <3>4
  <2> QED
    BY <2>6, <2>7 DEF LInv
<1>6. ASSUME NEW d \in Disconnects, HandleDisconnect(d)
      PROVE  LInv'
  <2>1. \A q \in Procs : pc'[q] = IF q = d THEN "close" ELSE pc[q]
    BY <1>6, <1>a, GotoFacts, Disjoint DEF HandleDisconnect
  <2>2. pc[d] = "idle" /\ UNCHANGED <<pools, poolState>>
        /\ \E k \in Ids : callId' = [callId EXCEPT ![d] = k]
    BY <1>6 DEF HandleDisconnect
  <2>3. callId[d] = None
    BY <1>b, <2>2, Disjoint
  <2>4. \A p \in Calls : callId[p] /= None => callId'[p] = callId[p]
    BY <1>a, <2>2, <2>3 DEF TypeOK
  <2>5. \A e \in Connects : Mapped(e)' <=> Mapped(e)
    BY <2>1, Disjoint DEF Mapped
  <2>6. \A e \in Disconnects : pc'[e] = "drain" => pc[e] = "drain"
    BY <2>1, Disjoint
  <2> QED
    BY <1>a, <2>2, <2>4, <2>5, <2>6, LostFrame
<1>7. ASSUME NEW d \in Disconnects, Close(d)
      PROVE  LInv'
  <2>1. PICK k \in Ids : callId[d] = k
    BY <1>7, <1>a, CallFacts, Disjoint DEF Close
  <2>2. UNCHANGED <<pools, callId>> /\ connsMu = None
    BY <1>7 DEF Close
  <2>3. CASE pools[k] = None
    <3>1. UNCHANGED poolState /\ Goto(d, "remove")
      BY <1>7, <2>1, <2>3 DEF Close
    <3>2. \A q \in Procs : pc'[q] = IF q = d THEN "remove" ELSE pc[q]
      BY <1>a, <3>1, GotoFacts, Disjoint
    <3>3. \A e \in Connects : Mapped(e)' <=> Mapped(e)
      BY <3>2, Disjoint DEF Mapped
    <3>4. \A e \in Disconnects : pc'[e] = "drain" => pc[e] = "drain"
      BY <3>2, Disjoint
    <3> QED
      BY <1>a, <2>2, <3>1, <3>3, <3>4, LostFrame
  <2>4. CASE pools[k] /= None
    <3>1. poolState' = [poolState EXCEPT ![pools[k]] = "closed"] /\ Goto(d, "drain")
      BY <1>7, <2>1, <2>4 DEF Close
    <3>2. \A q \in Procs : pc'[q] = IF q = d THEN "drain" ELSE pc[q]
      BY <1>a, <3>1, GotoFacts, Disjoint
    <3>3. pools[k] \in Connects
      BY <1>c, <2>4
    <3>4. poolState'[pools[k]] = "closed"
          /\ \A c \in Connects : poolState'[c] = "open" => poolState[c] = "open"
      BY <1>a, <3>1, <3>3 DEF TypeOK
    <3>5. \A e \in Disconnects : pc[e] /= "drain"
      BY <1>a, <2>2, NoneAssumption DEF Locked
    <3>6. \A e \in Disconnects : pc'[e] = "drain" => e = d
      BY <3>2, <3>5, Disjoint
    <3>7. DrainsClosed'
      BY <2>1, <2>2, <2>4, <3>4, <3>6 DEF DrainsClosed
    <3>8. \A c \in Connects : pc'[c] = pc[c]
      BY <3>2, Disjoint
    <3>9. LostOnlyByReconnect'
      BY <2>2, <3>4, <3>8 DEF LInv, LostOnlyByReconnect, ConnectsOf
    <3> QED
      BY <3>7, <3>9 DEF LInv
  <2> QED
    BY <2>3, <2>4
<1>8. ASSUME NEW d \in Disconnects, Drain(d)
      PROVE  LInv'
  <2>1. PICK k \in Ids : callId[d] = k
    BY <1>8, <1>a, CallFacts, Disjoint DEF Drain
  <2>2. pc[d] = "drain" /\ UNCHANGED <<poolState, callId>> /\ pools' = [pools EXCEPT ![k] = None]
    BY <1>8, <2>1 DEF Drain
  <2>3. \A q \in Procs : pc'[q] = IF q = d THEN "remove" ELSE pc[q]
    BY <1>8, <1>a, GotoFacts, Disjoint DEF Drain
  <2>4. \A e \in Disconnects : pc'[e] /= "drain"
    BY <1>a, <2>2, <2>3, Disjoint DEF Locked
  <2>5. DrainsClosed'
    BY <2>4 DEF DrainsClosed
  <2>6. \A i \in Ids : pools'[i] = IF i = k THEN None ELSE pools[i]
    BY <1>a, <2>2 DEF TypeOK
  <2>7. LostOnlyByReconnect'
    <3> SUFFICES ASSUME NEW c \in Connects, poolState[c] = "open", pc[c] \in {"ensure", "ok"},
                        pools'[callId[c]] /= c
                 PROVE  \E x \in ConnectsOf(callId[c]) \ {c} : pc[x] \in {"ensure", "ok"}
      BY <2>2, <2>3, Disjoint DEF LostOnlyByReconnect, ConnectsOf
    <3>1. poolState[pools[k]] = "closed" /\ callId[c] \in Ids
      BY <1>a, <2>1, <2>2, CallFacts, Disjoint DEF LInv, DrainsClosed
    <3>2. pools[callId[c]] /= c
      BY <2>6, <3>1
    <3> QED
      BY <3>2 DEF LInv, LostOnlyByReconnect
  <2> QED
    BY <2>5, <2>7 DEF LInv
<1>9. ASSUME NEW d \in Disconnects, Remove(d) \/ ForgetRing(d)
      PROVE  LInv'
  <2>1. UNCHANGED <<pools, poolState, callId>> /\ \E l \in {"forget", "done"} : Goto(d, l)
    BY <1>9 DEF Remove, ForgetRing
  <2>2. PICK l \in {"forget", "done"} : \A q \in Procs : pc'[q] = IF q = d THEN l ELSE pc[q]
    BY <1>a, <2>1, GotoFacts, Disjoint
  <2>3. \A e \in Connects : Mapped(e)' <=> Mapped(e)
    BY <2>2, Disjoint DEF Mapped
  <2>4. \A e \in Disconnects : pc'[e] = "drain" => pc[e] = "drain"
    BY <2>2, Disjoint
  <2> QED
    BY <1>a, <2>1, <2>3, <2>4, LostFrame
<1>10. ASSUME NEW b \in Builders,
            \/ Visit(b) \/ EndRound(b) \/ GetNode(b) \/ LookupRing(b) \/ StoreRing(b)
            \/ LookupPool(b) \/ Acquire(b) \/ QueryOk(b) \/ QueryFails(b)
            \/ Push(b) \/ Deliver(b)
            \/ HandleSnapshot(b)
            \/ b = Ticker /\ (Tick \/ HasPool)
      PROVE  LInv'
  <2>1. UNCHANGED <<pools, poolState, callId>> /\ \A p \in Calls : pc'[p] = pc[p]
    BY <1>10, <1>a, BuildFrame
  <2>2. \A e \in Connects : Mapped(e)' <=> Mapped(e)
    BY <2>1, Disjoint DEF Mapped
  <2> QED
    BY <1>a, <2>1, <2>2, Disjoint, LostFrame
<1>11. CASE UNCHANGED vars
  BY <1>11 DEF vars, LInv, DrainsClosed, LostOnlyByReconnect, ConnectsOf
<1> QED
  BY <1>1, <1>2, <1>3, <1>4, <1>5, <1>6, <1>7, <1>8, <1>9, <1>10, <1>11, NextCases

LEMMA InitLost == Init => LInv
BY Disjoint DEF Init, LInv, DrainsClosed, LostOnlyByReconnect
-----------------------------------------------------------------------------
(***************************************************************************)
(* Queries after a disconnect.  A query runs on an open pool or on the one *)
(* Close waits for, which is mapped; and of the retired pools only one     *)
(* that was replaced is open.                                              *)
(***************************************************************************)
Used ==
    \A b \in Builders :
        /\ bld[b].pool /= None => Mapped(bld[b].pool)
        /\ pc[b] = "query" =>
              \/ poolState[bld[b].pool] = "open"
              \/ connsMu /= None /\ pools[callId[connsMu]] = bld[b].pool

FailedNotOpen == \A c \in Connects : pc[c] = "failed" => poolState[c] /= "open"

Replaced ==
    \A c \in retired :
        poolState[c] = "open" => \E e \in retired \ {c} : callId[e] = callId[c] /\ pc[e] = "ok"

QInv == Used /\ FailedNotOpen /\ Replaced

LEMMA InitQuiet == Init => QInv
<1> SUFFICES ASSUME Init PROVE QInv
  OBVIOUS
<1>1. \A b \in Builders : bld[b].pool = None /\ pc[b] = "idle"
  BY Disjoint DEF Init, NoBuild
<1>2. \A c \in Connects : pc[c] = "idle"
  BY Disjoint DEF Init
<1> QED
  BY <1>1, <1>2 DEF Init, QInv, Used, FailedNotOpen, Replaced

\* A step that maps, unmaps and closes no mapped pool and begins no query.
LEMMA UsedFrame ==
    ASSUME TypeOK, Locals, Used, UNCHANGED <<pools, connsMu>>,
           \A c \in Connects : Mapped(c) => Mapped(c)' /\ poolState'[c] = poolState[c],
           \A p \in Calls : callId[p] /= None => callId'[p] = callId[p],
           connsMu /= None => callId[connsMu] /= None,
           \A b \in Builders :
             \/ bld'[b].pool = None /\ pc'[b] /= "query"
             \/ /\ bld'[b].pool = bld[b].pool
                /\ pc'[b] = "query" => pc[b] = "query"
    PROVE  Used'
<1> SUFFICES ASSUME NEW b \in Builders
             PROVE  /\ bld'[b].pool /= None => pc'[bld'[b].pool] \in {"ensure", "ok"}
                    /\ pc'[b] = "query" =>
                          \/ poolState'[bld'[b].pool] = "open"
                          \/ connsMu' /= None /\ pools'[callId'[connsMu']] = bld'[b].pool
  BY DEF Used, Mapped
<1>1. CASE bld'[b].pool = None /\ pc'[b] /= "query"
  BY <1>1
<1>2. CASE bld'[b].pool = bld[b].pool /\ (pc'[b] = "query" => pc[b] = "query")
  <2>1. CASE bld[b].pool = None
    BY <1>2, <2>1 DEF Locals, HandOK
  <2>2. CASE bld[b].pool /= None
    <3>1. Mapped(bld[b].pool) /\ bld[b].pool \in Connects
      BY <2>2 DEF Used, TypeOK, BuildType
    <3>2. pc'[bld[b].pool] \in {"ensure", "ok"} /\ poolState'[bld[b].pool] = poolState[bld[b].pool]
      BY <3>1 DEF Mapped
    <3>3. pc'[bld'[b].pool] \in {"ensure", "ok"} /\ poolState'[bld'[b].pool] = poolState[bld[b].pool]
      BY <1>2, <3>2 DEF Mapped
    <3>4. connsMu /= None => callId'[connsMu] = callId[connsMu]
      BY Disjoint DEF TypeOK
    <3> QED
      BY <1>2, <3>3, <3>4 DEF Used
  <2> QED
    BY <2>1, <2>2
<1> QED
  BY <1>1, <1>2

\* A step that opens no pool of an answered connect and retires none.
LEMMA ReplacedFrame ==
    ASSUME TypeOK, Locals, RetiredEnded, Replaced, FailedNotOpen, UNCHANGED retired, [Next]_vars,
           \A p \in Calls : callId[p] /= None => callId'[p] = callId[p],
           \A c \in Connects : pc[c] \in {"ok", "failed"} /\ poolState'[c] = "open"
                                 => poolState[c] = "open",
           \A c \in Connects : pc'[c] = "failed" => pc[c] = "failed" \/ poolState'[c] /= "open"
    PROVE  Replaced' /\ FailedNotOpen'
<1>1. \A c \in retired : /\ c \in Connects /\ c \in Calls /\ pc[c] \in {"ok", "failed"}
                         /\ callId[c] /= None
  BY Disjoint DEF TypeOK, RetiredEnded, Locals
<1>2. \A c \in retired : callId'[c] = callId[c] /\ pc'[c] = pc[c]
  BY <1>1, AnsweredStays
<1>3. Replaced'
  BY <1>1, <1>2 DEF Replaced
<1>4. FailedNotOpen'
  BY DEF FailedNotOpen
<1> QED
  BY <1>3, <1>4

\* ForgetRing: of the connects that a clean disconnect undoes, one whose pool is open was
\* replaced by another of them.
LEMMA UndoneReplaced ==
    ASSUME IInv, LInv, FailedNotOpen, NEW d \in clean, pc[d] = "forget",
           NEW c \in ConnectsOf(callId[d]), poolState[c] = "open"
    PROVE  \E e \in ConnectsOf(callId[d]) \ {c} : pc[e] = "ok"
<1>1. TypeOK /\ Locals /\ CleanErases
  BY DEF IInv, Erased
<1>2. /\ \A e \in ConnectsOf(callId[d]) : ~ ConnectActive(e)
      /\ pools[callId[d]] = None /\ callId[d] /= None
  BY <1>1 DEF CleanErases, DisconnectActive
<1>3. c \in Connects /\ c \in Calls /\ callId[c] = callId[d]
  BY Disjoint DEF ConnectsOf
<1>4. pc[c] = "ok"
  <2>1. pc[c] \in ConnectPCs
    BY <1>1, <1>3 DEF TypeOK, PcOK
  <2>2. pc[c] \notin {"idle", "rejected"} /\ ~ ConnectActive(c) /\ pc[c] /= "failed"
    BY <1>1, <1>2, <1>3 DEF Locals, FailedNotOpen
  <2> QED
    BY <2>1, <2>2 DEF ConnectPCs, ConnectActive
<1>5. pools[callId[c]] /= c
  BY <1>2, <1>3, NoneAssumption
<1>6. PICK e \in ConnectsOf(callId[c]) \ {c} : pc[e] \in {"ensure", "ok"}
  BY <1>3, <1>4, <1>5 DEF LInv, LostOnlyByReconnect
<1> QED
  BY <1>2, <1>3, <1>6 DEF ConnectActive

\* A step of a build: it takes its pool out of the map and queries open ones only.
LEMMA UsedBuild ==
    ASSUME TypeOK, Locals, MapsOwned, Used, NEW b \in Builders,
           \/ Visit(b) \/ EndRound(b) \/ GetNode(b) \/ LookupRing(b) \/ StoreRing(b)
           \/ LookupPool(b) \/ Acquire(b) \/ QueryOk(b) \/ QueryFails(b)
           \/ Push(b) \/ Deliver(b)
           \/ HandleSnapshot(b)
           \/ b = Ticker /\ (Tick \/ HasPool)
    PROVE  Used'
<1> USE DEF server, node, build, history
<1>1. /\ UNCHANGED <<pools, poolState, connsMu, callId, retired>>
      /\ \A p \in Calls : pc'[p] = pc[p]
      /\ \A e \in Builders : e /= b => pc'[e] = pc[e]
  BY BuildFrame, Disjoint
<1>2. \A e \in Builders : bld[e].pool \in Connects \cup {None}
  BY DEF TypeOK, BuildType
<1>3. ASSUME NEW e \in Builders,
             \/ bld'[e].pool = None
             \/ bld'[e].pool = bld[e].pool
             \/ pools[bld[e].id] /= None /\ bld[e].id \in Ids /\ bld'[e].pool = pools[bld[e].id]
      PROVE  bld'[e].pool /= None => pc'[bld'[e].pool] \in {"ensure", "ok"}
  <2>1. bld'[e].pool /= None => bld'[e].pool \in Connects /\ Mapped(bld'[e].pool)
    BY <1>2, <1>3, MappedPools DEF Used
  <2> QED
    BY <1>1, <2>1, Disjoint DEF Mapped
<1>4. CASE LookupPool(b)
  <2>1. /\ \A e \in Builders : e /= b => bld'[e] = bld[e]
        /\ \/ bld'[b].pool = None
           \/ pools[bld[b].id] /= None /\ bld'[b].pool = pools[bld[b].id]
        /\ pc'[b] /= "query"
    <3>1. pc[b] = "pool" /\ bld[b] \in BuildType
      BY <1>4 DEF LookupPool, TypeOK
    <3>2. CASE pools[bld[b].id] = None
      <4>1. bld' = [bld EXCEPT ![b] = NoBuild] /\ Goto(b, "next")
        BY <1>4, <3>2 DEF LookupPool, Leave
      <4>2. pc'[b] = "next"
        BY <4>1, GotoFacts, Disjoint
      <4> QED
        BY <4>1, <4>2 DEF TypeOK, NoBuild
    <3>3. CASE pools[bld[b].id] /= None
      <4>1. /\ bld' = [bld EXCEPT ![b].pool = pools[bld[b].id],
                                  ![b].plan = Plan(bodyKind[bld[b].node])]
            /\ Goto(b, "acquire")
        BY <1>4, <3>3 DEF LookupPool
      <4>2. pc'[b] = "acquire"
        BY <4>1, GotoFacts, Disjoint
      <4>3. bld'[b].pool = pools[bld[b].id]
        BY <3>1, <4>1 DEF TypeOK, BuildType
      <4> QED
        BY <3>3, <4>1, <4>2, <4>3 DEF TypeOK
    <3> QED
      BY <3>2, <3>3
  <2>2. bld[b].id \in Ids
    BY <1>4, BuildFacts DEF LookupPool
  <2>3. \A e \in Builders : bld'[e].pool /= None => pc'[bld'[e].pool] \in {"ensure", "ok"}
    BY <1>3, <2>1, <2>2
  <2>4. \A e \in Builders : pc'[e] = "query" => e /= b /\ pc[e] = "query" /\ bld'[e] = bld[e]
    BY <1>1, <2>1
  <2> QED
    BY <1>1, <2>3, <2>4 DEF Used, Mapped
<1>5. CASE \/ Visit(b) \/ EndRound(b) \/ GetNode(b) \/ LookupRing(b) \/ StoreRing(b)
           \/ Acquire(b) \/ QueryOk(b) \/ QueryFails(b)
           \/ Push(b) \/ Deliver(b) \/ HandleSnapshot(b)
           \/ b = Ticker /\ (Tick \/ HasPool)
  <2>1. \A e \in Builders : bld'[e].pool = None \/ bld'[e].pool = bld[e].pool
    BY <1>5, BuildSame
  <2>2. \A e \in Builders : bld'[e].pool /= None => pc'[bld'[e].pool] \in {"ensure", "ok"}
    BY <1>3, <2>1
  <2>3. pc'[b] = "query" => Acquire(b)
    <3>1. CASE Acquire(b)
      BY <3>1
    <3>2. CASE \/ Visit(b) \/ EndRound(b) \/ GetNode(b) \/ LookupRing(b) \/ StoreRing(b)
               \/ QueryOk(b) \/ QueryFails(b) \/ Push(b) \/ Deliver(b) \/ HandleSnapshot(b)
               \/ b = Ticker /\ (Tick \/ HasPool)
      <4>1. PICK l \in BuildPCs \ {"query"} : Goto(b, l)
        BY <3>2 DEF Visit, EndRound, GetNode, LookupRing, StoreRing, QueryOk, QueryFails,
           Push, Deliver, HandleSnapshot, Tick, HasPool, Leave, Continue, BuildPCs
      <4> QED
        BY <4>1, GotoFacts, Disjoint
    <3> QED
      BY <1>5, <3>1, <3>2
  <2>4. \A e \in Builders : pc'[e] = "query" =>
           \/ poolState[bld[e].pool] = "open" /\ bld'[e].pool = bld[e].pool
           \/ pc[e] = "query" /\ e /= b
    BY <1>1, <2>3 DEF Acquire
  <2>5. \A e \in Builders : e /= b => bld'[e] = bld[e]
    BY <1>5 DEF Visit, EndRound, GetNode, LookupRing, StoreRing, Acquire, QueryOk, QueryFails,
       Push, Deliver, HandleSnapshot, Tick, HasPool, Leave, Continue, TypeOK
  <2> QED
    BY <1>1, <2>2, <2>4, <2>5 DEF Used, Mapped
<1> QED
  BY <1>4, <1>5

\* Every step keeps it.
LEMMA QuietStep ==
    ASSUME IInv, LInv, QInv, [Next]_vars
    PROVE  QInv'
<1> USE DEF server, node, build, history
<1>a. /\ TypeOK /\ Locals /\ Locked /\ MapsOwned /\ RetiredEnded
      /\ Used /\ FailedNotOpen /\ Replaced
  BY DEF IInv, Owned, Erased, QInv
<1>b. \A p \in Calls : pc[p] \in {"idle", "rejected"} <=> callId[p] = None
  BY <1>a DEF Locals
<1>c. connsMu /= None => connsMu \in Disconnects /\ pc[connsMu] = "drain" /\ callId[connsMu] \in Ids
  <2>1. connsMu \in Disconnects \cup {None}
    BY <1>a DEF TypeOK
  <2>2. connsMu \in Disconnects => pc[connsMu] = "drain"
    BY <1>a DEF Locked
  <2> QED
    BY <1>a, <2>1, <2>2, CallFacts, Disjoint
<1>d. connsMu /= None => callId[connsMu] /= None
  BY <1>c, NoneAssumption
<1>1. ASSUME NEW p \in Calls, Reject(p)
      PROVE  QInv'
  <2>1. \A q \in Procs : pc'[q] = IF q = p THEN "rejected" ELSE pc[q]
    BY <1>1, <1>a, GotoFacts, Disjoint DEF Reject
  <2>2. pc[p] = "idle" /\ UNCHANGED <<pools, poolState, connsMu, callId, bld, retired>>
    BY <1>1 DEF Reject
  <2>3. \A c \in Connects : Mapped(c) => Mapped(c)'
    BY <2>1, <2>2, Disjoint DEF Mapped
  <2>4. \A b \in Builders : pc'[b] = pc[b]
    BY <2>1, <2>2, Disjoint
  <2>5. Used'
    BY <1>a, <1>d, <2>2, <2>3, <2>4, UsedFrame
  <2>6. \A c \in Connects : pc'[c] = "failed" => pc[c] = "failed"
    BY <2>1, Disjoint
  <2> QED
    BY <1>a, <2>2, <2>5, <2>6, ReplacedFrame DEF QInv
<1>2. ASSUME NEW c \in Connects, NEW k \in Ids, NEW kind, Upsert(c, k, kind)
      PROVE  QInv'
  <2>1. \A q \in Procs : pc'[q] = IF q = c THEN "dial" ELSE pc[q]
    BY <1>2, <1>a, GotoFacts, Disjoint DEF Upsert
  <2>2. /\ pc[c] = "idle" /\ callId' = [callId EXCEPT ![c] = k]
        /\ UNCHANGED <<pools, poolState, connsMu, bld, retired>>
    BY <1>2 DEF Upsert
  <2>3. callId[c] = None
    BY <1>b, <2>2, Disjoint
  <2>4. \A p \in Calls : callId[p] /= None => callId'[p] = callId[p]
    BY <1>a, <2>2, <2>3 DEF TypeOK
  <2>5. \A e \in Connects : Mapped(e) => Mapped(e)'
    BY <2>1, <2>2, Disjoint DEF Mapped
  <2>6. \A b \in Builders : pc'[b] = pc[b]
    BY <2>1, Disjoint
  <2>7. Used'
    BY <1>a, <1>d, <2>2, <2>4, <2>5, <2>6, UsedFrame
  <2>8. \A e \in Connects : pc'[e] = "failed" => pc[e] = "failed"
    BY <2>1, Disjoint
  <2> QED
    BY <1>a, <2>2, <2>4, <2>7, <2>8, ReplacedFrame DEF QInv
<1>3. ASSUME NEW c \in Connects, ConnectFails(c) \/ Dial(c)
      PROVE  QInv'
  <2>1. PICK l \in {"failed", "publish"}, s \in {"none", "closed", "open"} :
           /\ Goto(c, l) /\ poolState' = [poolState EXCEPT ![c] = s]
           /\ l = "failed" => s /= "open"
    BY <1>3 DEF ConnectFails, Dial
  <2>2. pc[c] = "dial" /\ UNCHANGED <<pools, connsMu, callId, bld, retired>>
    BY <1>3 DEF ConnectFails, Dial
  <2>3. \A q \in Procs : pc'[q] = IF q = c THEN l ELSE pc[q]
    BY <1>a, <2>1, GotoFacts, Disjoint
  <2>4. \A e \in Connects : poolState'[e] = IF e = c THEN s ELSE poolState[e]
    BY <1>a, <2>1 DEF TypeOK
  <2>5. \A e \in Connects : Mapped(e) => Mapped(e)' /\ poolState'[e] = poolState[e]
    BY <2>2, <2>3, <2>4, Disjoint DEF Mapped
  <2>6. \A b \in Builders : pc'[b] = pc[b]
    BY <2>3, Disjoint
  <2>7. Used'
    BY <1>a, <1>d, <2>2, <2>5, <2>6, UsedFrame
  <2>8. \A e \in Connects : pc'[e] = "failed" => pc[e] = "failed" \/ poolState'[e] /= "open"
    BY <2>1, <2>3, <2>4, Disjoint
  <2>9. \A e \in Connects : pc[e] \in {"ok", "failed"} /\ poolState'[e] = "open" => poolState[e] = "open"
    BY <2>2, <2>4
  <2> QED
    BY <1>a, <2>2, <2>7, <2>8, <2>9, ReplacedFrame DEF QInv
<1>4. ASSUME NEW c \in Connects, EnsureRing(c)
      PROVE  QInv'
  <2>1. \A q \in Procs : pc'[q] = IF q = c THEN "ok" ELSE pc[q]
    BY <1>4, <1>a, GotoFacts, Disjoint DEF EnsureRing
  <2>2. pc[c] = "ensure" /\ UNCHANGED <<pools, poolState, connsMu, callId, bld, retired>>
    BY <1>4 DEF EnsureRing
  <2>3. \A e \in Connects : Mapped(e) => Mapped(e)'
    BY <2>1, Disjoint DEF Mapped
  <2>4. \A b \in Builders : pc'[b] = pc[b]
    BY <2>1, Disjoint
  <2>5. Used'
    BY <1>a, <1>d, <2>2, <2>3, <2>4, UsedFrame
  <2>6. \A e \in Connects : pc'[e] = "failed" => pc[e] = "failed"
    BY <2>1, Disjoint
  <2> QED
    BY <1>a, <2>2, <2>5, <2>6, ReplacedFrame DEF QInv
<1>5. ASSUME NEW c \in Connects, Publish(c)
      PROVE  QInv'
  <2>1. pc[c] = "publish" /\ connsMu = None /\ UNCHANGED <<poolState, connsMu, callId, bld, retired>>
    BY <1>5 DEF Publish
  <2>2. \A q \in Procs : pc'[q] = IF q = c THEN "ensure" ELSE pc[q]
    BY <1>5, <1>a, GotoFacts, Disjoint DEF Publish
  <2>3. \A e \in Connects : Mapped(e) => Mapped(e)'
    BY <2>2, Disjoint DEF Mapped
  <2>4. \A b \in Builders : pc'[b] = pc[b] /\ bld[b].pool \in Connects \cup {None}
    BY <1>a, <2>2, Disjoint DEF TypeOK, BuildType
  <2>5. Used'
    BY <1>a, <2>1, <2>3, <2>4 DEF Used, Mapped
  <2>6. \A e \in Connects : pc'[e] = "failed" => pc[e] = "failed"
    BY <2>2, Disjoint
  <2> QED
    BY <1>a, <2>1, <2>5, <2>6, ReplacedFrame DEF QInv
<1>6. ASSUME NEW d \in Disconnects, HandleDisconnect(d)
      PROVE  QInv'
  <2>1. \A q \in Procs : pc'[q] = IF q = d THEN "close" ELSE pc[q]
    BY <1>6, <1>a, GotoFacts, Disjoint DEF HandleDisconnect
  <2>2. /\ pc[d] = "idle" /\ UNCHANGED <<pools, poolState, connsMu, bld, retired>>
        /\ \E k \in Ids : callId' = [callId EXCEPT ![d] = k]
    BY <1>6 DEF HandleDisconnect
  <2>3. callId[d] = None
    BY <1>b, <2>2, Disjoint
  <2>4. \A p \in Calls : callId[p] /= None => callId'[p] = callId[p]
    BY <1>a, <2>2, <2>3 DEF TypeOK
  <2>5. \A c \in Connects : pc'[c] = pc[c]
    BY <2>1, Disjoint
  <2>6. \A b \in Builders : pc'[b] = pc[b]
    BY <2>1, Disjoint
  <2>7. Used'
    BY <1>a, <1>d, <2>2, <2>4, <2>5, <2>6, UsedFrame DEF Mapped
  <2> QED
    BY <1>a, <2>2, <2>4, <2>5, <2>7, ReplacedFrame DEF QInv
<1>7. ASSUME NEW d \in Disconnects, Close(d)
      PROVE  QInv'
  <2>1. PICK k \in Ids : callId[d] = k
    BY <1>7, <1>a, CallFacts, Disjoint DEF Close
  <2>2. UNCHANGED <<pools, callId, bld, retired>> /\ connsMu = None
        /\ \E l \in {"remove", "drain"} : Goto(d, l)
    BY <1>7 DEF Close
  <2>3. \A q \in Procs : q /= d => pc'[q] = pc[q]
    BY <1>a, <2>2, GotoFacts, Disjoint
  <2>4. /\ \A c \in Connects : pc'[c] = pc[c]
        /\ \A b \in Builders : pc'[b] = pc[b]
    BY <2>3, Disjoint
  <2>5. \/ UNCHANGED <<poolState, connsMu>>
        \/ connsMu' = d /\ poolState' = [poolState EXCEPT ![pools[k]] = "closed"]
    BY <1>7, <2>1 DEF Close
  <2>6. \A c \in Connects : poolState'[c] /= poolState[c] =>
            poolState'[c] = "closed" /\ c = pools[k] /\ connsMu' = d
    BY <1>a, <2>5 DEF TypeOK
  <2>7. Used'
    <3> SUFFICES ASSUME NEW b \in Builders
                 PROVE  /\ bld[b].pool /= None => pc'[bld[b].pool] \in {"ensure", "ok"}
                        /\ pc[b] = "query" =>
                              \/ poolState'[bld[b].pool] = "open"
                              \/ connsMu' /= None /\ pools[callId[connsMu']] = bld[b].pool
      BY <2>2, <2>4 DEF Used, Mapped
    <3>1. bld[b].pool \in Connects \cup {None}
      BY <1>a DEF TypeOK, BuildType
    <3>2. bld[b].pool /= None => pc'[bld[b].pool] \in {"ensure", "ok"}
      BY <1>a, <2>4, <3>1 DEF Used, Mapped
    <3>3. ASSUME pc[b] = "query"
          PROVE  \/ poolState'[bld[b].pool] = "open"
                 \/ connsMu' /= None /\ pools[callId[connsMu']] = bld[b].pool
      <4>1. poolState[bld[b].pool] = "open" /\ bld[b].pool \in Connects
        BY <1>a, <2>2, <3>1, <3>3 DEF Used, Locals, HandOK
      <4> QED
        BY <2>1, <2>6, <4>1, NoneAssumption
    <3> QED
      BY <3>2, <3>3
  <2> QED
    BY <1>a, <2>2, <2>4, <2>6, <2>7, ReplacedFrame DEF QInv
<1>8. ASSUME NEW d \in Disconnects, Drain(d)
      PROVE  QInv'
  <2>1. /\ pc[d] = "drain" /\ ~ Querying(pools[callId[d]])
        /\ UNCHANGED <<poolState, callId, bld, retired>>
    BY <1>8 DEF Drain
  <2>2. connsMu = d
    BY <1>a, <2>1 DEF Locked
  <2>3. \A q \in Procs : pc'[q] = IF q = d THEN "remove" ELSE pc[q]
    BY <1>8, <1>a, GotoFacts, Disjoint DEF Drain
  <2>4. /\ \A c \in Connects : pc'[c] = pc[c]
        /\ \A b \in Builders : pc'[b] = pc[b]
    BY <2>3, Disjoint
  <2>5. \A b \in Builders : pc[b] = "query" => poolState[bld[b].pool] = "open"
    BY <1>a, <2>1, <2>2 DEF Used, Querying
  <2>6. \A b \in Builders : bld[b].pool \in Connects \cup {None}
    BY <1>a DEF TypeOK, BuildType
  <2>7. Used'
    BY <1>a, <2>1, <2>4, <2>5, <2>6 DEF Used, Mapped
  <2> QED
    BY <1>a, <2>1, <2>4, <2>7, ReplacedFrame DEF QInv
<1>9. ASSUME NEW d \in Disconnects, Remove(d) \/ ForgetRing(d)
      PROVE  QInv'
  <2>1. UNCHANGED <<pools, poolState, connsMu, callId, bld>>
        /\ \E l \in {"forget", "done"} : Goto(d, l)
    BY <1>9 DEF Remove, ForgetRing
  <2>2. \A q \in Procs : q /= d => pc'[q] = pc[q]
    BY <1>a, <2>1, GotoFacts, Disjoint
  <2>3. /\ \A c \in Connects : pc'[c] = pc[c]
        /\ \A b \in Builders : pc'[b] = pc[b]
    BY <2>2, Disjoint
  <2>4. Used'
    BY <1>a, <1>d, <2>1, <2>3, UsedFrame DEF Mapped
  <2>5. CASE UNCHANGED retired
    BY <1>a, <2>1, <2>3, <2>4, <2>5, ReplacedFrame DEF QInv
  <2>6. CASE retired' /= retired
    <3>1. d \in clean /\ pc[d] = "forget" /\ retired' = retired \cup ConnectsOf(callId[d])
      BY <1>9, <2>6 DEF Remove, ForgetRing
    <3>2. FailedNotOpen'
      BY <1>a, <2>1, <2>3 DEF FailedNotOpen
    <3>3. retired \subseteq Connects
      BY <1>a DEF TypeOK
    <3>4. ASSUME NEW c \in retired', poolState'[c] = "open"
          PROVE  \E e \in retired' \ {c} : callId'[e] = callId'[c] /\ pc'[e] = "ok"
      <4>1. CASE c \in retired
        <5>1. PICK e \in retired \ {c} : callId[e] = callId[c] /\ pc[e] = "ok"
          BY <1>a, <2>1, <3>4, <4>1 DEF Replaced
        <5> QED
          BY <2>1, <2>3, <3>1, <3>3, <5>1
      <4>2. CASE c \in ConnectsOf(callId[d])
        <5>1. PICK e \in ConnectsOf(callId[d]) \ {c} : pc[e] = "ok"
          BY <1>a, <2>1, <3>1, <3>4, <4>2, UndoneReplaced
        <5>2. e \in Connects /\ callId[e] = callId[c]
          BY <4>2, <5>1 DEF ConnectsOf
        <5> QED
          BY <2>1, <2>3, <3>1, <5>1, <5>2
      <4> QED
        BY <3>1, <4>1, <4>2
    <3> QED
      BY <2>4, <3>2, <3>4 DEF QInv, Replaced
  <2> QED
    BY <2>5, <2>6
<1>10. ASSUME NEW b \in Builders,
            \/ Visit(b) \/ EndRound(b) \/ GetNode(b) \/ LookupRing(b) \/ StoreRing(b)
            \/ LookupPool(b) \/ Acquire(b) \/ QueryOk(b) \/ QueryFails(b)
            \/ Push(b) \/ Deliver(b)
            \/ HandleSnapshot(b)
            \/ b = Ticker /\ (Tick \/ HasPool)
      PROVE  QInv'
  <2>1. /\ UNCHANGED <<pools, poolState, connsMu, callId, retired>>
        /\ \A p \in Calls : pc'[p] = pc[p]
        /\ \A p \in Procs : p /= b => pc'[p] = pc[p]
    BY <1>10, <1>a, BuildFrame
  <2>2. \A c \in Connects : pc'[c] = pc[c]
    BY <2>1, Disjoint
  <2>3. Used'
    BY <1>10, <1>a, UsedBuild
  <2> QED
    BY <1>a, <2>1, <2>2, <2>3, ReplacedFrame DEF QInv
<1>11. CASE UNCHANGED vars
  BY <1>11 DEF vars, QInv, Used, FailedNotOpen, Replaced, Mapped
<1> QED
  BY <1>1, <1>2, <1>3, <1>4, <1>5, <1>6, <1>7, <1>8, <1>9, <1>10, <1>11, NextCases
-----------------------------------------------------------------------------
(***************************************************************************)
(* The theorems.                                                           *)
(***************************************************************************)

\* The invariants of this module beside that of ManagerProofs.
THEOREM ServedInvariance == Spec => [](IInv /\ SInv /\ LInv /\ QInv)
<1>1. Init => IInv /\ SInv /\ LInv /\ QInv
  BY InitIInv, InitServed, InitLost, InitQuiet
<1>2. IInv /\ SInv /\ LInv /\ QInv /\ [Next]_vars => (IInv /\ SInv /\ LInv /\ QInv)'
  BY StepIInv, SInvStep, LostStep, QuietStep
<1> QED
  BY <1>1, <1>2, PTL DEF Spec

\* HandleConnect: an answered connect keeps its id in all three maps until a
\* disconnect, whatever other connects of the id and builds do.
THEOREM Served == Spec => []ConnectedIsServed
<1>1. IInv /\ SInv => ConnectedIsServed
  <2> SUFFICES ASSUME IInv, SInv, NEW c \in Connects, pc[c] = "ok", c \notin retired,
                      callId[c] \notin raced,
                      \A d \in DisconnectsOf(callId[c]) : ~ DisconnectActive(d)
               PROVE  reg[callId[c]] /= None /\ pools[callId[c]] /= None /\ rings[callId[c]] /= None
    BY DEF ConnectedIsServed
  <2>1. callId[c] \in Ids
    BY CallFacts, Disjoint DEF IInv
  <2>2. ~ Busy(callId[c])
    BY DEF Busy
  <2>3. Kept(callId[c]) /\ c \in ConnectsOf(callId[c]) \ retired
    BY <2>1, <2>2 DEF SInv, ServedAt, ConnectsOf
  <2> QED
    BY <2>3 DEF Kept
<1> QED
  BY <1>1, ServedInvariance, PTL

\* A pool the ticker can reach belongs to a registered node, unless a connect and
\* a disconnect of the id overlapped.
THEOREM NoOrphans == Spec => []NoOrphanPool
<1>1. IInv /\ SInv => NoOrphanPool
  <2> SUFFICES ASSUME IInv, SInv, NEW i \in Ids \ raced, pools[i] /= None,
                      \A d \in DisconnectsOf(i) : ~ DisconnectActive(d)
               PROVE  reg[i] /= None
    BY DEF NoOrphanPool
  <2>1. pools[i] \in Connects /\ callId[pools[i]] = i /\ pools[i] \notin retired
    <3>1. TypeOK /\ MapsOwned
      BY DEF IInv, Owned
    <3>2. pools[i] \notin retired
      BY DEF IInv, Erased, DisconnectForgets
    <3> QED
      BY <3>1, <3>2, MappedPools
  <2>2. Kept(i)
    BY DEF SInv, ServedAt, Busy
  <2> QED
    BY <2>1, <2>2 DEF Kept, ConnectsOf
<1> QED
  BY <1>1, ServedInvariance, PTL

\* Conns: an open pool is out of the map only after another connect of its id.
THEOREM LostOnly == Spec => []LostOnlyByReconnect
<1>1. LInv => LostOnlyByReconnect
  BY DEF LInv
<1> QED
  BY <1>1, ServedInvariance, PTL

\* HandleDisconnect: after it no query runs on a pool it undid, but on one that another
\* connect of the id had replaced.
THEOREM Quiet == Spec => []QuietAfterDisconnect
<1>1. IInv /\ QInv => QuietAfterDisconnect
  <2> SUFFICES ASSUME IInv, QInv, NEW b \in Builders, pc[b] = "query", bld[b].pool \in retired
               PROVE  \E e \in retired \ {bld[b].pool} :
                         callId[e] = callId[bld[b].pool] /\ pc[e] = "ok"
    BY DEF QuietAfterDisconnect
  <2>1. poolState[bld[b].pool] = "open"
    <3>1. TypeOK /\ Locals /\ Locked /\ DisconnectForgets
      BY DEF IInv, Erased
    <3>2. connsMu /= None => connsMu \in Disconnects /\ pc[connsMu] = "drain"
      BY <3>1 DEF TypeOK, Locked
    <3>3. connsMu /= None => callId[connsMu] \in Ids
      BY <3>1, <3>2, CallFacts, Disjoint
    <3>4. connsMu /= None => pools[callId[connsMu]] \notin retired
      BY <3>1, <3>3 DEF DisconnectForgets
    <3> QED
      BY <3>4 DEF QInv, Used
  <2> QED
    BY <2>1 DEF QInv, Replaced
<1> QED
  BY <1>1, ServedInvariance, PTL
=============================================================================
