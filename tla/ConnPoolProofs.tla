--------------------------- MODULE ConnPoolProofs ---------------------------
(***************************************************************************)
(* Proofs about ConnPool, for any finite set of requests, any number of    *)
(* connections and any length of a build.                                  *)
(*                                                                         *)
(* The three invariants need two more facts: a build that has looked its   *)
(* pool up has a query left until it ends, and a pool that Conns.Close has *)
(* begun to close is closed.                                               *)
(***************************************************************************)
EXTENDS ConnPool, FiniteSetTheorems, TLAPS

QueryLeft  == \A b \in Builders : pc[b] \notin {"idle", "lookup"} => left[b] > 0
ShutOnce   == closer /= "idle" => closed
IInv       == TypeOK /\ QueryLeft /\ ShutOnce /\ PermitsBalance /\ ClosedIsQuiet

\* The variables' own types; that free is at most MaxConns follows from the balance.
Typed ==
    /\ pc \in [Builders -> PCs]
    /\ diffs \in [Builders -> 0..MaxDiffs]
    /\ left \in [Builders -> 0..Queries]
    /\ gone \subseteq Requests
    /\ free \in Nat
    /\ closed \in BOOLEAN /\ mapped \in BOOLEAN
    /\ closer \in {"idle", "closing", "done"}
    /\ \A b \in Builders : diffs[b] > 0 => pc[b] \in {"rows", "nested", "diff"}

LEMMA HoldersFinite ==
    /\ IsFiniteSet(HoldsOne) /\ IsFiniteSet(HoldsTwo)
    /\ Cardinality(HoldsOne) \in Nat /\ Cardinality(HoldsTwo) \in Nat
<1>1. IsFiniteSet(Builders)
  BY RequestsAssumption, FS_AddElement DEF Builders
<1>2. HoldsOne \subseteq Builders /\ HoldsTwo \subseteq Builders
  BY DEF HoldsOne, HoldsTwo
<1> QED
  BY <1>1, <1>2, FS_Subset, FS_CardinalityType

LEMMA FreeIsBounded == Typed /\ PermitsBalance => TypeOK
<1> SUFFICES ASSUME Typed, PermitsBalance PROVE TypeOK
  OBVIOUS
<1>1. free \in 0..MaxConns
  BY HoldersFinite, PoolAssumption DEF Typed, PermitsBalance
<1> QED
  BY <1>1 DEF Typed, TypeOK

\* No step of a build changes the holders but by the build itself.
LEMMA HoldersMove ==
    ASSUME Typed, NEW b \in Builders, NEW l \in PCs, Goto(b, l)
    PROVE  /\ HoldsOne' = IF l \in {"rows", "nested", "query"}
                          THEN HoldsOne \cup {b} ELSE HoldsOne \ {b}
           /\ HoldsTwo' = IF l = "diff" THEN HoldsTwo \cup {b} ELSE HoldsTwo \ {b}
<1>1. \A e \in Builders : pc'[e] = IF e = b THEN l ELSE pc[e]
  BY DEF Typed, Goto
<1>2. HoldsOne' = {e \in Builders : pc'[e] \in {"rows", "nested", "query"}}
  BY DEF HoldsOne
<1>3. HoldsTwo' = {e \in Builders : pc'[e] = "diff"}
  BY DEF HoldsTwo
<1>4. HoldsOne' = IF l \in {"rows", "nested", "query"} THEN HoldsOne \cup {b}
                                                       ELSE HoldsOne \ {b}
  BY <1>1, <1>2 DEF HoldsOne
<1>5. HoldsTwo' = IF l = "diff" THEN HoldsTwo \cup {b} ELSE HoldsTwo \ {b}
  BY <1>1, <1>3 DEF HoldsTwo
<1> QED
  BY <1>4, <1>5

LEMMA CountMoves ==
    ASSUME NEW S, NEW T, NEW x, IsFiniteSet(S), NEW in \in BOOLEAN,
           T = IF in THEN S \cup {x} ELSE S \ {x}
    PROVE  Cardinality(T) = Cardinality(S) + (IF in THEN 1 ELSE 0)
                                           - (IF x \in S THEN 1 ELSE 0)
<1>1. Cardinality(S) \in Nat
  BY FS_CardinalityType
<1>2. CASE in
  <2>1. T = S \cup {x}
    BY <1>2
  <2>2. Cardinality(T) = IF x \in S THEN Cardinality(S) ELSE Cardinality(S) + 1
    BY <2>1, FS_AddElement
  <2> QED
    BY <1>1, <1>2, <2>2
<1>3. CASE ~in
  <2>1. T = S \ {x}
    BY <1>3
  <2>2. Cardinality(T) = IF x \in S THEN Cardinality(S) - 1 ELSE Cardinality(S)
    BY <2>1, FS_RemoveElement
  <2> QED
    BY <1>1, <1>3, <2>2
<1> QED
  BY <1>2, <1>3

\* What a build that is somewhere else in its program has in hand.
Held(l) == IF l \in {"rows", "nested", "query"} THEN 1 ELSE IF l = "diff" THEN 2 ELSE 0

\* The balance is kept by a step that takes from the pool what it adds to the build.
LEMMA Balanced ==
    ASSUME Typed, PermitsBalance, NEW b \in Builders, NEW l \in PCs, Goto(b, l),
           free' = free + Held(pc[b]) - Held(l)
    PROVE  PermitsBalance'
<1> DEFINE One == {"rows", "nested", "query"}
<1>1. /\ HoldsOne' = IF l \in One THEN HoldsOne \cup {b} ELSE HoldsOne \ {b}
      /\ HoldsTwo' = IF l = "diff" THEN HoldsTwo \cup {b} ELSE HoldsTwo \ {b}
  BY HoldersMove
<1>2. (b \in HoldsOne <=> pc[b] \in One) /\ (b \in HoldsTwo <=> pc[b] = "diff")
  BY DEF HoldsOne, HoldsTwo
<1>3. Cardinality(HoldsOne') = Cardinality(HoldsOne)
        + (IF l \in One THEN 1 ELSE 0) - (IF pc[b] \in One THEN 1 ELSE 0)
  <2>1. Cardinality(HoldsOne') = Cardinality(HoldsOne)
          + (IF l \in One THEN 1 ELSE 0) - (IF b \in HoldsOne THEN 1 ELSE 0)
    BY <1>1, HoldersFinite, CountMoves
  <2> QED
    BY <1>2, <2>1
<1>4. Cardinality(HoldsTwo') = Cardinality(HoldsTwo)
        + (IF l = "diff" THEN 1 ELSE 0) - (IF pc[b] = "diff" THEN 1 ELSE 0)
  <2>1. Cardinality(HoldsTwo') = Cardinality(HoldsTwo)
          + (IF l = "diff" THEN 1 ELSE 0) - (IF b \in HoldsTwo THEN 1 ELSE 0)
    BY <1>1, HoldersFinite, CountMoves
  <2> QED
    BY <1>2, <2>1
<1>5. Held(l) = (IF l \in One THEN 1 ELSE 0) + 2 * (IF l = "diff" THEN 1 ELSE 0)
  BY DEF Held
<1>6. Held(pc[b]) = (IF pc[b] \in One THEN 1 ELSE 0) + 2 * (IF pc[b] = "diff" THEN 1 ELSE 0)
  BY DEF Held
<1>7. free + Cardinality(HoldsOne) + 2 * Cardinality(HoldsTwo) = MaxConns /\ free \in Nat
  BY DEF PermitsBalance, Typed
<1> HIDE DEF One
<1>8. free' + Cardinality(HoldsOne') + 2 * Cardinality(HoldsTwo') = MaxConns
  BY <1>3, <1>4, <1>5, <1>6, <1>7, HoldersFinite, PoolAssumption
<1> QED
  BY <1>8 DEF PermitsBalance, HoldsOne, HoldsTwo
-----------------------------------------------------------------------------
LEMMA InitInvariant == Init => IInv
<1> SUFFICES ASSUME Init PROVE IInv
  OBVIOUS
<1>1. Typed
  <2>1. /\ pc \in [Builders -> PCs] /\ diffs \in [Builders -> 0..MaxDiffs]
        /\ left \in [Builders -> 0..Queries] /\ free \in Nat /\ gone \subseteq Requests
    BY PoolAssumption, BoundAssumption DEF Init, PCs
  <2>2. \A b \in Builders : ~(diffs[b] > 0)
    BY DEF Init
  <2> QED
    BY <2>1, <2>2 DEF Init, Typed
<1>4. QueryLeft /\ ShutOnce /\ ClosedIsQuiet
  BY DEF Init, QueryLeft, ShutOnce, ClosedIsQuiet
<1>2. HoldsOne = {} /\ HoldsTwo = {}
  BY DEF Init, HoldsOne, HoldsTwo
<1>3. PermitsBalance
  BY <1>2, FS_EmptySet, PoolAssumption DEF Init, PermitsBalance
<1> QED
  BY <1>1, <1>3, <1>4, FreeIsBounded DEF IInv
-----------------------------------------------------------------------------
\* What is left of the invariant when a build has moved from where it was to l.
LEMMA BuildMoves ==
    ASSUME IInv, NEW b \in Builders, NEW l \in PCs, Goto(b, l),
           diffs' \in [Builders -> 0..MaxDiffs], left' \in [Builders -> 0..Queries],
           \A e \in Builders \ {b} : diffs'[e] = diffs[e] /\ left'[e] = left[e],
           diffs'[b] > 0 => l \in {"rows", "nested", "diff"},
           l \notin {"idle", "lookup"} => left'[b] > 0,
           gone' \subseteq Requests,
           free' \in Nat, free' = free + Held(pc[b]) - Held(l),
           Held(l) > Held(pc[b]) => ~closed,
           UNCHANGED <<closed, mapped, closer>>
    PROVE  IInv'
<1>0. Typed /\ QueryLeft /\ ShutOnce /\ PermitsBalance /\ ClosedIsQuiet
  BY DEF IInv, TypeOK, Typed
<1>1. pc' \in [Builders -> PCs] /\ \A e \in Builders : pc'[e] = IF e = b THEN l ELSE pc[e]
  BY <1>0 DEF Typed, Goto
<1>2. Typed'
  <2>1. \A e \in Builders : diffs'[e] > 0 => pc'[e] \in {"rows", "nested", "diff"}
    BY <1>0, <1>1 DEF Typed
  <2> QED
    BY <1>0, <1>1, <2>1 DEF Typed
<1>3. PermitsBalance'
  BY <1>0, Balanced
<1>4. QueryLeft'
  BY <1>0, <1>1 DEF QueryLeft
<1>5. ShutOnce'
  BY <1>0 DEF ShutOnce
<1>6. ClosedIsQuiet'
  <2> SUFFICES ASSUME closer' = "done" PROVE (HoldsOne \cup HoldsTwo)' = {}
    BY DEF ClosedIsQuiet
  <2>1. closed /\ HoldsOne = {} /\ HoldsTwo = {}
    BY <1>0 DEF ShutOnce, ClosedIsQuiet
  <2>2. pc[b] \notin {"rows", "nested", "query", "diff"}
    BY <2>1 DEF HoldsOne, HoldsTwo
  <2>3. l \notin {"rows", "nested", "query", "diff"}
    BY <2>1, <2>2 DEF Held
  <2>4. HoldsOne' = {} /\ HoldsTwo' = {}
    BY <1>0, <2>1, <2>3, HoldersMove
  <2> QED
    BY <2>4
<1>7. TypeOK'
  BY <1>2, <1>3, FreeIsBounded, PTL
<1> QED
  BY <1>3, <1>4, <1>5, <1>6, <1>7 DEF IInv

LEMMA StepInvariant == IInv /\ [Next]_vars => IInv'
<1> SUFFICES ASSUME IInv, [Next]_vars PROVE IInv'
  OBVIOUS
<1> USE BoundAssumption DEF pool
<1>0. Typed /\ QueryLeft /\ ShutOnce /\ PermitsBalance /\ ClosedIsQuiet
  BY DEF IInv, TypeOK, Typed
<1>1. ASSUME NEW b \in Builders, Start(b) PROVE IInv'
  <2>1. diffs[b] = 0 \/ ~(diffs[b] > 0)
    BY <1>1, <1>0 DEF Start, Typed
  <2> QED
    BY <1>1, <1>0, <2>1, BuildMoves DEF Start, Typed, PCs, Held
<1>2. ASSUME NEW b \in Builders, Lookup(b) PROVE IInv'
  <2>1. ~(diffs[b] > 0)
    BY <1>2, <1>0 DEF Lookup, Typed
  <2>2. CASE mapped
    BY <1>2, <1>0, <2>1, <2>2, BuildMoves DEF Lookup, Typed, PCs, Held
  <2>3. CASE ~mapped
    BY <1>2, <1>0, <2>1, <2>3, BuildMoves DEF Lookup, Typed, PCs, Held
  <2> QED
    BY <2>2, <2>3
<1>3. ASSUME NEW b \in Builders, Acquire(b) PROVE IInv'
  <2>0. left[b] > 0 /\ free - 1 \in Nat
    BY <1>3, <1>0 DEF Acquire, Waiting, QueryLeft, Typed
  <2>1. CASE pc[b] = "subscriptions"
    BY <1>3, <1>0, <2>0, <2>1, BuildMoves DEF Acquire, Typed, PCs, Held
  <2>2. CASE pc[b] = "nested"
    BY <1>3, <1>0, <2>0, <2>2, BuildMoves DEF Acquire, Typed, PCs, Held
  <2>3. CASE pc[b] = "next"
    <3>1. ~(diffs[b] > 0)
      BY <2>3, <1>0 DEF Typed
    <3> QED
      BY <1>3, <1>0, <2>0, <2>3, <3>1, BuildMoves DEF Acquire, Typed, PCs, Held
  <2> QED
    BY <1>3, <2>1, <2>2, <2>3 DEF Acquire, Waiting
<1>4. ASSUME NEW b \in Builders, AcquireFails(b) PROVE IInv'
  <2>0. left[b] > 0
    BY <1>4, <1>0 DEF AcquireFails, Waiting, QueryLeft
  <2>1. CASE pc[b] = "nested"
    BY <1>4, <1>0, <2>0, <2>1, BuildMoves DEF AcquireFails, Typed, PCs, Held
  <2>2. CASE pc[b] /= "nested" /\ Goto(b, "idle") /\ UNCHANGED left
    <3>1. ~(diffs[b] > 0)
      BY <1>4, <2>2, <1>0 DEF AcquireFails, Waiting, Typed
    <3>2. Held(pc[b]) = 0
      BY <1>4, <2>2 DEF AcquireFails, Waiting, Held
    <3> QED
      BY <1>4, <1>0, <2>0, <2>2, <3>1, <3>2, BuildMoves DEF AcquireFails, Typed, PCs, Held
  <2>3. CASE pc[b] = "next" /\ left[b] > 1 /\ left' = [left EXCEPT ![b] = @ - 1] /\ UNCHANGED pc
    <3>1. ~(diffs[b] > 0)
      BY <2>3, <1>0 DEF Typed
    <3>2. Goto(b, "next")
      BY <2>3, <1>0 DEF Goto, Typed
    <3>3. left[b] - 1 \in 0..Queries /\ left[b] - 1 > 0
      BY <2>3, <1>0 DEF Typed
    <3> QED
      BY <1>4, <1>0, <2>0, <2>3, <3>1, <3>2, <3>3, BuildMoves DEF AcquireFails, Typed, PCs, Held
  <2> QED
    BY <1>4, <2>1, <2>2, <2>3 DEF AcquireFails
<1>5. ASSUME NEW b \in Builders, NextDiff(b) PROVE IInv'
  <2>0. left[b] > 0 /\ diffs[b] - 1 \in 0..MaxDiffs
    BY <1>5, <1>0 DEF NextDiff, QueryLeft, Typed
  <2> QED
    BY <1>5, <1>0, <2>0, BuildMoves DEF NextDiff, Typed, PCs, Held
<1>6. ASSUME NEW b \in Builders, DiffReturns(b) PROVE IInv'
  <2>0. left[b] > 0 /\ free + 1 \in Nat
    BY <1>6, <1>0 DEF DiffReturns, QueryLeft, Typed
  <2> QED
    BY <1>6, <1>0, <2>0, BuildMoves DEF DiffReturns, Typed, PCs, Held
<1>7. ASSUME NEW b \in Builders, RowsEnd(b) PROVE IInv'
  <2>0. left[b] > 0 /\ free + 1 \in Nat
    BY <1>7, <1>0 DEF RowsEnd, QueryLeft, Typed
  <2>1. diffs' \in [Builders -> 0..MaxDiffs] /\ ~(diffs'[b] > 0)
    BY <1>7, <1>0 DEF RowsEnd, Typed
  <2>2. \A l \in {"next", "idle"} : Goto(b, l) => IInv'
    BY <1>7, <1>0, <2>0, <2>1, BuildMoves DEF RowsEnd, Typed, PCs, Held
  <2> QED
    BY <1>7, <2>2 DEF RowsEnd
<1>8. ASSUME NEW b \in Builders, QueryReturns(b) PROVE IInv'
  <2>0. left[b] > 0 /\ free + 1 \in Nat /\ ~(diffs[b] > 0)
    BY <1>8, <1>0 DEF QueryReturns, QueryLeft, Typed
  <2>1. left' \in [Builders -> 0..Queries] /\ left'[b] = left[b] - 1
        /\ \A e \in Builders \ {b} : left'[e] = left[e]
    BY <1>8, <1>0, <2>0 DEF QueryReturns, Typed
  <2>2. CASE Goto(b, "idle")
    BY <1>8, <1>0, <2>0, <2>1, <2>2, BuildMoves DEF QueryReturns, Typed, PCs, Held
  <2>3. CASE Goto(b, "next") /\ left[b] > 1
    <3>1. left'[b] > 0
      BY <1>0, <2>1, <2>3 DEF Typed
    <3> QED
      BY <1>8, <1>0, <2>0, <2>1, <2>3, <3>1, BuildMoves DEF QueryReturns, Typed, PCs, Held
  <2> QED
    BY <1>8, <2>2, <2>3 DEF QueryReturns
<1>9. ASSUME NEW b \in Builders, Cancel(b) PROVE IInv'
  <2>1. gone' \subseteq Requests
    BY <1>9, <1>0 DEF Cancel, Typed
  <2> QED
    BY <1>9, <2>1 DEF Cancel, IInv, TypeOK, QueryLeft, ShutOnce, PermitsBalance,
                      ClosedIsQuiet, HoldsOne, HoldsTwo
<1>10. ASSUME Close PROVE IInv'
  <2>1. closer' = "closing" /\ closed' = TRUE
    BY <1>10 DEF Close
  <2> QED
    BY <1>10, <2>1 DEF Close, IInv, TypeOK, QueryLeft, ShutOnce, PermitsBalance,
                       ClosedIsQuiet, HoldsOne, HoldsTwo
<1>11. ASSUME Drain PROVE IInv'
  <2>1. Cardinality(HoldsOne) = 0 /\ Cardinality(HoldsTwo) = 0
    BY <1>11, <1>0, HoldersFinite, PoolAssumption DEF Drain, PermitsBalance, Typed
  <2>2. HoldsOne = {} /\ HoldsTwo = {}
    BY <2>1, HoldersFinite, FS_EmptySet
  <2>3. closed
    BY <1>11, <1>0 DEF Drain, ShutOnce
  <2> QED
    BY <1>11, <2>2, <2>3 DEF Drain, IInv, TypeOK, QueryLeft, ShutOnce, PermitsBalance,
                             ClosedIsQuiet, HoldsOne, HoldsTwo
<1>12. ASSUME UNCHANGED vars PROVE IInv'
  BY <1>12 DEF vars, IInv, TypeOK, QueryLeft, ShutOnce, PermitsBalance, ClosedIsQuiet,
               HoldsOne, HoldsTwo
<1> QED
  BY <1>1, <1>2, <1>3, <1>4, <1>5, <1>6, <1>7, <1>8, <1>9, <1>10, <1>11, <1>12
     DEF Next, BuildStep
-----------------------------------------------------------------------------
\* The inductive invariant.
THEOREM ConnPool_Invariance == Spec => []IInv
BY InitInvariant, StepInvariant, PTL DEF Spec

\* Types: of builds, of the pool and of Conns.Close; no more permits than connections.
THEOREM ConnPool_Type == Spec => []TypeOK
<1>1. IInv => TypeOK
  BY DEF IInv
<1> QED
  BY <1>1, ConnPool_Invariance, PTL

\* However many builds there are, and in whatever order their queries end, fail or are
\* cancelled, no connection is lost and none given back twice (queries.go:55).
THEOREM ConnPool_PermitsBalance == Spec => []PermitsBalance
<1>1. IInv => PermitsBalance
  BY DEF IInv
<1> QED
  BY <1>1, ConnPool_Invariance, PTL

\* When Conns.Close has returned, no query of the node runs any more (conns.go:96).
THEOREM ConnPool_ClosedIsQuiet == Spec => []ClosedIsQuiet
<1>1. IInv => ClosedIsQuiet
  BY DEF IInv
<1> QED
  BY <1>1, ConnPool_Invariance, PTL

\* In a wedge each connection is kept by a build of its own, and only one of them can be
\* the ticker's: all others have a browser.  With the code's two connections no node
\* wedges without a snapshot request.
THEOREM ConnPool_WedgeHasRequests ==
    Spec => [](Wedged => Cardinality({b \in Requests : pc[b] = "nested"}) >= MaxConns - 1)
<1> DEFINE InIt == {b \in Requests : pc[b] = "nested"}
<1>1. IInv => (Wedged => Cardinality(InIt) >= MaxConns - 1)
  <2> SUFFICES ASSUME IInv, Wedged PROVE Cardinality(InIt) >= MaxConns - 1
    OBVIOUS
  <2>1. HoldsTwo = {} /\ HoldsOne \subseteq InIt \cup {Ticker}
    BY DEF Wedged, HoldsOne, HoldsTwo, Builders
  <2>2. Cardinality(HoldsOne) = MaxConns
    <3>1. free + Cardinality(HoldsOne) + 2 * Cardinality(HoldsTwo) = MaxConns /\ free = 0
      BY DEF IInv, PermitsBalance, Wedged
    <3> QED
      BY <2>1, <3>1, FS_EmptySet, HoldersFinite, PoolAssumption
  <2>3. IsFiniteSet(InIt)
    BY RequestsAssumption, FS_Subset
  <2> HIDE DEF InIt
  <2>4. /\ IsFiniteSet(InIt \cup {Ticker}) /\ Cardinality(InIt) \in Nat
        /\ Cardinality(InIt \cup {Ticker}) <= Cardinality(InIt) + 1
    BY <2>3, FS_AddElement, FS_CardinalityType
  <2>5. Cardinality(HoldsOne) <= Cardinality(InIt \cup {Ticker})
    BY <2>1, <2>4, FS_Subset
  <2>6. Cardinality(InIt \cup {Ticker}) \in Nat
    BY <2>4, FS_CardinalityType
  <2> QED
    BY <2>2, <2>4, <2>5, <2>6, PoolAssumption
<1> QED
  BY <1>1, ConnPool_Invariance, PTL

\* Nothing frees a wedge but the browser of a request in it that goes away: no build in
\* it gets on, no connection comes back, and Conns.Close does not end.
WedgeLasts ==
    Wedged => /\ free' = free
              /\ \A b \in Builders : pc[b] = "nested" => pc'[b] = "nested"
              /\ closer = "closing" => closer' = "closing"
              /\ Wedged' \/ \E b \in Requests : pc[b] = "nested" /\ b \in gone' \ gone

THEOREM ConnPool_WedgeLasts == Spec => [][WedgeLasts]_vars
<1>1. IInv /\ [Next]_vars => [WedgeLasts]_vars
  <2> SUFFICES ASSUME IInv, Next, Wedged
               PROVE  /\ free' = free
                      /\ \A b \in Builders : pc[b] = "nested" => pc'[b] = "nested"
                      /\ closer = "closing" => closer' = "closing"
                      /\ Wedged' \/ \E b \in Requests : pc[b] = "nested" /\ b \in gone' \ gone
    BY DEF WedgeLasts
  <2> DEFINE Stays(b) == /\ free' = free
                         /\ \A e \in Builders : pc[e] = "nested" => pc'[e] = "nested"
                         /\ \A e \in Builders : e /= b => pc'[e] = pc[e]
                         /\ pc'[b] \notin {"rows", "diff", "query"}
                         /\ pc'[b] = "nested" => pc[b] = "nested"
                         /\ closer' = closer
  <2>1. /\ free = 0 /\ pc \in [Builders -> PCs] /\ Requests \subseteq Builders
        /\ \A b \in Builders : /\ pc[b] \notin {"rows", "diff", "query"}
                               /\ pc[b] = "nested" => b \notin gone
    BY DEF IInv, TypeOK, Wedged, HoldsOne, HoldsTwo, Builders
  <2>2. ASSUME NEW b \in Builders, Stays(b), \A e \in Builders : pc[e] = "nested" => e \notin gone'
        PROVE  Wedged'
    <3>1. \A e \in Builders : pc'[e] \notin {"rows", "diff", "query"}
                              /\ (pc'[e] = "nested" => e \notin gone')
      BY <2>1, <2>2
    <3> QED
      BY <2>1, <2>2, <3>1 DEF Wedged, HoldsOne, HoldsTwo
  <2>3. ASSUME NEW b \in Builders, Start(b) \/ Lookup(b) \/ AcquireFails(b)
        PROVE  Stays(b) /\ gone' \subseteq gone
    <3>1. CASE Start(b)
      BY <2>1, <3>1 DEF Start, Goto, pool
    <3>2. CASE Lookup(b)
      BY <2>1, <3>2 DEF Lookup, Goto, pool
    <3>3. CASE AcquireFails(b)
      <4>1. b \in gone /\ pc[b] /= "nested" /\ free' = free /\ gone' = gone /\ closer' = closer
        BY <2>1, <3>3 DEF AcquireFails, pool
      <4>2. pc' = [pc EXCEPT ![b] = "idle"] \/ pc' = pc
        BY <3>3, <4>1 DEF AcquireFails, Goto
      <4> QED
        BY <2>1, <4>1, <4>2
    <3> QED
      BY <2>3, <3>1, <3>2, <3>3
  <2>4. ASSUME NEW b \in Builders,
               Acquire(b) \/ NextDiff(b) \/ DiffReturns(b) \/ RowsEnd(b) \/ QueryReturns(b)
        PROVE  FALSE
    BY <2>1, <2>4 DEF Acquire, NextDiff, DiffReturns, RowsEnd, QueryReturns
  <2>5. ~ Drain
    BY <2>1, PoolAssumption DEF Drain
  <2>6. ASSUME NEW b \in Builders, Cancel(b)
        PROVE  Stays(b) /\ gone' = gone \cup {b} /\ b \in Requests \ gone
    BY <2>1, <2>6 DEF Cancel, pool
  <2>7. CASE Close
    BY <2>1, <2>7 DEF Close, Wedged, HoldsOne, HoldsTwo
  <2>8. CASE \E b \in Builders : Start(b) \/ Lookup(b) \/ AcquireFails(b)
    <3>1. PICK b \in Builders : Stays(b) /\ gone' \subseteq gone
      BY <2>3, <2>8
    <3>2. Wedged'
      BY <2>1, <2>2, <3>1
    <3> QED
      BY <3>1, <3>2
  <2>9. CASE \E b \in Builders : Cancel(b)
    <3>1. PICK b \in Builders : Stays(b) /\ gone' = gone \cup {b} /\ b \in Requests \ gone
      BY <2>6, <2>9
    <3>2. CASE pc[b] = "nested"
      BY <3>1, <3>2
    <3>3. CASE pc[b] /= "nested"
      <4>1. Wedged'
        BY <2>1, <2>2, <3>1, <3>3
      <4> QED
        BY <3>1, <4>1
    <3> QED
      BY <3>2, <3>3
  <2> QED
    BY <2>4, <2>5, <2>7, <2>8, <2>9 DEF Next, BuildStep
<1> QED
  BY <1>1, ConnPool_Invariance, PTL DEF Spec

\* What it takes to rule the wedge out: a pool with a connection more than the node has
\* builds.  The code's two are enough for the ticker alone.
THEOREM ConnPool_EnoughConnections ==
    Spec => [](Cardinality(Builders) < MaxConns => ~Wedged)
<1>1. IInv => (Cardinality(Builders) < MaxConns => ~Wedged)
  <2> SUFFICES ASSUME IInv, Cardinality(Builders) < MaxConns, Wedged PROVE FALSE
    OBVIOUS
  <2>1. HoldsTwo = {}
    BY DEF Wedged, HoldsTwo
  <2>2. free + Cardinality(HoldsOne) + 2 * Cardinality(HoldsTwo) = MaxConns /\ free = 0
    BY DEF IInv, PermitsBalance, Wedged
  <2>3. Cardinality(HoldsTwo) = 0
    BY <2>1, FS_EmptySet
  <2>4. Cardinality(HoldsOne) <= Cardinality(Builders) /\ Cardinality(Builders) \in Nat
    <3>1. IsFiniteSet(Builders) /\ HoldsOne \subseteq Builders
      BY RequestsAssumption, FS_AddElement DEF Builders, HoldsOne
    <3> QED
      BY <3>1, FS_Subset, FS_CardinalityType
  <2> QED
    BY <2>2, <2>3, <2>4, HoldersFinite, PoolAssumption
<1> QED
  BY <1>1, ConnPool_Invariance, PTL
=============================================================================
