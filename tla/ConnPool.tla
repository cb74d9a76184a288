------------------------------ MODULE ConnPool ------------------------------
(***************************************************************************)
(* The builds of one node and the two connections of its pool.             *)
(*                                                                         *)
(* querySubscriptions keeps the connection of its rows while lsnDiff takes *)
(* a second one for each pair of LSNs in a row; every other query of a     *)
(* build takes one connection and gives it back.  Conns.Close holds        *)
(* Conns.mu until the pool has all its connections back.                   *)
(*                                                                         *)
(* The pool is external (pgxpool over puddle): a semaphore with one permit *)
(* for each connection.  Close marks the pool closed and does not wake who *)
(* waits for a permit; they notice once they have one, or when the context *)
(* they wait with is cancelled.                                            *)
(***************************************************************************)
EXTENDS Naturals, FiniteSets

CONSTANTS
    Requests,   \* goroutines serving POST /api/v1/snapshot
    Ticker,     \* the goroutine of runTicker
    MaxConns,   \* connections of the pool: 2 in the code
    MaxDiffs,   \* bound: lsnDiff calls of a build
    Queries     \* bound: queries after the subscriptions, 4 and one SHOW for a
                \* logical node

ASSUME PoolAssumption == MaxConns \in Nat \ {0}
ASSUME BoundAssumption == MaxDiffs \in Nat /\ Queries \in Nat \ {0}
ASSUME TickerAssumption == Ticker \notin Requests
ASSUME RequestsAssumption == IsFiniteSet(Requests)

Builders == Requests \cup {Ticker}

VARIABLES
    pc,         \* where each build is
    diffs,      \* lsnDiff calls the build's remaining rows ask for
    left,       \* queries of the build after the current one
    gone,       \* requests whose context is cancelled
    free,       \* permits of the pool
    closed,     \* the pool refuses to give connections
    mapped,     \* Conns.pools has the pool
    closer      \* Conns.Close: "idle", "closing" (with Conns.mu) or "done"

pool == <<free, closed>>
vars == <<pc, diffs, left, gone, pool, mapped, closer>>

Goto(b, l) == pc' = [pc EXCEPT ![b] = l]

Init ==
    /\ pc = [b \in Builders |-> "idle"]
    /\ diffs = [b \in Builders |-> 0]
    /\ left = [b \in Builders |-> 0]
    /\ gone = {}
    /\ free = MaxConns
    /\ closed = FALSE
    /\ mapped = TRUE
    /\ closer = "idle"
-----------------------------------------------------------------------------
(***************************************************************************)
(* A build.                                                                *)
(***************************************************************************)
Start(b) ==
    /\ pc[b] = "idle"
    /\ Goto(b, "lookup")
    /\ gone' = gone \ {b}
    /\ UNCHANGED <<diffs, left, pool, mapped, closer>>

\* Conns.Pool, behind Conns.mu.
Lookup(b) ==
    /\ pc[b] = "lookup"
    /\ closer /= "closing"
    /\ IF mapped
         THEN Goto(b, "subscriptions") /\ left' = [left EXCEPT ![b] = Queries]
         ELSE Goto(b, "idle") /\ UNCHANGED left
    /\ UNCHANGED <<diffs, gone, pool, mapped, closer>>

\* A build that waits for a connection, of its own or for an lsnDiff.
Waiting(b) == pc[b] \in {"subscriptions", "nested", "next"}

\* Acquire of a connection, and the query is sent.  The rows of the
\* subscriptions ask for any number of diffs.
Acquire(b) ==
    /\ Waiting(b)
    /\ b \notin gone
    /\ free > 0
    /\ ~closed
    /\ free' = free - 1
    /\ IF pc[b] = "subscriptions"
         THEN \E n \in 0..MaxDiffs : diffs' = [diffs EXCEPT ![b] = n]
         ELSE UNCHANGED diffs
    /\ Goto(b, IF pc[b] = "subscriptions" THEN "rows"
               ELSE IF pc[b] = "nested" THEN "diff" ELSE "query")
    /\ UNCHANGED <<left, gone, closed, mapped, closer>>

\* (mutant) Connections are acquired with a context of the server's.
AcquireIgnoresContext(b) ==
    /\ Waiting(b)
    /\ closed /\ free > 0
    /\ Goto(b, IF pc[b] = "nested" THEN "rows" ELSE "idle")
    /\ UNCHANGED <<diffs, left, gone, pool, mapped, closer>>

\* Acquire fails: lsnDiff's error is dropped, the sync matrix is left out, and
\* any other query ends the build.
AcquireFails(b) ==
    /\ Waiting(b)
    /\ b \in gone \/ (closed /\ free > 0)
    /\ \/ pc[b] = "nested" /\ Goto(b, "rows") /\ UNCHANGED left
       \/ pc[b] /= "nested" /\ Goto(b, "idle") /\ UNCHANGED left
       \/ /\ pc[b] = "next" /\ left[b] > 1
          /\ left' = [left EXCEPT ![b] = @ - 1]
          /\ UNCHANGED pc
    /\ UNCHANGED <<diffs, gone, pool, mapped, closer>>

\* rows.Next: a row with a pair of LSNs to compare.
NextDiff(b) ==
    /\ pc[b] = "rows"
    /\ diffs[b] > 0
    /\ diffs' = [diffs EXCEPT ![b] = @ - 1]
    /\ Goto(b, "nested")
    /\ UNCHANGED <<left, gone, pool, mapped, closer>>

\* (mutant) The diff's connection is not given back.
DiffKeepsConn(b) ==
    /\ pc[b] = "diff"
    /\ Goto(b, "rows")
    /\ UNCHANGED <<diffs, left, gone, pool, mapped, closer>>

\* lsnDiff returns, with the difference or an error.
DiffReturns(b) ==
    /\ pc[b] = "diff"
    /\ free' = free + 1
    /\ Goto(b, "rows")
    /\ UNCHANGED <<diffs, left, gone, closed, mapped, closer>>

\* (mutant) An error of the rows returns without rows.Close.
RowsKeepConn(b) ==
    /\ pc[b] = "rows"
    /\ \/ /\ diffs[b] = 0
          /\ Goto(b, "next")
          /\ free' = free + 1
       \/ Goto(b, "idle") /\ UNCHANGED free
    /\ diffs' = [diffs EXCEPT ![b] = 0]
    /\ UNCHANGED <<left, gone, closed, mapped, closer>>

\* The rows end, and the next query is due, or they fail: rows.Close either way.
RowsEnd(b) ==
    /\ pc[b] = "rows"
    /\ \/ diffs[b] = 0 /\ Goto(b, "next")
       \/ Goto(b, "idle")
    /\ free' = free + 1
    /\ diffs' = [diffs EXCEPT ![b] = 0]
    /\ UNCHANGED <<left, gone, closed, mapped, closer>>

\* One of the other queries returns; its error ends the build, the sync matrix's
\* excepted.
QueryReturns(b) ==
    /\ pc[b] = "query"
    /\ free' = free + 1
    /\ left' = [left EXCEPT ![b] = @ - 1]
    /\ \/ Goto(b, IF left[b] > 1 THEN "next" ELSE "idle")
       \/ Goto(b, "idle")
    /\ UNCHANGED <<diffs, gone, closed, mapped, closer>>

\* The browser drops its request: r.Context() is cancelled.
Cancel(b) ==
    /\ b \in Requests \ gone
    /\ pc[b] /= "idle"
    /\ gone' = gone \cup {b}
    /\ UNCHANGED <<pc, diffs, left, pool, mapped, closer>>
-----------------------------------------------------------------------------
(***************************************************************************)
(* Conns.Close.                                                            *)
(***************************************************************************)
Close ==
    /\ closer = "idle"
    /\ closer' = "closing"
    /\ closed' = TRUE
    /\ UNCHANGED <<pc, diffs, left, gone, free, mapped>>

\* (mutant) Close unmaps the pool and unlocks without waiting for it.
DrainAtOnce ==
    /\ closer = "closing"
    /\ mapped' = FALSE
    /\ closer' = "done"
    /\ UNCHANGED <<pc, diffs, left, gone, pool>>

Drain ==
    /\ closer = "closing"
    /\ free = MaxConns
    /\ mapped' = FALSE
    /\ closer' = "done"
    /\ UNCHANGED <<pc, diffs, left, gone, pool>>

BuildStep(b) ==
    \/ Lookup(b)
    \/ Acquire(b) \/ AcquireFails(b)
    \/ NextDiff(b) \/ DiffReturns(b) \/ RowsEnd(b) \/ QueryReturns(b)

Next ==
    \/ \E b \in Builders : Start(b) \/ BuildStep(b) \/ Cancel(b)
    \/ Close \/ Drain

Spec == Init /\ [][Next]_vars

(***************************************************************************)
(* The pool's semaphore and Go's mutex serve waiters in order, so a build  *)
(* that can have a connection again and again gets one (strong fairness).  *)
(* PostgreSQL answers, or the connection breaks.  No browser need ask for  *)
(* anything, go away, or disconnect the node; the ticker's next round is   *)
(* not required either.                                                    *)
(***************************************************************************)
Fairness ==
    /\ \A b \in Builders : SF_vars(BuildStep(b))
    /\ WF_vars(Drain)

FairSpec == Spec /\ Fairness
-----------------------------------------------------------------------------
(***************************************************************************)
(* Properties.                                                             *)
(***************************************************************************)
PCs == {"idle", "lookup", "subscriptions", "rows", "nested", "diff", "next", "query"}

\* Variables have their types; a build has diffs left only among its rows.
TypeOK ==
    /\ pc \in [Builders -> PCs]
    /\ diffs \in [Builders -> 0..MaxDiffs]
    /\ left \in [Builders -> 0..Queries]
    /\ gone \subseteq Requests
    /\ free \in 0..MaxConns
    /\ closed \in BOOLEAN /\ mapped \in BOOLEAN
    /\ closer \in {"idle", "closing", "done"}
    /\ \A b \in Builders : diffs[b] > 0 => pc[b] \in {"rows", "nested", "diff"}

HoldsOne  == {b \in Builders : pc[b] \in {"rows", "nested", "query"}}
HoldsTwo  == {b \in Builders : pc[b] = "diff"}

\* queries.go: whichever way a query ends, no connection is lost and none is
\* given back twice, so the pool never runs dry but by builds under way.
PermitsBalance == free + Cardinality(HoldsOne) + 2 * Cardinality(HoldsTwo) = MaxConns

\* Conns.Close: once a disconnect has closed the pool, no build of the node has
\* a query running or comes to have one.
ClosedIsQuiet == closer = "done" => HoldsOne \cup HoldsTwo = {}

\* Every connection is kept by a subscriptions query that waits for another.
Wedged ==
    /\ free = 0
    /\ \A b \in HoldsOne \cup HoldsTwo : pc[b] = "nested" /\ b \notin gone

\* BuildSnapshot and Conns.Close: waiting on one another for a second connection is
\* the only way in which builds of a node hang, or Close with Conns.mu held.
EndsOrWedges ==
    /\ \A b \in Builders : pc[b] /= "idle" ~> (pc[b] = "idle" \/ Wedged)
    /\ closer = "closing" ~> (closer = "done" \/ Wedged)

\* queries.go passes the request's context down to lsnDiff: a snapshot request
\* past Conns.mu whose browser has gone ends, and takes a wedge with it.
GoneRequestEnds ==
    \A b \in Requests :
        (b \in gone /\ pc[b] \notin {"idle", "lookup"}) ~> pc[b] = "idle"
=============================================================================
