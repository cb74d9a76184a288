------------------------------ MODULE MCPanels ------------------------------
(***************************************************************************)
(* A TLC instance of Panels: databases that differ from a quiet one in one *)
(* or two places, with each number at and beside the limits it is compared *)
(* with.                                                                   *)
(***************************************************************************)
EXTENDS Panels

NoConflicts == [k \in ConflictKinds |-> 0]
Sub(i, n, sl) ==
    [oid |-> i, name |-> n, slot |-> sl, received |-> 0, end |-> 0, apply_errors |-> 0,
     conflicts |-> NoConflicts, recv_age |-> 0]
Slot(n) ==
    [name |-> n, restart |-> 0, confirmed |-> 0, wal_status |-> "reserved",
     active |-> TRUE, inactive |-> 0]
Worker(i, n)    == [id |-> i, sub |-> n, pid |-> i, backend |-> TRUE, recv_age |-> 0]
Replica(i, a)   == [pid |-> i, app |-> a, replied |-> TRUE, write_lag |-> 0, flush_lag |-> 0,
                    replay_lag |-> 0]
Table(i, n, st) == [relid |-> i, sub |-> n, state |-> st, lsn |-> 1]
Spill(sl, p)   == [slot |-> sl, spill_pct |-> p, spill_bytes |-> p]

Base == Sub(1, "a", "s1")
Quiet ==
    [kind |-> "logical", wal |-> 0, slots |-> {Slot("s1")}, subs |-> {Base},
     tables |-> {Table(1, "a", "r")}, workers |-> {Worker(1, "a")},
     replicas |-> {}, spill |-> {Spill("s1", 0)}, rate |-> 1]

\* A limit and its neighbours.
Around(S) == UNION {{x - 1, x, x + 1} : x \in S}

Rows ==
    {[Base EXCEPT !.received = x] : x \in Around({100 * MB, GB, 10 * GB})}
    \cup {[Base EXCEPT !.apply_errors = x] : x \in Around({5, 50})}
    \cup {[Base EXCEPT !.recv_age = x] : x \in Around({300, 1800})}
    \cup {[Base EXCEPT !.conflicts[k] = x] :
              k \in {"insert_exists", "update_origin_differs"}, x \in Around({10, 100})}
    \cup {[Base EXCEPT !.conflicts = [k \in ConflictKinds |-> x]] : x \in {14, 15}}

Busy == [Base EXCEPT !.apply_errors = 7, !.conflicts["insert_exists"] = 9]
Namesake == Sub(2, "a", "")
Other == [Sub(3, "b", "s2") EXCEPT !.apply_errors = 60]

Logical ==
    {[Quiet EXCEPT !.subs = {r}] : r \in Rows}
    \cup {[Quiet EXCEPT !.wal = x] : x \in Around({10 * GB, 50 * GB, 100 * GB})}
    \cup {[Quiet EXCEPT !.subs = {Busy, r}, !.workers = {Worker(1, "a"), Worker(2, r.name)}] :
              r \in {Namesake, Other}}
    \cup {[Quiet EXCEPT !.subs = {}, !.tables = {}, !.workers = {}]}
    \cup {[Quiet EXCEPT !.rate = 2], [Quiet EXCEPT !.rate = -1]}
    \cup {[Quiet EXCEPT !.workers = {Worker(1, "a"), w}] :
              w \in {[Worker(2, "a") EXCEPT !.backend = FALSE]}
                   \cup {[Worker(2, "a") EXCEPT !.recv_age = x] : x \in Around({300, 1800})}}
    \cup {[Quiet EXCEPT !.subs = {Base, Other}, !.workers = {Worker(1, "a"), w}] :
              w \in {Worker(2, "b"), [Worker(2, "b") EXCEPT !.pid = None, !.backend = FALSE]}}
    \cup {[Quiet EXCEPT !.slots = S] :
              S \in {{}, {[Slot("s1") EXCEPT !.wal_status = "unreserved"]},
                     {[Slot("s1") EXCEPT !.wal_status = "lost"]},
                     {[Slot("s1") EXCEPT !.wal_status = "lost", !.restart = None]},
                     {Slot("s1"), [Slot("s2") EXCEPT !.restart = None, !.confirmed = None]}}}
    \cup {[Quiet EXCEPT !.subs = {Base, Other}, !.tables = T,
                                !.workers = {Worker(1, "a"), Worker(2, "b")}] :
              T \in {{Table(1, "a", "r"), Table(2, "a", "r"), Table(3, "b", "s")},
                     {Table(1, "a", "r"), Table(2, "a", "d"), Table(3, "b", "r")},
                     {Table(1, "a", "r"), [Table(2, "b", "i") EXCEPT !.lsn = None]},
                     {Table(1, "a", "r")}}}
    \cup {[Quiet EXCEPT !.spill = {Spill("s1", x), Spill("s2", 15)}] : x \in {10, 40, 79, 100}}

Replicas2(x, f) == {Replica(1, "walreceiver"), [Replica(2, "walreceiver") EXCEPT ![f] = x]}

Physical ==
    {[Quiet EXCEPT !.kind = k, !.replicas = R] :
        k \in {"physical", "hybrid"},
        R \in {{}, {[Replica(1, "walreceiver") EXCEPT !.replied = FALSE]}}
             \cup {Replicas2(x, f) : x \in Around({300, 900}) \cup {5},
                                     f \in {"write_lag", "flush_lag", "replay_lag"}}}

MCDatabases ==
    Logical \cup Physical \cup {[Quiet EXCEPT !.kind = k] : k \in {"", "standalone"}}

MCEdits ==
    {<<"total_lag_bytes", "critical", 0>>, <<"replica_write_lag_seconds", "warn", 1000>>,
     <<"replica_write_lag_seconds", "critical", 0>>, <<"replica_replay_lag_seconds", "critical", -1>>}
=============================================================================
