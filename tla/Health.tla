------------------------------- MODULE Health -------------------------------
(***************************************************************************)
(* What the server and the page make of the numbers PostgreSQL reports:    *)
(* the kind of a cluster, the server's severities, and the page's levels,  *)
(* which come from thresholds the user may edit.                           *)
(*                                                                         *)
(* Sizes are in kB and ages in whole seconds.                              *)
(***************************************************************************)
EXTENDS Integers

MB == 1024
GB == 1024 * MB

Severities == {"ok", "warn", "alert", "critical"}

\* severityRank: indexOf, -1 for a string it does not know.
severityRank(s) ==
    IF s \in Severities THEN [ok |-> 0, warn |-> 1, alert |-> 2, critical |-> 3][s] ELSE -1

AtLeast(s, t) == severityRank(s) >= severityRank(t)
-----------------------------------------------------------------------------
(***************************************************************************)
(* The server.                                                             *)
(***************************************************************************)
detectClusterKind(pubs, subs, reps) ==
    IF pubs > 0 /\ subs > 0 /\ reps > 0        THEN "hybrid"
    ELSE IF (pubs > 0 \/ subs > 0) /\ reps = 0 THEN "logical"
    ELSE IF pubs = 0 /\ subs = 0 /\ reps > 0   THEN "physical"
    ELSE "standalone"

\* The kinds of conflict the page's grid shows, and the two it does not.
GridKinds == {"insert_exists", "update_exists", "update_missing", "delete_missing",
              "multiple_unique"}
OriginKinds == {"update_origin_differs", "delete_origin_differs"}
ConflictKinds == GridKinds \cup OriginKinds

GridTotal(c) ==
    c["insert_exists"] + c["update_exists"] + c["update_missing"] + c["delete_missing"]
        + c["multiple_unique"]
ConflictTotal(c) == GridTotal(c) + c["update_origin_differs"] + c["delete_origin_differs"]

Reaches(s, lag, retention, wal_status, errors, conflicts, age) ==
    \/ s.total_lag >= lag
    \/ s.retention >= retention
    \/ s.wal_status = wal_status
    \/ s.apply_errors >= errors
    \/ \E k \in ConflictKinds : s.conflicts[k] >= conflicts
    \/ s.recv_age > age

\* (mutant) A kind of conflict warns from 20.
severityOfLenient(s) ==
    IF Reaches(s, 10 * GB, 100 * GB, "lost", 50, 100, 1800) THEN "critical"
    ELSE IF Reaches(s, GB, 50 * GB, "unreserved", 5, 20, 300) THEN "warn" ELSE "ok"

severityOf(s) ==
    IF Reaches(s, 10 * GB, 100 * GB, "lost", 50, 100, 1800) THEN "critical"
    ELSE IF Reaches(s, GB, 50 * GB, "unreserved", 5, 10, 300) THEN "warn" ELSE "ok"

workerSeverity(w) ==
    IF ~w.alive \/ w.recv_age > 1800 THEN "critical"
    ELSE IF w.recv_age > 300 THEN "warn" ELSE "ok"

replicaSeverity(r) ==
    IF r.replay_lag > 300 THEN "critical"
    ELSE IF r.write_lag > 300 THEN "warn" ELSE "ok"

slotSeverity(s) ==
    IF s.wal_status = "lost" THEN "critical"
    ELSE IF (~s.active /\ s.inactive > 600) \/ s.unconsumed > 5 * GB THEN "warn" ELSE "ok"
-----------------------------------------------------------------------------
(***************************************************************************)
(* The page.                                                               *)
(***************************************************************************)
ThresholdKeys == {"total_lag_bytes", "slot_wal_retention", "apply_error_count_5m",
                  "conflict_count_5m", "spill_pct", "worker_last_recv_age",
                  "replica_write_lag_seconds", "replica_replay_lag_seconds"}
Levels == {"warn", "alert", "critical"}
Thresholds == [ThresholdKeys -> [Levels -> Nat]]

Triple(w, a, c) == [warn |-> w, alert |-> a, critical |-> c]

DEFAULT_THRESHOLDS ==
    [total_lag_bytes            |-> Triple(100 * MB, GB, 10 * GB),
     slot_wal_retention         |-> Triple(10 * GB, 50 * GB, 100 * GB),
     apply_error_count_5m       |-> Triple(5, 50, 200),
     conflict_count_5m          |-> Triple(10, 100, 500),
     spill_pct                  |-> Triple(20, 50, 80),
     worker_last_recv_age       |-> Triple(300, 1800, 7200),
     replica_write_lag_seconds  |-> Triple(30, 300, 900),
     replica_replay_lag_seconds |-> Triple(30, 300, 900)]

severityForValue(v, thr) ==
    IF v >= thr["critical"] THEN "critical"
    ELSE IF v >= thr["alert"] THEN "alert"
    ELSE IF v >= thr["warn"] THEN "warn" ELSE "ok"

AtLeastZero(v) == IF v < 0 THEN 0 ELSE v

lagSeverity(seconds, thr) == severityForValue(AtLeastZero(seconds), thr)

\* The stack bar and the spill cards use the defaults, whatever the user has set.
segmentSeverity(v) == severityForValue(v, DEFAULT_THRESHOLDS["total_lag_bytes"])

\* Of an average, given as a sum and a count.
pctSeverity(sum, n) ==
    LET th == DEFAULT_THRESHOLDS["spill_pct"]
    IN  severityForValue(sum, [l \in Levels |-> n * th[l]])

\* The badge of a severity, and the text of another string.
severityKindOf(s) == IF s \in Severities THEN s ELSE "unknown"
=============================================================================
