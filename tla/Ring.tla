-------------------------------- MODULE Ring --------------------------------
(***************************************************************************)
(* store.Ring as operators on its sequence of buckets, oldest first.  A    *)
(* bucket has the start of its period (ts) and its values; the values are  *)
(* left to the modules that use the ring, which need to know which map a   *)
(* bucket holds, not only what is in it.  Times are in seconds.            *)
(***************************************************************************)
EXTENDS Integers, Sequences

CONSTANTS
    BucketSec,   \* period of a bucket: 30 in the code
    WindowSec    \* how long a bucket is kept: 300 in the code

ASSUME BucketAssumption == BucketSec \in Nat \ {0}
ASSUME WindowAssumption == WindowSec \in Nat \ {0} /\ BucketSec <= WindowSec

\* time.Truncate: the start of the bucket period that t is in.
Truncate(t) == t - (t % BucketSec)

\* Push merges its values into the newest bucket if that is of the same period.
Merges(buckets, t) ==
    buckets /= <<>> /\ buckets[Len(buckets)].ts = Truncate(t)

\* The buckets left once those at the front that ended their window are dropped.
Evict(buckets, t) ==
    LET first == CHOOSE k \in 1..(Len(buckets) + 1) :
                    /\ \A j \in 1..(k - 1) : buckets[j].ts + WindowSec < t
                    /\ k <= Len(buckets) => buckets[k].ts + WindowSec >= t
    IN  SubSeq(buckets, first, Len(buckets))

\* Push at time t when it does not merge: a bucket with the pushed values.
Extend(buckets, t, vals) ==
    Evict(Append(buckets, [ts |-> Truncate(t), vals |-> vals]), t)

OldestOf(buckets) == buckets[1]
=============================================================================
