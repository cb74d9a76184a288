------------------------------- MODULE Window -------------------------------
(***************************************************************************)
(* What the rolling window of slot counters promises: one sample for each  *)
(* period in which counters were taken, its values the last taken in that  *)
(* period, and of these samples exactly the ones young enough when a new   *)
(* period began.  A sample may come late, after one of a later period; the *)
(* window is then out of order and promises nothing of its samples until   *)
(* it is in order again, with none that is too old.                        *)
(***************************************************************************)
EXTENDS Integers

CONSTANTS
    BucketSec,  \* length of a period
    Length      \* length of the window

VARIABLES
    samples,    \* period start -> (key -> value)
    last,       \* the last sample taken: when, and its values
    ordered     \* no sample came late that the window still has

Period(t) == t - (t % BucketSec)

Overlay(old, new) ==
    [k \in DOMAIN old \cup DOMAIN new |-> IF k \in DOMAIN new THEN new[k] ELSE old[k]]

Init ==
    /\ samples = [t \in {} |-> <<>>]
    /\ last = [at |-> 0, vals |-> [k \in {} |-> 0]]
    /\ ordered = TRUE

\* A sample of the current period is updated.
Update(t, new) ==
    /\ Period(t) \in DOMAIN samples
    /\ samples' = [samples EXCEPT ![Period(t)] = Overlay(@, new)]

\* The first sample of a period is added, and what is too old goes.
Add(t, new) ==
    /\ Period(t) \notin DOMAIN samples
    /\ LET kept == {p \in DOMAIN samples : p + Length >= t} IN
         samples' = [p \in kept \cup {Period(t)} |->
                        IF p = Period(t) THEN new ELSE samples[p]]

Take ==
    /\ ordered /\ ordered'
    /\ Period(last'.at) >= Period(last.at)
    /\ Update(last'.at, last'.vals) \/ Add(last'.at, last'.vals)

TakeLate ==
    /\ ordered /\ ~ordered'
    /\ Period(last'.at) < Period(last.at)

\* The late samples go, or their like: what is left is young enough.
Recover ==
    /\ ~ordered
    /\ ordered' => /\ \A p \in DOMAIN samples' : p + Length >= last'.at
                   /\ Period(last'.at) \in DOMAIN samples'
                   /\ samples'[Period(last'.at)] = last'.vals

Next == Take \/ TakeLate \/ Recover

Spec == Init /\ [][Next]_<<samples, last, ordered>>
=============================================================================
