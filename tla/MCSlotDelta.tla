---------------------------- MODULE MCSlotDelta ----------------------------
(***************************************************************************)
(* TLC instances of SlotDelta.                                             *)
(***************************************************************************)
EXTENDS SlotDelta, TLC

CONSTANTS a, b, tk, req

\* Builds are interchangeable.
Builds == Permutations(Builders)

\* What a later step or a property can tell apart: not the names of maps, but whether
\* a build's base is the map of a bucket; nor the latest push's values, which are read
\* only by the step that pushes them.
Distinguished ==
    <<clock, pg, raced, pc, read, now, stat, lastPush.at,
      [k \in DOMAIN buckets |-> <<buckets[k].ts, maps[buckets[k].vals]>>],
      [e \in Builders |->
          IF pc[e] = "diff"
          THEN <<base[e].ts, maps[base[e].vals],
                 {k \in DOMAIN buckets : buckets[k].vals = base[e].vals}>>
          ELSE <<>>]>>
=============================================================================
