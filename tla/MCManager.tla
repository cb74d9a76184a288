----------------------------- MODULE MCManager -----------------------------
(***************************************************************************)
(* TLC instances of Manager.                                               *)
(***************************************************************************)
EXTENDS Manager, TLC

CONSTANTS i1, c1, c2, d1, s1, tk, r1, r2, r3

\* Ring names are interchangeable; the calls are not, c1 may be the --dsn one.
RingSymmetry == Permutations(RingNames)

\* What a later step or a property can tell apart: not what was pushed into a
\* ring nothing refers to, nor whether a failed connect had made a pool.
Distinguished ==
    <<reg, pools, connsMu, rings, node, pc, build, history,
      [r \in InUse \ {None} |-> ringSrc[r]],
      [c \in {d \in Connects : pc[d] /= "failed"} |-> poolState[c]]>>
=============================================================================
