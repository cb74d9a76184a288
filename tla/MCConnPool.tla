----------------------------- MODULE MCConnPool -----------------------------
(***************************************************************************)
(* TLC instances of ConnPool.                                              *)
(***************************************************************************)
EXTENDS ConnPool

CONSTANTS tk, q1, q2
=============================================================================
