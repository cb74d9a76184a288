----------------------------- MODULE MCSettings -----------------------------
(***************************************************************************)
(* TLC instance of Settings.                                               *)
(***************************************************************************)
EXTENDS Settings

CONSTANTS n1, n2, k1, k2, k3
=============================================================================
