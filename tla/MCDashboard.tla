---------------------------- MODULE MCDashboard ----------------------------
(***************************************************************************)
(* TLC instances of Dashboard.                                             *)
(***************************************************************************)
EXTENDS Dashboard

CONSTANTS n1, n2, k1, k2, k3, c1, c2, c3
=============================================================================
