------------------------------- MODULE MCHub -------------------------------
(***************************************************************************)
(* TLC instances of Hub.                                                   *)
(***************************************************************************)
EXTENDS Hub

CONSTANTS w1, w2
=============================================================================
