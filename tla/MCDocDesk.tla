----------------------------- MODULE MCDocDesk -----------------------------
(***************************************************************************)
(* Instances of DocDesk for TLC.                                           *)
(***************************************************************************)
EXTENDS DocDesk

AllEndpoints == OpNames
=============================================================================
