---------------------------- MODULE MCCaseForms ----------------------------
(***************************************************************************)
(* Instance of CaseForms for TLC.                                          *)
(***************************************************************************)
EXTENDS CaseForms

AllEndpoints == OpNames

\* A draft without dates, one without a start, and a whole form.
PlainEntries == {[start |-> 0, end |-> 0], [start |-> 0, end |-> 1],
                 [start |-> 1, end |-> 2]}
=============================================================================
