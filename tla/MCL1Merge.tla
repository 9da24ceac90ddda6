------------------------------- MODULE MCL1Merge -------------------------------
(***************************************************************************)
(* Small instances of L1Merge: two domains, and imports and events that    *)
(* name both of them or one.                                               *)
(***************************************************************************)
EXTENDS L1Merge
=============================================================================
