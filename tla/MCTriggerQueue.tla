---------------------------- MODULE MCTriggerQueue ----------------------------
(***************************************************************************)
(* Instances of TriggerQueue are given by their configurations; handlers,  *)
(* instances and targets are interchangeable.                              *)
(***************************************************************************)
EXTENDS TriggerQueue, TLC

Symmetry == Permutations(Handlers) \cup Permutations(Instances)
=============================================================================
