-------------------------- MODULE MCTriggerTarget --------------------------
(***************************************************************************)
(* Constants for checking TriggerTarget: the readers are interchangeable,  *)
(* and so are the sequencers.                                              *)
(***************************************************************************)
EXTENDS TriggerTarget, TLC

Symmetry == Permutations(Readers) \cup Permutations(Seqs)

=============================================================================
