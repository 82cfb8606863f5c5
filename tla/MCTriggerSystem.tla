-------------------------- MODULE MCTriggerSystem --------------------------
(***************************************************************************)
(* Constants for checking TriggerSystem: the scenarios.                    *)
(***************************************************************************)
EXTENDS TriggerSystem

\* Readers, and operators that do everything but disarm a target.
ReadWhileArming == [ops |-> Operations \ {"disarm"}, used |-> Target]
\* Operators do everything to the sequencers, and nobody reads.
DisarmSequencers == [ops |-> Operations \ {"read"}, used |-> Seqs]

\* The same to the memory, which a disarm makes fire.
DisarmMemory == [ops |-> Operations \ {"read"}, used |-> {Dram}]

ReadingOrDisarming == {ReadWhileArming, DisarmSequencers, DisarmMemory}

\* Targets on their own: nobody changes their mode.
OwnTargets == {[ops |-> {"arm", "disarm", "capture", "read"}, used |-> Seqs]}

=============================================================================
