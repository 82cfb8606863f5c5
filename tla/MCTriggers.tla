----------------------------- MODULE MCTriggers -----------------------------
(***************************************************************************)
(* The trigger targets and the arming of one sequencer, checked side by    *)
(* side: an initial state picks one of them, the other stays as it is.     *)
(***************************************************************************)
EXTENDS TriggerTarget, MCSequencerArm

VARIABLE part
mcVars == <<part, vars, armVars>>

\* The part at rest has one initial state.
MCInit ==
  /\ part \in {"targets", "sequencer"} /\ Init /\ ArmInit
  /\ part = "targets" =>
       /\ config = CHOOSE c \in Configs : TRUE
       /\ ops = Flagged

MCTargets == part = "targets" /\ Next /\ UNCHANGED <<part, armVars>>
MCSequencer == part = "sequencer" /\ ArmNext /\ UNCHANGED <<part, vars>>

\* Each part under its own fairness; <>[] as TLC needs no tableau for it.
MCFairness ==
  \/ <>[](part = "targets") /\ ReaderFairness
  \/ <>[](part = "sequencer") /\ ArmFairness

MCSpec == MCInit /\ [][MCTargets \/ MCSequencer]_mcVars /\ MCFairness

\* The types of both parts (trigger_target.c, sequencer.c).
TypesOK == TypeOK /\ ArmTypeOK

=============================================================================
