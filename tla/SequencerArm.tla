---------------------------- MODULE SequencerArm ----------------------------
(***************************************************************************)
(* The configuration of one sequencer, from the EPICS records that edit it *)
(* to the scale that the detector publishes with its data:                 *)
(* epics/src/sequencer.c, with its own mutex and its two dirty flags, the  *)
(* readout of epics/src/detector.c, and the arming of the sequencer in     *)
(* epics/src/trigger_target.c under trigger_mutex.                         *)
(*                                                                         *)
(* TriggerTarget has the operations on the targets as single steps.  Here  *)
(* arming and resetting take their two mutexes one after the other.  The   *)
(* target is on its own and no reader locks it.                            *)
(***************************************************************************)
EXTENDS Naturals

CONSTANTS
  Clients,   \* threads that process EPICS records
  Configs,   \* values of the part of seq_config the detector scale depends on
  Scenarios, \* the operations of each thread in a run
  unset,     \* the value of a configuration that was never written
  nobody     \* the owner of a free mutex

ASSUME ClientsAssumption ==
  "events" \notin Clients /\ nobody \notin Clients \cup {"events"}

Thread == Clients \cup {"events"}

ASSUME ScenariosAssumption ==
  Scenarios \subseteq
    [Thread -> SUBSET {"freq", "count", "arm", "rearm", "disarm", "reset"}]

VARIABLES
  config,      \* seq->seq_config
  dirty,       \* seq->seq_config_dirty
  hwConfig,    \* seq->seq_hw_config, and the registers it is written to
  hwDirty,     \* seq->seq_hw_config_dirty
  forward,     \* UPDATE_COUNT has still to be processed, by its forward link
  armState,    \* target->state
  armDontRearm, \* target->dont_rearm
  scale,       \* the configuration det->scale_info was computed from
  hw,          \* trigger handler and sequencer
  runConfig,   \* the configuration the sequencer last ran with
  events,      \* interrupts not yet read
  todo,        \* interrupts the events thread is dealing with
  pc,          \* where each thread is
  seqMutex,    \* owner of seq->mutex
  trigMutex,   \* owner of trigger_mutex
  ops          \* the scenario of this run

configVars == <<config, dirty, hwConfig, hwDirty, forward>>
targetVars == <<armState, armDontRearm>>
hwVars == <<hw, runConfig, events>>
threadVars == <<todo, pc, seqMutex, trigMutex>>
armVars == <<configVars, targetVars, scale, hwVars, threadVars, ops>>

ArmTypeOK ==
  /\ config \in Configs
  /\ {hwConfig, scale, runConfig} \subseteq Configs \cup {unset}
  /\ {dirty, hwDirty, forward, armDontRearm} \subseteq BOOLEAN
  /\ armState \in {"IDLE", "ARMED", "BUSY"}
  /\ hw \in {"IDLE", "ARMED", "RUNNING"}
  /\ events \subseteq {"trigger", "done"}
  /\ todo \subseteq {"readout", "trigger", "done"}
  /\ pc \in [Thread -> {"idle", "prepare", "reset", "abort"}]
  /\ {seqMutex, trigMutex} \subseteq Thread \cup {nobody}

ArmInit ==
  /\ config \in Configs
  /\ hwConfig = unset /\ scale = unset /\ runConfig = unset
  /\ dirty = TRUE /\ hwDirty = FALSE /\ forward = FALSE
  /\ armState = "IDLE" /\ armDontRearm = FALSE
  /\ hw = "IDLE" /\ events = {} /\ todo = {}
  /\ pc = [t \in Thread |-> "idle"]
  /\ seqMutex = nobody /\ trigMutex = nobody
  /\ ops \in Scenarios

-----------------------------------------------------------------------------
(* EPICS writes, each under seq->mutex.                                    *)

\* write_start_freq() and the others that end in update_end_freq().
WriteFreq(c) ==
  /\ seqMutex = nobody
  /\ config' = c /\ dirty' = TRUE
  /\ UNCHANGED <<hwConfig, hwDirty, forward, targetVars, scale,
                 hwVars, threadVars>>

\* The records that set a field of seq_config and nothing else (PC, HOLDOFF,
\* DWELL...): the flag is left to UPDATE_COUNT, which they forward to.
WriteField(c) ==
  /\ seqMutex = nobody
  /\ config' = c /\ forward' = TRUE
  /\ UNCHANGED <<dirty, hwConfig, hwDirty, targetVars, scale,
                 hwVars, threadVars>>

\* update_capture_count()
UpdateCount ==
  /\ forward /\ seqMutex = nobody
  /\ dirty' = TRUE /\ forward' = FALSE
  /\ UNCHANGED <<config, hwConfig, hwDirty, targetVars, scale,
                 hwVars, threadVars>>

-----------------------------------------------------------------------------
(* Arming and disarming.                                                   *)

\* arm_target() up to prepare_sequencer(), with trigger_mutex held until the
\* hardware is armed.
StartArm(t) ==
  /\ pc[t] = "idle" /\ trigMutex = nobody
  /\ armState = "IDLE"
  /\ trigMutex' = t
  /\ pc' = [pc EXCEPT ![t] = "prepare"]
  /\ UNCHANGED <<configVars, targetVars, scale, hwVars, todo, seqMutex>>

\* Mutant of PrepareSequencer: the flag is reset and not copied.
PrepareUnflagged(t) ==
  /\ pc[t] = "prepare" /\ seqMutex = nobody
  /\ hwConfig' = config
  /\ dirty' = FALSE
  /\ armState' = "ARMED" /\ armDontRearm' = FALSE
  /\ hw' = IF hw = "IDLE" THEN "ARMED" ELSE hw
  /\ trigMutex' = nobody
  /\ pc' = [pc EXCEPT ![t] = "idle"]
  /\ UNCHANGED <<config, hwDirty, forward, scale, runConfig, events, todo,
                 seqMutex>>

\* prepare_sequencer(), and the rest of arm_target().
PrepareSequencer(t) ==
  /\ pc[t] = "prepare" /\ seqMutex = nobody
  /\ hwConfig' = config
  /\ hwDirty' = dirty
  /\ dirty' = FALSE
  /\ armState' = "ARMED" /\ armDontRearm' = FALSE
  /\ hw' = IF hw = "IDLE" THEN "ARMED" ELSE hw
  /\ trigMutex' = nobody
  /\ pc' = [pc EXCEPT ![t] = "idle"]
  /\ UNCHANGED <<config, forward, scale, runConfig, events, todo, seqMutex>>

\* disarm_target(): a sequence that has started goes on.
DisarmSequencer ==
  /\ armState' = IF armState = "ARMED" THEN "IDLE" ELSE armState
  /\ armDontRearm' = TRUE
  /\ hw' = IF hw = "ARMED" THEN "IDLE" ELSE hw
  /\ UNCHANGED <<configVars, scale, runConfig>>

\* trigger_target_disarm(), from the DISARM record.
Disarm ==
  /\ trigMutex = nobody
  /\ DisarmSequencer
  /\ UNCHANGED <<events, threadVars>>

\* write_seq_reset(): the record is processed with seq->mutex held.
StartReset(t) ==
  /\ pc[t] = "idle" /\ seqMutex = nobody
  /\ seqMutex' = t
  /\ pc' = [pc EXCEPT ![t] = "reset"]
  /\ UNCHANGED <<configVars, targetVars, scale, hwVars, todo, trigMutex>>

ResetDisarm(t) ==
  /\ pc[t] = "reset" /\ trigMutex = nobody
  /\ DisarmSequencer
  /\ pc' = [pc EXCEPT ![t] = "abort"]
  /\ UNCHANGED <<events, todo, seqMutex, trigMutex>>

\* hw_write_seq_abort()
ResetAbort(t) ==
  /\ pc[t] = "abort"
  /\ hw' = IF hw = "RUNNING" THEN "IDLE" ELSE hw
  /\ events' = IF hw = "RUNNING" THEN events \cup {"done"} ELSE events
  /\ seqMutex' = nobody
  /\ pc' = [pc EXCEPT ![t] = "idle"]
  /\ UNCHANGED <<configVars, targetVars, scale, runConfig, todo, trigMutex>>

Client(t) ==
  \/ /\ pc[t] = "idle"
     /\ \/ "freq" \in ops[t] /\ \E c \in Configs : WriteFreq(c)
        \/ "count" \in ops[t] /\ \E c \in Configs : WriteField(c)
        \/ UpdateCount
        \/ "disarm" \in ops[t] /\ Disarm
  \/ "arm" \in ops[t] /\ StartArm(t)
  \/ PrepareSequencer(t)
  \/ "reset" \in ops[t] /\ StartReset(t)
  \/ ResetDisarm(t)
  \/ ResetAbort(t)

-----------------------------------------------------------------------------
(* The hardware and the events thread.                                     *)

Trigger ==
  /\ hw = "ARMED"
  /\ hw' = "RUNNING" /\ runConfig' = hwConfig
  /\ events' = events \cup {"trigger"}
  /\ UNCHANGED <<configVars, targetVars, scale, threadVars>>

Done ==
  /\ hw = "RUNNING"
  /\ hw' = "IDLE"
  /\ events' = events \cup {"done"}
  /\ UNCHANGED <<configVars, targetVars, scale, runConfig, threadVars>>

\* Mutant of ReadEvents: a trigger hides the completion that came with it.
ReadEventsEither ==
  /\ pc["events"] = "idle" /\ todo = {} /\ events # {}
  /\ todo' = IF "trigger" \in events THEN {"trigger"} ELSE {"readout", "done"}
  /\ events' = {}
  /\ UNCHANGED <<configVars, targetVars, scale, hw, runConfig, pc,
                 seqMutex, trigMutex>>

\* A sequence that is done is read out first, by the detector's handler.
ReadEvents ==
  /\ pc["events"] = "idle" /\ todo = {} /\ events # {}
  /\ todo' = events \cup {e \in {"readout"} : "done" \in events}
  /\ events' = {}
  /\ UNCHANGED <<configVars, targetVars, scale, hw, runConfig, pc,
                 seqMutex, trigMutex>>

\* detector_readout_event(): the scale is computed again if the configuration
\* the sequencer was armed with is marked as changed.
Readout ==
  /\ "readout" \in todo
  /\ scale' = IF hwDirty THEN hwConfig ELSE scale
  /\ todo' = todo \ {"readout"}
  /\ UNCHANGED <<configVars, targetVars, hwVars, pc, seqMutex, trigMutex>>

\* trigger_target_trigger()
HandleTrigger ==
  /\ "readout" \notin todo /\ "trigger" \in todo /\ trigMutex = nobody
  /\ armState' = IF armState = "ARMED" THEN "BUSY" ELSE armState
  /\ todo' = todo \ {"trigger"}
  /\ UNCHANGED <<configVars, armDontRearm, scale, hwVars, pc, seqMutex,
                 trigMutex>>

\* trigger_target_complete(), which goes on to re-arm in mode REARM.
HandleDone ==
  /\ todo = {"done"} /\ trigMutex = nobody
  /\ armState' = IF armState = "BUSY" THEN "IDLE" ELSE armState
  /\ todo' = {}
  /\ \/ /\ armState = "BUSY" /\ "rearm" \in ops["events"] /\ ~armDontRearm
        /\ trigMutex' = "events"
        /\ pc' = [pc EXCEPT !["events"] = "prepare"]
     \/ /\ armState # "BUSY" \/ "rearm" \notin ops["events"] \/ armDontRearm
        /\ UNCHANGED <<trigMutex, pc>>
  /\ UNCHANGED <<configVars, armDontRearm, scale, hwVars, seqMutex>>

EventsThread ==
  \/ ReadEvents \/ Readout \/ HandleTrigger \/ HandleDone
  \/ PrepareSequencer("events")

-----------------------------------------------------------------------------
ArmNext ==
  /\ (\E t \in Clients : Client(t)) \/ Trigger \/ Done \/ EventsThread
  /\ UNCHANGED ops

ArmSpec == ArmInit /\ [][ArmNext]_armVars

\* Threads run, and get the mutexes they ask for when those are released.
\* Only the holder of trigger_mutex prepares, and only that of seq->mutex
\* resets: one thread each.
ArmFairness ==
  /\ WF_armVars(Done /\ UNCHANGED ops)
  /\ WF_armVars((ReadEvents \/ Readout) /\ UNCHANGED ops)
  /\ SF_armVars((HandleTrigger \/ HandleDone) /\ UNCHANGED ops)
  /\ SF_armVars((\E t \in Thread : PrepareSequencer(t)) /\ UNCHANGED ops)
  /\ SF_armVars((\E t \in Thread : ResetDisarm(t)) /\ UNCHANGED ops)
  /\ WF_armVars((\E t \in Thread : ResetAbort(t)) /\ UNCHANGED ops)
ArmFairSpec == ArmSpec /\ ArmFairness

-----------------------------------------------------------------------------
(* Properties.                                                             *)

(***************************************************************************)
(* "at which point we want to present the user with an accurate view of    *)
(* the detector scaling": once the readout of a sequence is done, the      *)
(* scale is that of the configuration the sequence ran with.               *)
(***************************************************************************)
ScaleAccurate ==
  "done" \in todo /\ "readout" \notin todo => scale = runConfig

\* Every armed sequence comes to its readout, and edits flag themselves.
Straight == \A t \in Thread : ops[t] \subseteq {"freq", "arm", "rearm"}

(***************************************************************************)
(* The same as long as no sequence is abandoned and no field is edited     *)
(* without its flag (prepare_sequencer, detector_readout_event).           *)
(***************************************************************************)
ScaleFollows == Straight => ScaleAccurate

(***************************************************************************)
(* seq_hw_config is a truthful copy: while a sequence runs, and until its  *)
(* readout, it is the configuration the sequence runs with.  A disarm that *)
(* comes just after the trigger makes it untrue: the target may be armed   *)
(* while the sequence still runs.                                          *)
(***************************************************************************)
HwConfigTruthful ==
  Straight /\ (hw = "RUNNING" \/ "done" \in events \/ "readout" \in todo) =>
    hwConfig = runConfig

(***************************************************************************)
(* An edit is not lost: as long as the scale differs from the              *)
(* configuration to be used, one of the two flags says so.                 *)
(***************************************************************************)
EditFlagged == Straight /\ scale # config => dirty \/ hwDirty

(***************************************************************************)
(* "to ensure we don't have surprises if settings are changed while        *)
(* rearming": a thread that is preparing the sequencer gets to arm it.     *)
(***************************************************************************)
RearmCompletes == \A t \in Thread : []<>(pc[t] # "prepare")

(***************************************************************************)
(* A capture that has been triggered is over for the software as well,     *)
(* sooner or later.                                                        *)
(***************************************************************************)
SequenceEnds == []<>(armState # "BUSY")

(***************************************************************************)
(* The configuration a sequence was armed with is the one its detector     *)
(* scale is computed from, and no edit is forgotten on the way: through    *)
(* seq_config_dirty, prepare_sequencer() and detector_readout_event().     *)
(***************************************************************************)
ConfigFollows == ScaleFollows /\ HwConfigTruthful /\ EditFlagged

=============================================================================
