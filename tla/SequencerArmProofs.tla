------------------------- MODULE SequencerArmProofs -------------------------
(***************************************************************************)
(* Proofs about SequencerArm: the scale of the detector follows the        *)
(* configuration of its sequencer, through the two dirty flags and under   *)
(* the two mutexes, for any clients and configurations.                    *)
(***************************************************************************)
EXTENDS MCTriggers, TriggerProofs

(***************************************************************************)
(* Who prepares the sequencer holds trigger_mutex, so there is one at a    *)
(* time, and has found the target idle.                                    *)
(***************************************************************************)
PrepareInv ==
  \A t \in Thread :
    /\ pc[t] \in {"idle", "prepare"}
    /\ pc[t] = "prepare" => trigMutex = t /\ armState = "IDLE"

\* Interrupts that have still to be handled.
Pending == events \cup todo

(***************************************************************************)
(* A sequence goes round once: the target is armed until its trigger has   *)
(* been handled and busy until its completion has, and nothing of it is    *)
(* left when the target is idle.                                           *)
(***************************************************************************)
CycleInv ==
  /\ armState = "IDLE" => hw = "IDLE" /\ Pending = {}
  /\ armState = "ARMED" <=> hw = "ARMED" \/ "trigger" \in Pending
  /\ hw = "ARMED" => Pending = {}
  /\ hw = "RUNNING" => "done" \notin Pending
  /\ hw = "IDLE" /\ armState # "IDLE" => "done" \in Pending
  /\ "trigger" \in todo => "trigger" \notin events
  /\ "done" \in todo => events = {}
  /\ "readout" \in todo => "done" \in todo

(***************************************************************************)
(* What the flags mean: without seq_config_dirty the next sequence has the *)
(* configuration of the last one, without seq_hw_config_dirty this one has *)
(* the configuration of the scale.                                         *)
(***************************************************************************)
FlagInv ==
  /\ ~dirty => hwConfig = config
  /\ ~hwDirty => scale = hwConfig
  /\ armState = "IDLE" => scale = hwConfig
  /\ "done" \in todo /\ "readout" \notin todo => scale = hwConfig
  /\ hw = "RUNNING" \/ "done" \in Pending => runConfig = hwConfig

CourseInv == PrepareInv /\ CycleInv /\ FlagInv

ArmInv == ArmTypeOK /\ ops \in Scenarios /\ (Straight => CourseInv)

-----------------------------------------------------------------------------
(* Types.                                                                  *)

LEMMA EventsApart == "events" \in Thread /\ Clients \subseteq Thread
BY DEF Thread

LEMMA InitType == ArmInit => ArmTypeOK
BY DEF ArmInit, ArmTypeOK

LEMMA WriteType ==
  ASSUME ArmTypeOK, NEW c \in Configs, WriteFreq(c) \/ WriteField(c) \/ UpdateCount
  PROVE  ArmTypeOK'
BY DEF ArmTypeOK, WriteFreq, WriteField, UpdateCount, targetVars, hwVars,
       threadVars

LEMMA PrepareType ==
  ASSUME ArmTypeOK, NEW t \in Thread, StartArm(t) \/ PrepareSequencer(t)
  PROVE  ArmTypeOK'
BY DEF ArmTypeOK, StartArm, PrepareSequencer, configVars, targetVars, hwVars

LEMMA DisarmType ==
  ASSUME ArmTypeOK, NEW t \in Thread,
         Disarm \/ StartReset(t) \/ ResetDisarm(t) \/ ResetAbort(t)
  PROVE  ArmTypeOK'
<1>1. CASE Disarm
  BY <1>1 DEF ArmTypeOK, Disarm, DisarmSequencer, configVars, threadVars
<1>2. CASE StartReset(t)
  BY <1>2 DEF ArmTypeOK, StartReset, configVars, targetVars, hwVars
<1>3. CASE ResetDisarm(t)
  BY <1>3 DEF ArmTypeOK, ResetDisarm, DisarmSequencer, configVars
<1>4. CASE ResetAbort(t)
  BY <1>4 DEF ArmTypeOK, ResetAbort, configVars, targetVars
<1>5. QED BY <1>1, <1>2, <1>3, <1>4

LEMMA HardwareType ==
  ASSUME ArmTypeOK, Trigger \/ Done
  PROVE  ArmTypeOK'
BY DEF ArmTypeOK, Trigger, Done, configVars, targetVars, threadVars

LEMMA EventsType ==
  ASSUME ArmTypeOK, ReadEvents \/ Readout \/ HandleTrigger \/ HandleDone
  PROVE  ArmTypeOK'
<1>1. CASE ReadEvents
  BY <1>1 DEF ArmTypeOK, ReadEvents, configVars, targetVars
<1>2. CASE Readout
  BY <1>2 DEF ArmTypeOK, Readout, configVars, targetVars, hwVars
<1>3. CASE HandleTrigger
  BY <1>3 DEF ArmTypeOK, HandleTrigger, configVars, hwVars
<1>4. CASE HandleDone
  BY <1>4, EventsApart DEF ArmTypeOK, HandleDone, configVars, hwVars
<1>5. QED BY <1>1, <1>2, <1>3, <1>4

LEMMA TypeStep ==
  ASSUME ArmTypeOK, [ArmNext]_armVars
  PROVE  ArmTypeOK'
<1>1. ASSUME NEW t \in Clients, Client(t)
      PROVE  ArmTypeOK'
  <2>1. t \in Thread
    BY EventsApart
  <2>2. config \in Configs
    BY DEF ArmTypeOK
  <2>3. QED BY <1>1, <2>1, <2>2, WriteType, PrepareType, DisarmType DEF Client
<1>2. CASE EventsThread
  BY <1>2, EventsApart, EventsType, PrepareType DEF EventsThread
<1>3. CASE UNCHANGED armVars
  BY <1>3 DEF armVars, configVars, targetVars, hwVars, threadVars, ArmTypeOK
<1>4. QED BY <1>1, <1>2, <1>3, HardwareType DEF ArmNext

(***************************************************************************)
(* The flags and configurations are what sequencer.c and detector.c make   *)
(* of them, and each thread is where its operation can be: for any clients *)
(* and any operations.                                                     *)
(***************************************************************************)
THEOREM ArmTypeCorrect == ArmSpec => []ArmTypeOK
BY InitType, TypeStep, PTL DEF ArmSpec

-----------------------------------------------------------------------------
(* The course of a sequence that nobody abandons.                          *)

LEMMA OpsFixed == [ArmNext]_armVars => ops' = ops /\ (Straight' <=> Straight)
BY DEF ArmNext, armVars, Straight

\* Only these operations take place.
LEMMA StraightOps ==
  ASSUME Straight, NEW t \in Thread
  PROVE  /\ "count" \notin ops[t]
         /\ "disarm" \notin ops[t]
         /\ "reset" \notin ops[t]
BY DEF Straight

LEMMA InitCourse == ArmInit => CourseInv
BY DEF ArmInit, CourseInv, PrepareInv, CycleInv, FlagInv, Pending

LEMMA WriteCourse ==
  ASSUME ArmTypeOK, CourseInv, NEW c \in Configs, WriteFreq(c) \/ UpdateCount
  PROVE  CourseInv'
BY DEF ArmTypeOK, CourseInv, PrepareInv, CycleInv, FlagInv, Pending, WriteFreq,
       UpdateCount, targetVars, hwVars, threadVars

LEMMA StartArmCourse ==
  ASSUME ArmTypeOK, CourseInv, NEW t \in Thread, StartArm(t)
  PROVE  CourseInv'
<1> USE DEF StartArm, configVars, targetVars, hwVars
<1>1. PrepareInv'
  BY ClientsAssumption DEF ArmTypeOK, CourseInv, PrepareInv, Thread
<1>2. CycleInv'
  BY DEF CourseInv, CycleInv, Pending
<1>3. FlagInv'
  BY DEF CourseInv, FlagInv, Pending
<1>4. QED BY <1>1, <1>2, <1>3 DEF CourseInv

(***************************************************************************)
(* The next sequence starts with the flag of the records: nothing is left  *)
(* of the sequence before, and the scale is that of the old configuration. *)
(***************************************************************************)
LEMMA PrepareCourse ==
  ASSUME ArmTypeOK, CourseInv, NEW t \in Thread, PrepareSequencer(t)
  PROVE  CourseInv'
<1> USE DEF PrepareSequencer
<1>1. /\ trigMutex = t /\ armState = "IDLE"
      /\ hw = "IDLE" /\ events = {} /\ todo = {}
      /\ scale = hwConfig
  BY DEF CourseInv, PrepareInv, CycleInv, FlagInv, Pending
<1>2. PrepareInv'
  BY <1>1 DEF ArmTypeOK, CourseInv, PrepareInv
<1>3. CycleInv'
  BY <1>1 DEF CycleInv, Pending
<1>4. FlagInv'
  BY <1>1 DEF CourseInv, FlagInv, Pending
<1>5. QED BY <1>2, <1>3, <1>4 DEF CourseInv

LEMMA HardwareCourse ==
  ASSUME ArmTypeOK, CourseInv, Trigger \/ Done
  PROVE  CourseInv'
<1> USE DEF Trigger, Done, configVars, targetVars, threadVars
<1>1. PrepareInv'
  BY DEF CourseInv, PrepareInv
<1>2. CycleInv'
  BY DEF ArmTypeOK, CourseInv, CycleInv, Pending
<1>3. FlagInv'
  BY DEF ArmTypeOK, CourseInv, CycleInv, FlagInv, Pending
<1>4. QED BY <1>1, <1>2, <1>3 DEF CourseInv

LEMMA ReadCourse ==
  ASSUME ArmTypeOK, CourseInv, ReadEvents \/ Readout
  PROVE  CourseInv'
<1> USE DEF ReadEvents, Readout, configVars, targetVars, hwVars
<1>1. PrepareInv'
  BY DEF CourseInv, PrepareInv
<1>2. CycleInv'
  BY DEF ArmTypeOK, CourseInv, CycleInv, Pending
<1>3. FlagInv'
  BY DEF ArmTypeOK, CourseInv, CycleInv, FlagInv, Pending
<1>4. QED BY <1>1, <1>2, <1>3 DEF CourseInv

LEMMA HandleTriggerCourse ==
  ASSUME ArmTypeOK, CourseInv, HandleTrigger
  PROVE  CourseInv'
<1> USE DEF HandleTrigger, configVars, hwVars
<1>1. armState = "ARMED" /\ armState' = "BUSY"
  BY DEF CourseInv, CycleInv, Pending
<1>2. PrepareInv'
  BY <1>1 DEF CourseInv, PrepareInv
<1>3. CycleInv'
  BY <1>1 DEF ArmTypeOK, CourseInv, CycleInv, Pending
<1>4. FlagInv'
  BY <1>1 DEF ArmTypeOK, CourseInv, CycleInv, FlagInv, Pending
<1>5. QED BY <1>2, <1>3, <1>4 DEF CourseInv

(***************************************************************************)
(* A sequence that is done has been read out, so the scale is its own, and *)
(* has nothing left in the hardware when the target is armed again.        *)
(***************************************************************************)
LEMMA HandleDoneCourse ==
  ASSUME ArmTypeOK, CourseInv, HandleDone
  PROVE  CourseInv'
<1> USE DEF HandleDone, configVars, hwVars
<1>1. /\ armState = "BUSY" /\ armState' = "IDLE"
      /\ hw = "IDLE" /\ events = {} /\ scale = hwConfig
  BY DEF ArmTypeOK, CourseInv, CycleInv, FlagInv, Pending
<1>2. PrepareInv'
  BY <1>1, EventsApart DEF ArmTypeOK, CourseInv, PrepareInv
<1>3. CycleInv'
  BY <1>1 DEF CycleInv, Pending
<1>4. FlagInv'
  BY <1>1 DEF CourseInv, FlagInv, Pending
<1>5. QED BY <1>2, <1>3, <1>4 DEF CourseInv

LEMMA ClientCourse ==
  ASSUME ArmTypeOK, CourseInv, Straight, NEW t \in Clients, Client(t)
  PROVE  CourseInv'
<1>1. t \in Thread /\ config \in Configs
  BY EventsApart DEF ArmTypeOK
<1>2. pc[t] \in {"idle", "prepare"}
  BY <1>1 DEF CourseInv, PrepareInv
<1>3. ~ResetDisarm(t) /\ ~ResetAbort(t)
  BY <1>2 DEF ResetDisarm, ResetAbort
<1>4. \/ \E c \in Configs : WriteFreq(c) \/ UpdateCount
      \/ StartArm(t) \/ PrepareSequencer(t)
  BY <1>1, <1>3, StraightOps DEF Client
<1>5. QED BY <1>1, <1>4, WriteCourse, StartArmCourse, PrepareCourse

LEMMA CourseStep ==
  ASSUME ArmTypeOK, CourseInv, Straight, [ArmNext]_armVars
  PROVE  CourseInv'
<1>1. CASE EventsThread
  BY <1>1, EventsApart, ReadCourse, HandleTriggerCourse, HandleDoneCourse,
     PrepareCourse DEF EventsThread
<1>2. CASE UNCHANGED armVars
  BY <1>2 DEF armVars, configVars, targetVars, hwVars, threadVars, CourseInv,
              PrepareInv, CycleInv, FlagInv, Pending
<1>3. QED BY <1>1, <1>2, ClientCourse, HardwareCourse DEF ArmNext

LEMMA ArmInvStep == ArmInv /\ [ArmNext]_armVars => ArmInv'
<1> SUFFICES ASSUME ArmInv, [ArmNext]_armVars PROVE ArmInv'
  OBVIOUS
<1>1. ArmTypeOK'
  BY TypeStep DEF ArmInv
<1>2. (ops \in Scenarios)'
  BY OpsFixed DEF ArmInv
<1>3. (Straight => CourseInv)'
  BY OpsFixed, CourseStep DEF ArmInv
<1>4. QED BY <1>1, <1>2, <1>3 DEF ArmInv

(***************************************************************************)
(* prepare_sequencer() hands seq_config_dirty on to seq_hw_config_dirty    *)
(* and detector_readout_event() acts upon it: as long as every sequence is *)
(* left to its end and edits flag themselves, the scale published with the *)
(* data is that of the configuration the sequence ran with, and no edit is *)
(* forgotten, whoever edits and arms in the meantime.                      *)
(***************************************************************************)
THEOREM ConfigurationFollows == ArmSpec => []ConfigFollows
<1>1. ArmInit => ArmInv
  BY InitType, InitCourse DEF ArmInv, ArmInit
<1>2. ArmInv => ConfigFollows
  BY DEF ArmInv, CourseInv, CycleInv, FlagInv, Pending, ConfigFollows,
         ScaleFollows, ScaleAccurate, HwConfigTruthful, EditFlagged
<1>3. QED BY <1>1, <1>2, ArmInvStep, PTL DEF ArmSpec

-----------------------------------------------------------------------------
(***************************************************************************)
(* Targets and sequencer, see MCTriggers.                                  *)
(***************************************************************************)
\* A behaviour of both is one of each part: the state of a target, its lock
\* and the flags of a sequencer keep their types (trigger_target.c,
\* sequencer.c).
THEOREM TriggerTypesCorrect == MCSpec => []TypesOK
<1>1. MCSpec => Spec
  <2>1. MCInit => Init
    BY DEF MCInit
  <2>2. [MCTargets \/ MCSequencer]_mcVars => [Next]_vars
    BY DEF MCTargets, MCSequencer, mcVars, armVars
  <2>3. QED BY <2>1, <2>2, PTL DEF MCSpec, Spec
<1>2. MCSpec => ArmSpec
  <2>1. MCInit => ArmInit
    BY DEF MCInit
  <2>2. [MCTargets \/ MCSequencer]_mcVars => [ArmNext]_armVars
    BY DEF MCTargets, MCSequencer, mcVars, vars
  <2>3. QED BY <2>1, <2>2, PTL DEF MCSpec, ArmSpec
<1>3. TypeOK /\ ArmTypeOK => TypesOK
  BY DEF TypesOK
<1>4. QED BY <1>1, <1>2, <1>3, TypeCorrect, ArmTypeCorrect, PTL


=============================================================================
