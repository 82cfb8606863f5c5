---------------------------- MODULE TriggerSystem ----------------------------
(***************************************************************************)
(* The trigger targets together with the hardware they control and the     *)
(* thread that hears back from it: the trigger handlers of the FPGA        *)
(* (trigger_handler.vhd), the engines they start (sequencer_pc.vhd,        *)
(* fast_memory_control.vhd), the interrupts (dsp_interrupts.vhd, latched   *)
(* by the driver until they are read) and events_thread() with the         *)
(* handlers of epics/src/memory.c, detector.c and triggers.c.              *)
(*                                                                         *)
(* TriggerTarget gives the operations.  Here the register writes of one    *)
(* (`issued') reach the hardware one by one, while the operation keeps     *)
(* trigger_mutex: the hardware can move between any two of them.           *)
(***************************************************************************)
EXTENDS TriggerTarget

CONSTANT
  Scenarios   \* what the operators and readers of a run do, and to which targets

Operations == {"arm", "disarm", "mode", "shared", "capture", "read"}

\* Sequencers are the first of enum trigger_target_id: their number is the axis.
ASSUME SeqsAssumption == Seqs \subseteq Nat
ASSUME ScenariosAssumption ==
  Scenarios \subseteq [ops : SUBSET Operations, used : SUBSET Target]

VARIABLES
  hwTrig,   \* trigger_handler trig_state, by target
  engine,   \* what the target triggers: a sequencer or the memory capture
  events,   \* interrupts raised and not yet read, <<"trigger" | "complete", t>>
  todo,     \* handler calls the events thread has still to make
  scenario  \* the scenario of this run

hwVars == <<hwTrig, engine, events>>
swVars == vars
sysVars == <<vars, hwTrig, engine, events, todo, scenario>>

Event == {"trigger", "complete"} \X Target
Step == {"readout", "trigger", "complete"} \X Target

SysTypeOK ==
  /\ TypeOK
  /\ hwTrig \in [Target -> {"IDLE", "ARMED", "TRIGGERED"}]
  /\ engine \in [Target -> {"IDLE", "RUNNING", "RUNOUT"}]
  /\ events \subseteq Event
  /\ todo \subseteq Step
  /\ scenario \in Scenarios

SysInit ==
  /\ Init
  /\ hwTrig = [t \in Target |-> "IDLE"]
  /\ engine = [t \in Target |-> "IDLE"]
  /\ events = {}
  /\ todo = {}
  /\ scenario \in Scenarios

-----------------------------------------------------------------------------
(* The register writes of an operation, in the order it makes them.        *)

MutexFree == issued = NoWrites

\* trg_control.disarm: back to idle, even after the trigger if it is delayed.
WriteDisarm ==
  /\ issued.disarm # {}
  /\ hwTrig' = [t \in Target |->
                  IF t \in issued.disarm THEN "IDLE" ELSE hwTrig[t]]
  /\ issued' = [issued EXCEPT !.disarm = {}]
  /\ UNCHANGED <<engine, events>>

\* Mutant of WritePrepare: the memory is not started.
WritePrepareIdle ==
  /\ issued.disarm = {} /\ issued.prepare # {}
  /\ issued' = [issued EXCEPT !.prepare = {}]
  /\ UNCHANGED <<engine, hwTrig, events>>

\* prepare_target(): the memory starts to capture, if it is not capturing.
WritePrepare ==
  /\ issued.disarm = {} /\ issued.prepare # {}
  /\ engine' = [t \in Target |->
                  IF t \in issued.prepare \cap {Dram} /\ engine[t] = "IDLE"
                  THEN "RUNNING" ELSE engine[t]]
  /\ issued' = [issued EXCEPT !.prepare = {}]
  /\ UNCHANGED <<hwTrig, events>>

\* trg_control.arm: ignored by a trigger handler that is not idle.
WriteArm ==
  /\ issued.disarm \cup issued.prepare = {} /\ issued.arm # {}
  /\ hwTrig' = [t \in Target |->
                  IF t \in issued.arm /\ hwTrig[t] = "IDLE"
                  THEN "ARMED" ELSE hwTrig[t]]
  /\ issued' = [issued EXCEPT !.arm = {}]
  /\ UNCHANGED <<engine, events>>

\* trg_control.fire: triggers whether armed or not.
WriteFire ==
  /\ issued.disarm \cup issued.prepare \cup issued.arm = {}
  /\ issued.fire # {}
  /\ hwTrig' = [t \in Target |->
                  IF t \in issued.fire THEN "TRIGGERED" ELSE hwTrig[t]]
  /\ issued' = [issued EXCEPT !.fire = {}]
  /\ UNCHANGED <<engine, events>>

\* trg_control.trigger: triggers the armed targets that enable this source.
WriteSoft ==
  /\ issued.disarm \cup issued.prepare \cup issued.arm \cup issued.fire = {}
  /\ issued.soft
  /\ \E S \in SUBSET {t \in Target : hwTrig[t] = "ARMED"} :
       hwTrig' = [t \in Target |->
                    IF t \in S THEN "TRIGGERED" ELSE hwTrig[t]]
  /\ issued' = [issued EXCEPT !.soft = FALSE]
  /\ UNCHANGED <<engine, events>>

WriteRegister ==
  /\ WriteDisarm \/ WritePrepare \/ WriteArm \/ WriteFire \/ WriteSoft
  /\ UNCHANGED <<mode, dontRearm, state, lockCount, retriggerMode,
                 shDontRearm, shState, waiting, holding, todo>>

-----------------------------------------------------------------------------
(* The hardware.                                                           *)

\* One of the enabled trigger sources fires.
ExternalTrigger(t) ==
  /\ hwTrig[t] = "ARMED"
  /\ hwTrig' = [hwTrig EXCEPT ![t] = "TRIGGERED"]
  /\ UNCHANGED <<engine, events>>

\* The trigger delay has run out: trigger_o starts the sequencer, or the
\* run-out of a memory capture.  A sequencer that is busy ignores it.
TriggerOut(t) ==
  /\ hwTrig[t] = "TRIGGERED"
  /\ hwTrig' = [hwTrig EXCEPT ![t] = "IDLE"]
  /\ events' = events \cup {<<"trigger", t>>}
  /\ engine' = [engine EXCEPT ![t] =
                  IF t \in Seqs THEN "RUNNING"
                  ELSE IF @ = "RUNNING" THEN "RUNOUT" ELSE @]

\* The sequencer is back in state 0, by itself or by hw_write_seq_abort(), or
\* the memory has captured its run-out.
EngineDone(t) ==
  /\ engine[t] = IF t \in Seqs THEN "RUNNING" ELSE "RUNOUT"
  /\ engine' = [engine EXCEPT ![t] = "IDLE"]
  /\ events' = events \cup {<<"complete", t>>}
  /\ UNCHANGED hwTrig

Hardware ==
  /\ \E t \in Target : ExternalTrigger(t) \/ TriggerOut(t) \/ EngineDone(t)
  /\ UNCHANGED <<swVars, todo>>

-----------------------------------------------------------------------------
(* The events thread.                                                      *)

\* FOR_ALL_TARGETS: the sequencers, and then the memory.
TargetBefore(t, u) == t # Dram /\ (u # Dram => t < u)

\* dispatch_target_events(): target by target, the trigger first.
DispatchBefore(s, o) ==
  TargetBefore(s[2], o[2]) \/ (s[2] = o[2] /\ s[1] = "trigger")

\* The memory, and then the detector of each axis.
ReadoutBefore(t, u) == u # Dram /\ (t # Dram => t < u)

\* Mutant of HandledBefore: the readout comes last.
ReadoutLast(s, o) ==
  \/ s[1] # "readout" /\ (o[1] = "readout" \/ DispatchBefore(s, o))
  \/ s[1] = "readout" /\ o[1] = "readout" /\ ReadoutBefore(s[2], o[2])

\* The handlers in the order of enum interrupt_handler_index: the memory and
\* the detectors are read out, then dispatch_target_events().
HandledBefore(s, o) ==
  \/ s[1] = "readout" /\ (o[1] # "readout" \/ ReadoutBefore(s[2], o[2]))
  \/ s[1] # "readout" /\ o[1] # "readout" /\ DispatchBefore(s, o)

\* The call that the events thread makes next.
Handles(s) == s \in todo /\ \A o \in todo \ {s} : HandledBefore(s, o)

\* hw_read_interrupt_events() returns all the events seen, and clears them.
ReadEvents ==
  /\ todo = {} /\ events # {}
  /\ todo' = events \cup {<<"readout", t>> : t \in
                            {u \in Target : <<"complete", u>> \in events}}
  /\ events' = {}
  /\ UNCHANGED <<swVars, hwTrig, engine>>

\* capture_complete() or detector_readout_event(): reads the captured data.
Readout ==
  /\ \E t \in Target :
       /\ Handles(<<"readout", t>>)
       /\ todo' = todo \ {<<"readout", t>>}
  /\ UNCHANGED <<swVars, hwVars>>

\* dispatch_target_events(), one call at a time.
DispatchTarget ==
  /\ MutexFree
  /\ \E t \in Target :
       \/ /\ Handles(<<"trigger", t>>) /\ TriggerEvent(t)
          /\ todo' = todo \ {<<"trigger", t>>}
       \/ /\ Handles(<<"complete", t>>) /\ CompleteEvent(t)
          /\ todo' = todo \ {<<"complete", t>>}
  /\ UNCHANGED hwVars

EventsThread == ReadEvents \/ Readout \/ DispatchTarget

-----------------------------------------------------------------------------
(* The operators and the readers.                                          *)

Does(op) == op \in scenario.ops

Operator ==
  /\ MutexFree
  /\ \/ Does("arm") /\ \E t \in scenario.used : ArmTarget(t)
     \/ Does("disarm") /\ \E t \in scenario.used : DisarmTarget(t)
     \/ Does("mode") /\ \E t \in scenario.used, m \in Mode : SetMode(t, m)
     \/ Does("mode") /\ \E b \in BOOLEAN : SharedSetMode(b)
     \/ Does("shared") /\ SharedArm
     \/ Does("shared") /\ Does("disarm") /\ SharedDisarm
     \/ Does("capture") /\ ImmediateMemoryCapture
  /\ UNCHANGED <<hwVars, todo>>

Reader ==
  /\ MutexFree /\ Does("read")
  /\ \E r \in Readers, t \in scenario.used :
       \/ LockReady(r, t) \/ LockWait(r, t)
       \/ WaitReady(r, t) \/ WaitFail(r, t) \/ Unlock(r, t)
  /\ UNCHANGED <<hwVars, todo>>

SysNext ==
  /\ WriteRegister \/ Hardware \/ EventsThread \/ Operator \/ Reader
  /\ UNCHANGED scenario

(***************************************************************************)
(* The hardware runs on its own clock: delays and captures end.  A thread  *)
(* that holds trigger_mutex goes on to release it, and the events thread   *)
(* is never stopped while the system runs.                                 *)
(***************************************************************************)
SysFairness ==
  /\ WF_sysVars(WriteRegister /\ UNCHANGED scenario)
  /\ WF_sysVars((ReadEvents \/ Readout) /\ UNCHANGED scenario)
  /\ SF_sysVars(DispatchTarget /\ UNCHANGED scenario)
  /\ \A t \in Target :
       /\ WF_sysVars(TriggerOut(t) /\ UNCHANGED <<swVars, todo, scenario>>)
       /\ WF_sysVars(EngineDone(t) /\ UNCHANGED <<swVars, todo, scenario>>)

SysSpec == SysInit /\ [][SysNext]_sysVars
FairSysSpec == SysSpec /\ SysFairness

-----------------------------------------------------------------------------
(* Properties.                                                             *)

Capturing(t) == hwTrig[t] # "IDLE" \/ engine[t] # "IDLE"

(***************************************************************************)
(* While a reader holds a target, not only the software state but the      *)
(* hardware is at rest: nothing is armed, about to trigger or capturing    *)
(* into the memory the reader is sending.                                  *)
(***************************************************************************)
ReaderUndisturbed ==
  \A t \in Target : holding[t] # {} => ~Capturing(t)

(***************************************************************************)
(* The order of enum interrupt_handler_index: when the events thread reads *)
(* out a completed capture, nothing has re-armed the target yet, neither   *)
(* the automatic re-arming nor an operator -- unless it was disarmed.      *)
(***************************************************************************)
ReadoutBeforeRearm ==
  \A t \in Target :
    Handles(<<"readout", t>>) /\ ~Does("disarm") => ~Capturing(t)

(***************************************************************************)
(* dispatch_target_events() finds each target in the state it expects:     *)
(* the branches "Unexpected trigger" and "Unexpected complete" are never   *)
(* taken, in particular when both events arrive in one read -- as long as  *)
(* nothing is disarmed.                                                    *)
(***************************************************************************)
EventsExpected ==
  \A t \in Target : MutexFree /\ ~Does("disarm") =>
    /\ Handles(<<"trigger", t>>) => state[t] = "ARMED"
    /\ Handles(<<"complete", t>>) => state[t] = "BUSY"

(***************************************************************************)
(* A busy target becomes idle again, or armed again, whatever events of    *)
(* abandoned captures are still on their way.  Only the memory may stay    *)
(* busy, and only if it is disarmed: the trigger event of a capture that   *)
(* was stopped, handled after the next arm, leaves it busy before it has   *)
(* been triggered, and disarm_target() then no longer fires it.            *)
(***************************************************************************)
BusyForEver(t) == t = Dram /\ Does("disarm") /\ engine[t] = "RUNNING"
BusyEnds == \A t \in Target : []<>(state[t] # "BUSY" \/ BusyForEver(t))

(***************************************************************************)
(* What the software shows as armed can be triggered, or will soon be seen *)
(* to have been: in particular the memory, which stop_mem_target() leaves  *)
(* armed and makes fire, whatever trigger the hardware had in hand and     *)
(* whatever events of it merge, unless it is disarmed again and again.     *)
(***************************************************************************)
ArmedEnds ==
  \A t \in Target :
    []<>(state[t] # "ARMED" \/ hwTrig[t] = "ARMED" \/ t \in issued.disarm)

(***************************************************************************)
(* The events of one read are handled in the only order that works: the    *)
(* readout before the re-arming, the trigger before the completion         *)
(* (events_thread, dispatch_target_events).                                *)
(***************************************************************************)
EventsInOrder == ReadoutBeforeRearm /\ EventsExpected

=============================================================================
