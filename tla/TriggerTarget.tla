---------------------------- MODULE TriggerTarget ----------------------------
(***************************************************************************)
(* Software management of the trigger targets of one MBF system, from      *)
(* epics/src/trigger_target.c: the two sequencers and the DRAM capture     *)
(* memory, each armed on its own or together with the other "shared"       *)
(* targets, and locked by the socket readers that are sending captured     *)
(* data.                                                                   *)
(*                                                                         *)
(* Every operation runs under the one trigger_mutex, so each is an action. *)
(* `issued' holds the register writes of the last operation, for the       *)
(* modules that add the hardware.                                          *)
(*                                                                         *)
(* An operation that ends in update_global_state() or arm_shared_targets() *)
(* is the conjunction of what it assigns itself (mode', lockCount') and of *)
(* one of the operators UpdateGlobalState, ArmSharedTargets, ArmOneTarget, *)
(* which take the values the operation has computed so far (st for         *)
(* target->state, dr for target->dont_rearm, w for the writes) and assign  *)
(* the rest.                                                               *)
(***************************************************************************)
EXTENDS Naturals, FiniteSets

CONSTANTS
  Seqs,     \* the sequencer targets (SEQ0 and SEQ1, only SEQ0 in LMBF mode)
  Dram,     \* the memory capture target
  Readers   \* socket connections that may ask for a readout lock

ASSUME DramAssumption == Dram \notin Seqs
ASSUME ReadersAssumption == IsFiniteSet(Readers)

Target == Seqs \cup {Dram}

Mode == {"ONE_SHOT", "REARM", "SHARED", "FREE_RUN"}
TargetState == {"IDLE", "ARMED", "BUSY", "LOCKED"}
SharedState == {"IDLE", "ARMED", "LOCKED", "BUSY", "MIXED", "INVALID"}

VARIABLES
  mode,           \* target->mode
  dontRearm,      \* target->dont_rearm
  state,          \* target->state
  lockCount,      \* target->lock_count
  retriggerMode,  \* shared.retrigger_mode
  shDontRearm,    \* shared.dont_rearm
  shState,        \* shared.state
  waiting,        \* readers blocked in wait_trigger_ready(), by target
  holding,        \* readers that own a lock on the target
  issued          \* register writes of the last operation

lockVars == <<lockCount, waiting, holding>>
vars == <<mode, dontRearm, state, lockCount, retriggerMode, shDontRearm,
          shState, waiting, holding, issued>>

(***************************************************************************)
(* The register writes one operation makes.  No operation makes them in    *)
(* another order than: disarm, prepare, arm, fire, soft trigger.           *)
(***************************************************************************)
Writes == [disarm : SUBSET Target, prepare : SUBSET Target,
           arm : SUBSET Target, fire : SUBSET Target, soft : BOOLEAN]
NoWrites == [disarm |-> {}, prepare |-> {}, arm |-> {}, fire |-> {},
             soft |-> FALSE]

TypeOK ==
  /\ mode \in [Target -> Mode]
  /\ dontRearm \in [Target -> BOOLEAN]
  /\ state \in [Target -> TargetState]
  /\ lockCount \in [Target -> Nat]
  /\ retriggerMode \in BOOLEAN
  /\ shDontRearm \in BOOLEAN
  /\ shState \in SharedState
  /\ waiting \in [Target -> SUBSET Readers]
  /\ holding \in [Target -> SUBSET Readers]
  /\ issued \in Writes

Init ==
  /\ mode = [t \in Target |-> "ONE_SHOT"]
  /\ dontRearm = [t \in Target |-> FALSE]
  /\ state = [t \in Target |-> "IDLE"]
  /\ lockCount = [t \in Target |-> 0]
  /\ retriggerMode = FALSE
  /\ shDontRearm = TRUE
  /\ shState = "IDLE"
  /\ waiting = [t \in Target |-> {}]
  /\ holding = [t \in Target |-> {}]
  /\ issued = NoWrites

-----------------------------------------------------------------------------
(* What the operations compute.                                            *)

\* The underlying state is idle: a reader may be given the lock.
Ready(s) == s \in {"IDLE", "LOCKED"}

SharedTargets(md) == {t \in Target : md[t] = "SHARED"}

\* compute_global_state(): the state of the shared targets taken together.
GlobalState(md, st) ==
  LET seen == {st[t] : t \in SharedTargets(md)}
  IN  IF "LOCKED" \in seen
      THEN IF seen \cap {"ARMED", "BUSY"} # {} THEN "INVALID" ELSE "LOCKED"
      ELSE IF "ARMED" \in seen
      THEN IF seen \cap {"BUSY", "IDLE"} # {} THEN "MIXED" ELSE "ARMED"
      ELSE IF "BUSY" \in seen THEN "BUSY" ELSE "IDLE"

\* Mutant of LockedTargets: a single lock is overlooked.
LockedTwice(md, lk) == {t \in SharedTargets(md) : lk[t] > 1}

LockedTargets(md, lk) == {t \in SharedTargets(md) : lk[t] > 0}

\* The state do_disarm_target() leaves: a sequencer stops at once, the memory
\* stays armed and is made to fire.
Stopped(t, s) ==
  IF (s = "ARMED" /\ t \in Seqs) \/ s = "LOCKED" THEN "IDLE" ELSE s

-----------------------------------------------------------------------------
(* The common tails of the operations.                                     *)

\* An operation that neither arms nor touches the shared state.
Settle(st, dr, w) ==
  /\ state' = st
  /\ dontRearm' = dr
  /\ issued' = w
  /\ UNCHANGED <<shState, shDontRearm>>

\* arm_shared_targets(), called in shared state gs.
ArmSharedTargets(st, dr, gs, w) ==
  LET S == SharedTargets(mode')
      L == LockedTargets(mode', lockCount')
  IN  /\ shDontRearm' = FALSE
      /\ \/ /\ gs \in {"IDLE", "LOCKED"} /\ L # {}
            /\ state' = [t \in Target |-> IF t \in L THEN "LOCKED" ELSE st[t]]
            /\ shState' = "LOCKED"
            /\ dontRearm' = dr
            /\ issued' = w
         \/ /\ gs \in {"IDLE", "LOCKED"} /\ L = {} /\ S # {}
            /\ LET A == {t \in S : Ready(st[t])}
               IN  /\ state' = [t \in Target |->
                                  IF t \in A THEN "ARMED" ELSE st[t]]
                   /\ dontRearm' = [t \in Target |-> t \notin A /\ dr[t]]
                   /\ issued' = [w EXCEPT !.prepare = A, !.arm = S]
            /\ shState' = "ARMED"
         \/ /\ gs \notin {"IDLE", "LOCKED"} \/ S = {}
            /\ state' = st
            /\ shState' = gs
            /\ dontRearm' = dr
            /\ issued' = w

\* update_global_state(), with sdr the current shared.dont_rearm.
UpdateGlobalState(st, dr, sdr, w) ==
  LET gs == GlobalState(mode', st)
      doRearm == \/ gs = "IDLE" /\ retriggerMode /\ ~sdr
                 \/ gs = "LOCKED" /\ LockedTargets(mode', lockCount') = {}
  IN  \/ /\ doRearm
         /\ ArmSharedTargets(st, dr, gs, w)
      \/ /\ ~doRearm
         /\ state' = st
         /\ shState' = gs
         /\ dontRearm' = dr
         /\ shDontRearm' = sdr
         /\ issued' = w

\* Mutant of ArmOneTarget: arms without looking at the lock count.
ArmAtOnce(t, st, w) ==
  \/ /\ Ready(st[t])
     /\ Settle([st EXCEPT ![t] = "ARMED"], [dontRearm EXCEPT ![t] = FALSE],
               [w EXCEPT !.prepare = {t}, !.arm = {t}])
  \/ /\ ~Ready(st[t])
     /\ Settle(st, dontRearm, w)

\* arm_target() of a target that is not shared.
ArmOneTarget(t, st, w) ==
  \/ /\ Ready(st[t]) /\ lockCount'[t] = 0
     /\ Settle([st EXCEPT ![t] = "ARMED"], [dontRearm EXCEPT ![t] = FALSE],
               [w EXCEPT !.prepare = {t}, !.arm = {t}])
  \/ /\ Ready(st[t]) /\ lockCount'[t] > 0
     /\ Settle([st EXCEPT ![t] = "LOCKED"], dontRearm, w)
  \/ /\ ~Ready(st[t])
     /\ Settle(st, dontRearm, w)

\* disarm_shared_targets(), all of it.
DisarmSharedTargets ==
  LET S == SharedTargets(mode)
  IN  UpdateGlobalState(
        [t \in Target |-> IF t \in S THEN Stopped(t, state[t]) ELSE state[t]],
        [t \in Target |-> t \in S \/ dontRearm[t]],
        TRUE,
        [NoWrites EXCEPT
           !.disarm = S,
           !.fire = {t \in S \cap {Dram} : state[t] = "ARMED"}])

-----------------------------------------------------------------------------
(* Hardware events, delivered by the events thread.                        *)

\* trigger_target_trigger(); the last disjunct is the "Unexpected trigger".
TriggerEvent(t) ==
  /\ UNCHANGED <<mode, retriggerMode, lockVars>>
  /\ LET st == [state EXCEPT ![t] = "BUSY"]
     IN  \/ /\ state[t] = "ARMED" /\ mode[t] = "SHARED"
            /\ UpdateGlobalState(st, dontRearm, shDontRearm, NoWrites)
         \/ /\ state[t] = "ARMED" /\ mode[t] # "SHARED"
            /\ Settle(st, dontRearm, NoWrites)
         \/ /\ state[t] # "ARMED"
            /\ Settle(state, dontRearm, NoWrites)

\* Whether trigger_target_complete() re-arms the target by itself.
AutoRearm(t) == mode[t] \in {"REARM", "FREE_RUN"} /\ ~dontRearm[t]

\* trigger_target_complete().  Its broadcast only wakes the waiters, whose
\* re-check is WaitReady.
CompleteEvent(t) ==
  /\ UNCHANGED <<mode, retriggerMode, lockVars>>
  /\ LET st == [state EXCEPT ![t] = "IDLE"]
     IN  \/ /\ state[t] = "BUSY" /\ mode[t] = "SHARED"
            /\ UpdateGlobalState(st, dontRearm, shDontRearm, NoWrites)
         \/ /\ state[t] = "BUSY" /\ AutoRearm(t)
            /\ ArmOneTarget(t, st,
                 [NoWrites EXCEPT !.soft = (mode[t] = "FREE_RUN")])
         \/ /\ state[t] = "BUSY" /\ mode[t] # "SHARED" /\ ~AutoRearm(t)
            /\ Settle(st, dontRearm, NoWrites)
         \/ /\ state[t] # "BUSY"
            /\ Settle(state, dontRearm, NoWrites)

-----------------------------------------------------------------------------
(* User requests, from EPICS.                                              *)

\* trigger_target_arm()
ArmTarget(t) ==
  /\ UNCHANGED <<mode, retriggerMode, lockVars>>
  /\ \/ /\ mode[t] = "SHARED"
        /\ ArmSharedTargets(state, dontRearm, shState, NoWrites)
     \/ /\ mode[t] # "SHARED"
        /\ ArmOneTarget(t, state, NoWrites)

\* Mutant of DisarmTarget: nothing makes the memory fire.
DisarmUnfired(t) ==
  /\ UNCHANGED <<mode, retriggerMode, lockVars>>
  /\ \/ mode[t] = "SHARED" /\ DisarmSharedTargets
     \/ /\ mode[t] # "SHARED"
        /\ Settle([state EXCEPT ![t] = Stopped(t, @)],
                  [dontRearm EXCEPT ![t] = TRUE],
                  [NoWrites EXCEPT !.disarm = {t}])

\* trigger_target_disarm()
DisarmTarget(t) ==
  /\ UNCHANGED <<mode, retriggerMode, lockVars>>
  /\ \/ /\ mode[t] = "SHARED"
        /\ DisarmSharedTargets
     \/ /\ mode[t] # "SHARED"
        /\ Settle([state EXCEPT ![t] = Stopped(t, @)],
                  [dontRearm EXCEPT ![t] = TRUE],
                  [NoWrites EXCEPT
                     !.disarm = {t},
                     !.fire = IF t = Dram /\ state[t] = "ARMED"
                              THEN {t} ELSE {}])

\* Mutant of SetMode: the shared state is only updated on joining the others.
SetModeLazily(t, m) ==
  /\ mode' = [mode EXCEPT ![t] = m]
  /\ UNCHANGED <<retriggerMode, lockVars>>
  /\ \/ m = "SHARED" /\ UpdateGlobalState(state, dontRearm, shDontRearm, NoWrites)
     \/ m # "SHARED" /\ Settle(state, dontRearm, NoWrites)

\* trigger_target_set_mode(); the update runs whether or not t is shared.
SetMode(t, m) ==
  /\ mode' = [mode EXCEPT ![t] = m]
  /\ UNCHANGED <<retriggerMode, lockVars>>
  /\ UpdateGlobalState(state, dontRearm, shDontRearm, NoWrites)

\* shared_trigger_target_arm()
SharedArm ==
  /\ UNCHANGED <<mode, retriggerMode, lockVars>>
  /\ ArmSharedTargets(state, dontRearm, shState, NoWrites)

\* shared_trigger_target_disarm()
SharedDisarm ==
  /\ UNCHANGED <<mode, retriggerMode, lockVars>>
  /\ DisarmSharedTargets

\* shared_trigger_set_mode()
SharedSetMode(b) ==
  /\ retriggerMode' = b
  /\ UNCHANGED <<mode, lockVars>>
  /\ Settle(state, dontRearm, NoWrites)

\* Mutant of ImmediateMemoryCapture: only the state is looked at.
CaptureAnyway ==
  /\ Ready(state[Dram])
  /\ UNCHANGED <<mode, retriggerMode, lockVars>>
  /\ LET st == [state EXCEPT ![Dram] = "ARMED"]
         dr == [dontRearm EXCEPT ![Dram] = TRUE]
         w == [NoWrites EXCEPT !.prepare = {Dram}, !.fire = {Dram}]
     IN  IF mode[Dram] = "SHARED"
         THEN UpdateGlobalState(st, dr, shDontRearm, w)
         ELSE Settle(st, dr, w)

\* immediate_memory_capture(): fires the memory without arming the hardware.
ImmediateMemoryCapture ==
  /\ lockCount[Dram] = 0 /\ state[Dram] = "IDLE"
  /\ UNCHANGED <<mode, retriggerMode, lockVars>>
  /\ LET st == [state EXCEPT ![Dram] = "ARMED"]
         dr == [dontRearm EXCEPT ![Dram] = TRUE]
         w == [NoWrites EXCEPT !.prepare = {Dram}, !.fire = {Dram}]
     IN  \/ /\ mode[Dram] = "SHARED"
            /\ UpdateGlobalState(st, dr, shDontRearm, w)
         \/ /\ mode[Dram] # "SHARED"
            /\ Settle(st, dr, w)

-----------------------------------------------------------------------------
(* Readout locks, taken by the socket command threads.                     *)

\* A connection handles one command at a time.
Idle(r) == \A t \in Target : r \notin waiting[t] \cup holding[t]

\* decrement_trigger_lock_count() and process_target_unlocked(): the pending
\* arm request is honoured when the last lock goes.
DecrementLockCount(t) ==
  /\ lockCount' = [lockCount EXCEPT ![t] = @ - 1]
  /\ UNCHANGED <<mode, retriggerMode>>
  /\ \/ /\ lockCount[t] = 1 /\ mode[t] = "SHARED"
        /\ UpdateGlobalState(state, dontRearm, shDontRearm, NoWrites)
     \/ /\ lockCount[t] = 1 /\ mode[t] # "SHARED" /\ state[t] = "LOCKED"
        /\ ArmOneTarget(t, state, NoWrites)
     \/ /\ lockCount[t] # 1 \/ (mode[t] # "SHARED" /\ state[t] # "LOCKED")
        /\ Settle(state, dontRearm, NoWrites)

\* lock_trigger_ready() of a target that is ready.  A call with timeout zero
\* on a target that is not ready fails without any effect.
LockReady(r, t) ==
  /\ Idle(r) /\ Ready(state[t])
  /\ lockCount' = [lockCount EXCEPT ![t] = @ + 1]
  /\ holding' = [holding EXCEPT ![t] = @ \cup {r}]
  /\ UNCHANGED <<mode, retriggerMode, waiting>>
  /\ Settle(state, dontRearm, NoWrites)

\* Mutant of LockWait: the lock is not counted while waiting.
LockWaitUncounted(r, t) ==
  /\ Idle(r) /\ ~Ready(state[t])
  /\ waiting' = [waiting EXCEPT ![t] = @ \cup {r}]
  /\ UNCHANGED <<mode, retriggerMode, lockCount, holding>>
  /\ Settle(state, dontRearm, NoWrites)

\* lock_trigger_ready() with a timeout: the lock is counted while waiting.
LockWait(r, t) ==
  /\ Idle(r) /\ ~Ready(state[t])
  /\ lockCount' = [lockCount EXCEPT ![t] = @ + 1]
  /\ waiting' = [waiting EXCEPT ![t] = @ \cup {r}]
  /\ UNCHANGED <<mode, retriggerMode, holding>>
  /\ Settle(state, dontRearm, NoWrites)

\* wait_trigger_ready() wakes (broadcast, tick or deadline) and succeeds.
WaitReady(r, t) ==
  /\ r \in waiting[t] /\ Ready(state[t])
  /\ waiting' = [waiting EXCEPT ![t] = @ \ {r}]
  /\ holding' = [holding EXCEPT ![t] = @ \cup {r}]
  /\ UNCHANGED <<mode, retriggerMode, lockCount>>
  /\ Settle(state, dontRearm, NoWrites)

\* wait_trigger_ready() fails: last tick reached or client disconnected.
WaitFail(r, t) ==
  /\ r \in waiting[t] /\ ~Ready(state[t])
  /\ waiting' = [waiting EXCEPT ![t] = @ \ {r}]
  /\ UNCHANGED holding
  /\ DecrementLockCount(t)

\* unlock_trigger_ready()
Unlock(r, t) ==
  /\ r \in holding[t]
  /\ holding' = [holding EXCEPT ![t] = @ \ {r}]
  /\ UNCHANGED waiting
  /\ DecrementLockCount(t)

-----------------------------------------------------------------------------
EventStep == \E t \in Target : TriggerEvent(t) \/ CompleteEvent(t)

ReaderStep == \E r \in Readers, t \in Target :
  \/ LockReady(r, t)
  \/ LockWait(r, t)
  \/ WaitReady(r, t)
  \/ WaitFail(r, t)
  \/ Unlock(r, t)

UserStep ==
  \/ \E t \in Target : ArmTarget(t) \/ DisarmTarget(t)
  \/ SharedArm
  \/ SharedDisarm
  \/ \E b \in BOOLEAN : SharedSetMode(b)
  \/ ImmediateMemoryCapture

ModeStep == \E t \in Target, m \in Mode : SetMode(t, m)

Next == EventStep \/ ReaderStep \/ UserStep \/ ModeStep

Spec == Init /\ [][Next]_vars

(***************************************************************************)
(* A waiting reader is woken by its deadline at the latest, every 10       *)
(* seconds, and then looks at the target again.                            *)
(***************************************************************************)
ReaderFairness ==
  \A r \in Readers, t \in Target : WF_vars(WaitReady(r, t))
FairSpec == Spec /\ ReaderFairness

-----------------------------------------------------------------------------
(* Properties.                                                             *)

(***************************************************************************)
(* The published shared state is always the one the table above            *)
(* compute_global_state() gives for the shared targets: no operation       *)
(* forgets the update, and arm_shared_targets(), which assigns it without  *)
(* computing it, assigns the right one.                                    *)
(***************************************************************************)
SharedStateConsistent == shState = GlobalState(mode, state)

(***************************************************************************)
(* lock_count is the number of readers that hold the target or wait for    *)
(* it, on every path of lock_trigger_ready() and unlock_trigger_ready(),   *)
(* so that decrementing it never wraps.                                    *)
(***************************************************************************)
LockCountExact ==
  \A t \in Target :
    /\ waiting[t] \cap holding[t] = {}
    /\ lockCount[t] = Cardinality(waiting[t] \cup holding[t])

(***************************************************************************)
(* While a reader sends the data of a target, that target is neither armed *)
(* nor busy, whatever is asked of it meanwhile: single and shared arming,  *)
(* mode changes, automatic re-arming, immediate capture.                   *)
(***************************************************************************)
HeldIsReady == \A t \in Target : holding[t] # {} => Ready(state[t])

(***************************************************************************)
(* "This ensures that when we do become ready the trigger will remain      *)
(* locked" (lock_trigger_ready()): a ready target that anyone holds or     *)
(* waits for stays ready until the last of them has gone.                  *)
(***************************************************************************)
ReadyStable ==
  [][\A t \in Target :
       Ready(state[t]) /\ lockCount[t] > 0 /\ lockCount'[t] > 0
         => Ready(state'[t])]_vars

(***************************************************************************)
(* Seen from the readers, the trigger targets implement ReadoutExclusion:  *)
(* a target is capturing from the arm to the completion or disarm.         *)
(***************************************************************************)
Exclusion == INSTANCE ReadoutExclusion WITH
  capturing <- [t \in Target |-> ~Ready(state[t])],
  queue <- waiting,
  readers <- holding
ExclusionSpec == Exclusion!Spec

(***************************************************************************)
(* The shared targets are not left in the locked state once nobody locks   *)
(* any of them: the postponed shared arm always happens.                   *)
(***************************************************************************)
SharedLockedHasReader ==
  shState = "LOCKED" => LockedTargets(mode, lockCount) # {}

(***************************************************************************)
(* do_arm_shared_hardware() takes its mask from the modes, not from what   *)
(* do_arm_target() did: still the hardware is only armed for targets that  *)
(* the same operation prepared and that software now sees as armed.        *)
(***************************************************************************)
ArmWritesMatch ==
  /\ issued.arm \subseteq issued.prepare
  /\ \A t \in issued.prepare : state[t] = "ARMED" /\ lockCount[t] = 0

(***************************************************************************)
(* A reader that waits is admitted once the target becomes ready, even by  *)
(* disarm_target(), which wakes nobody: nothing can arm it in between.     *)
(***************************************************************************)
Admissible(r, t) == r \in waiting[t] /\ Ready(state[t])
WaiterAdmitted ==
  ReadyStable /\ \A r \in Readers, t \in Target : []<>~Admissible(r, t)

(***************************************************************************)
(* The shared state says what the shared targets are in, and is left when  *)
(* the readers it waits for have gone (update_global_state() at the end of *)
(* set_mode, unlock, trigger and complete).                                *)
(***************************************************************************)
SharedCorrect == SharedStateConsistent /\ SharedLockedHasReader

(***************************************************************************)
(* A readout and a capture of the same target exclude each other: the      *)
(* locks are counted, a locked target is at rest, and the hardware is      *)
(* armed only for targets nobody has locked (do_arm_target).               *)
(***************************************************************************)
LocksCorrect == LockCountExact /\ HeldIsReady /\ ArmWritesMatch

(***************************************************************************)
(* MODE_FREE_RUN is "Rearm and automatically fire soft trigger": the soft  *)
(* trigger goes to a target that has just been armed.                      *)
(***************************************************************************)
SoftFollowsRearm == issued.soft => issued.arm # {}

=============================================================================
