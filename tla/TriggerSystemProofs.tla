-------------------------- MODULE TriggerSystemProofs --------------------------
(***************************************************************************)
(* Proofs about TriggerSystem: targets, hardware and events together, for  *)
(* any number of sequencers and readers and any scenario.                  *)
(*                                                                         *)
(* The software side of the invariant is that of the trigger targets,      *)
(* without ArmWritesMatch: that one is about the writes of a whole         *)
(* operation, and here they are made one by one.  The other side says, for *)
(* each software state of a target, where its hardware is: the trigger     *)
(* handler, the engine, the register writes still to be made and the       *)
(* events still to be handled.  It only holds as long as nothing is        *)
(* disarmed, and a disarm really breaks it.                                *)
(***************************************************************************)
EXTENDS TriggerSystem, TriggerProofs

LockInv ==
  /\ TypeOK
  /\ SharedStateConsistent
  /\ SharedLockedHasReader
  /\ LockCountExact
  /\ HeldIsReady

\* Nobody holds a lock in a scenario without readers.
NobodyReads == ~Does("read") => \A t \in Target : holding[t] = {}

\* Neither a trigger nor a completion of t among the events ev.
Quiet(t, ev) == <<"trigger", t>> \notin ev /\ <<"complete", t>> \notin ev

\* Armed by the software, and not yet by the hardware.
Starting(t, ev) ==
  /\ hwTrig[t] = "IDLE" /\ Quiet(t, ev)
  /\ engine[t] = IF t = Dram /\ t \notin issued.prepare
                 THEN "RUNNING" ELSE "IDLE"

\* Armed, and not yet triggered.
Waits(t, ev) ==
  /\ hwTrig[t] \in {"ARMED", "TRIGGERED"} /\ Quiet(t, ev)
  /\ engine[t] = IF t = Dram THEN "RUNNING" ELSE "IDLE"

\* Triggered: the engine runs, or its completion is on the way.
Captures(t, ev) ==
  /\ hwTrig[t] = "IDLE"
  /\ \/ /\ engine[t] = IF t \in Seqs THEN "RUNNING" ELSE "RUNOUT"
        /\ <<"complete", t>> \notin ev
     \/ /\ engine[t] = "IDLE"
        /\ <<"complete", t>> \in ev

\* The hardware of t is where software state s and unhandled events ev say.
Fits(s, t, ev) ==
  \/ Ready(s) /\ hwTrig[t] = "IDLE" /\ engine[t] = "IDLE" /\ Quiet(t, ev)
  \/ s = "ARMED" /\ Waits(t, ev)
  \/ s = "ARMED" /\ Captures(t, ev) /\ <<"trigger", t>> \in ev
  \/ s = "BUSY" /\ Captures(t, ev) /\ <<"trigger", t>> \notin ev

\* The operation that holds trigger_mutex may still have to start the target.
TargetInv(t) ==
  IF t \in issued.arm \cup issued.fire
  THEN state[t] = "ARMED" /\ Starting(t, events \cup todo)
  ELSE Fits(state[t], t, events \cup todo)

WritesInv ==
  /\ issued.disarm = {}
  /\ issued.prepare \subseteq issued.arm \cup issued.fire
  /\ issued.arm \cap issued.fire = {}

\* One read takes all events: a trigger is never read after its completion.
TodoInv ==
  /\ events \cap todo = {}
  /\ \A t \in Target :
       /\ <<"complete", t>> \in todo => <<"trigger", t>> \notin events
       /\ <<"readout", t>> \in todo => <<"complete", t>> \in todo

CaptureInv == WritesInv /\ TodoInv /\ \A t \in Target : TargetInv(t)

SysInv ==
  /\ SysTypeOK
  /\ LockInv
  /\ NobodyReads
  /\ ~Does("disarm") => CaptureInv

-----------------------------------------------------------------------------
(* The effect of an operation on the targets, from the states st: a target *)
(* that was not ready is left alone, and one that was ready stays so       *)
(* unless the operation prepares it and is going to start it.              *)

Effect(st) ==
  /\ issued'.disarm = {}
  /\ issued'.prepare = issued'.arm \cup issued'.fire
  /\ issued'.arm \cap issued'.fire = {}
  /\ \A t \in Target :
       \/ /\ t \in issued'.prepare
          /\ Ready(st[t]) /\ state'[t] = "ARMED"
       \/ /\ t \notin issued'.prepare
          /\ IF Ready(st[t]) THEN Ready(state'[t]) ELSE state'[t] = st[t]

\* Writes that start nothing by themselves.
Bare(w) ==
  w.disarm = {} /\ w.prepare = {} /\ w.arm = {} /\ w.fire = {}

LEMMA BareNoWrites ==
  /\ Bare(NoWrites)
  /\ \A b \in BOOLEAN :
       /\ [NoWrites EXCEPT !.soft = b] \in Writes
       /\ Bare([NoWrites EXCEPT !.soft = b])
BY DEF Bare, NoWrites, Writes

LEMMA SettleEffect ==
  ASSUME NEW st, NEW dr, NEW w, Bare(w), Settle(st, dr, w)
  PROVE  Effect(st)
BY DEF Effect, Bare, Settle

LEMMA ArmOneEffect ==
  ASSUME NEW t \in Target, NEW st \in [Target -> TargetState],
         NEW w \in Writes, Bare(w), lockCount' \in [Target -> Nat],
         ArmOneTarget(t, st, w)
  PROVE  Effect(st)
<1>1. CASE /\ Ready(st[t])
           /\ Settle([st EXCEPT ![t] = "ARMED"],
                     [dontRearm EXCEPT ![t] = FALSE],
                     [w EXCEPT !.prepare = {t}, !.arm = {t}])
  <2>1. state' = [st EXCEPT ![t] = "ARMED"]
    BY <1>1 DEF Settle
  <2>2. /\ issued'.disarm = {} /\ issued'.fire = {}
        /\ issued'.prepare = {t} /\ issued'.arm = {t}
    BY <1>1 DEF Settle, Bare, Writes
  <2>3. QED BY <1>1, <2>1, <2>2 DEF Effect
<1>2. CASE /\ Ready(st[t])
           /\ Settle([st EXCEPT ![t] = "LOCKED"], dontRearm, w)
  BY <1>2 DEF Effect, Settle, Bare, Ready
<1>3. CASE Settle(st, dontRearm, w)
  BY <1>3, SettleEffect
<1>4. QED BY <1>1, <1>2, <1>3 DEF ArmOneTarget

LEMMA ArmSharedEffect ==
  ASSUME NEW st \in [Target -> TargetState], NEW dr,
         NEW w \in Writes, Bare(w), NEW gs,
         gs = GlobalState(mode', st),
         ArmSharedTargets(st, dr, gs, w)
  PROVE  Effect(st)
<1> DEFINE S == SharedTargets(mode')
           L == LockedTargets(mode', lockCount')
           A == {t \in S : Ready(st[t])}
<1>1. S \subseteq Target /\ L \subseteq S
  BY DEF SharedTargets, LockedTargets
<1>2. ASSUME gs \in {"IDLE", "LOCKED"}
      PROVE  \A t \in S : Ready(st[t])
  <2>1. \A t \in S : st[t] \in TargetState
    BY <1>1
  <2>2. QED BY <1>2, <2>1, SMTT(30) DEF GlobalState, TargetState, Ready
<1>3. CASE /\ gs \in {"IDLE", "LOCKED"} /\ L # {}
           /\ state' = [t \in Target |-> IF t \in L THEN "LOCKED" ELSE st[t]]
           /\ issued' = w
  BY <1>1, <1>2, <1>3 DEF Effect, Bare, Ready
<1>4. CASE /\ gs \in {"IDLE", "LOCKED"}
           /\ state' = [t \in Target |-> IF t \in A THEN "ARMED" ELSE st[t]]
           /\ issued' = [w EXCEPT !.prepare = A, !.arm = S]
  <2>1. A = S
    BY <1>2, <1>4
  <2>2. /\ issued'.disarm = {} /\ issued'.fire = {}
        /\ issued'.prepare = S /\ issued'.arm = S
    BY <1>4, <2>1 DEF Bare, Writes
  <2>3. \A t \in Target :
          state'[t] = IF t \in S THEN "ARMED" ELSE st[t]
    BY <1>4, <2>1
  <2>4. QED BY <1>1, <1>2, <1>4, <2>2, <2>3 DEF Effect
<1>5. CASE state' = st /\ issued' = w
  BY <1>5 DEF Effect, Bare
<1>6. QED BY <1>3, <1>4, <1>5 DEF ArmSharedTargets

LEMMA UpdateGlobalEffect ==
  ASSUME NEW st \in [Target -> TargetState], NEW dr, NEW sdr,
         NEW w \in Writes, Bare(w),
         UpdateGlobalState(st, dr, sdr, w)
  PROVE  Effect(st)
<1>1. CASE ArmSharedTargets(st, dr, GlobalState(mode', st), w)
  BY <1>1, ArmSharedEffect
<1>2. CASE state' = st /\ issued' = w
  BY <1>2 DEF Effect, Bare
<1>3. QED BY <1>1, <1>2 DEF UpdateGlobalState

\* immediate_memory_capture() arms the memory, and only the memory: shared
\* targets of which one is armed are neither idle nor locked.
LEMMA CaptureEffect ==
  ASSUME TypeOK, ImmediateMemoryCapture
  PROVE  Effect(state)
<1> DEFINE st == [state EXCEPT ![Dram] = "ARMED"]
           dr == [dontRearm EXCEPT ![Dram] = TRUE]
           w == [NoWrites EXCEPT !.prepare = {Dram}, !.fire = {Dram}]
<1>1. /\ state[Dram] = "IDLE" /\ mode' = mode
      /\ \/ /\ mode[Dram] = "SHARED"
            /\ UpdateGlobalState(st, dr, shDontRearm, w)
         \/ Settle(st, dr, w)
  BY DEF ImmediateMemoryCapture
<1>2. Dram \in Target /\ st[Dram] = "ARMED"
  BY DEF Target, TypeOK
<1>3. state' = st /\ issued' = w
  <2>1. CASE Settle(st, dr, w)
    BY <2>1 DEF Settle
  <2>2. CASE mode[Dram] = "SHARED" /\ UpdateGlobalState(st, dr, shDontRearm, w)
    <3>1. Dram \in SharedTargets(mode')
      BY <1>1, <1>2, <2>2 DEF SharedTargets
    <3> HIDE DEF st, dr, w
    <3>2. GlobalState(mode', st) \notin {"IDLE", "LOCKED"}
      BY <1>2, <3>1 DEF GlobalState
    <3>3. QED BY <2>2, <3>2 DEF UpdateGlobalState
  <2>3. QED BY <1>1, <2>1, <2>2
<1>4. /\ issued'.disarm = {} /\ issued'.arm = {}
      /\ issued'.prepare = {Dram} /\ issued'.fire = {Dram}
  BY <1>3 DEF NoWrites
<1>5. \A t \in Target : state'[t] = IF t = Dram THEN "ARMED" ELSE state[t]
  BY <1>3 DEF TypeOK
<1>6. QED BY <1>1, <1>4, <1>5 DEF Effect, Ready

-----------------------------------------------------------------------------
(* The operations keep the invariant.                                      *)

LEMMA OperationInv ==
  ASSUME LockInv, MutexFree, [Next]_vars
  PROVE  LockInv'
<1>1. IInv
  BY DEF LockInv, MutexFree, IInv, ArmWritesMatch, NoWrites
<1>2. QED BY <1>1, IInvStep DEF IInv, LockInv

\* st are the states once the event that is handled, if any, is noted.
LEMMA EffectInv ==
  ASSUME MutexFree, UNCHANGED hwVars, issued' \in Writes,
         TodoInv', NEW st, Effect(st),
         \A t \in Target : Fits(st[t], t, events \cup todo')
  PROVE  CaptureInv'
<1>1. WritesInv'
  BY DEF Effect, WritesInv
<1>2. ASSUME NEW t \in Target
      PROVE  TargetInv(t)'
  <2>1. CASE t \in issued'.prepare
    <3>1. /\ Ready(st[t]) /\ state'[t] = "ARMED"
          /\ t \in issued'.arm \cup issued'.fire
      BY <2>1 DEF Effect
    <3>2. /\ hwTrig[t] = "IDLE" /\ engine[t] = "IDLE"
          /\ Quiet(t, events \cup todo')
      BY <3>1 DEF Fits, Ready
    <3>3. Starting(t, events \cup todo)'
      BY <2>1, <3>2 DEF Starting, Quiet, hwVars
    <3>4. QED BY <3>1, <3>3 DEF TargetInv
  <2>2. CASE t \notin issued'.prepare
    <3>1. /\ IF Ready(st[t]) THEN Ready(state'[t]) ELSE state'[t] = st[t]
          /\ t \notin issued'.arm \cup issued'.fire
      BY <2>2 DEF Effect
    <3>2. Fits(state'[t], t, events \cup todo')
      BY <3>1 DEF Fits, Ready
    <3>3. Fits(state[t], t, events \cup todo)'
      BY <3>2 DEF Fits, Quiet, Waits, Captures, hwVars
    <3>4. QED BY <3>1, <3>3 DEF TargetInv
  <2>3. QED BY <2>1, <2>2
<1>3. QED BY <1>1, <1>2 DEF CaptureInv

LEMMA FitsNow ==
  ASSUME CaptureInv, MutexFree
  PROVE  \A t \in Target : Fits(state[t], t, events \cup todo)
BY DEF CaptureInv, TargetInv, MutexFree, NoWrites

\* An operation of an operator or of a reader.
LEMMA UserInv ==
  ASSUME CaptureInv, MutexFree, UNCHANGED <<hwVars, todo>>,
         issued' \in Writes, Effect(state)
  PROVE  CaptureInv'
<1>1. TodoInv'
  BY DEF CaptureInv, TodoInv, hwVars
<1>2. QED BY <1>1, FitsNow, EffectInv

LEMMA UsedTargets ==
  ASSUME SysTypeOK
  PROVE  scenario.used \subseteq Target
BY ScenariosAssumption DEF SysTypeOK

LEMMA OperatorEffect ==
  ASSUME LockInv, scenario.used \subseteq Target, ~Does("disarm"), Operator
  PROVE  Effect(state)
<1>1. /\ state \in [Target -> TargetState]
      /\ lockCount \in [Target -> Nat]
      /\ shState = GlobalState(mode, state)
      /\ NoWrites \in Writes /\ Bare(NoWrites)
  BY NoWritesType, BareNoWrites DEF LockInv, TypeOK, SharedStateConsistent
<1>2. ASSUME mode' = mode,
             ArmSharedTargets(state, dontRearm, shState, NoWrites)
      PROVE  Effect(state)
  BY <1>1, <1>2, ArmSharedEffect
<1>3. ASSUME NEW t \in Target, ArmTarget(t)
      PROVE  Effect(state)
  <2>1. mode' = mode /\ lockCount' \in [Target -> Nat]
    BY <1>1, <1>3 DEF ArmTarget, lockVars
  <2>2. CASE ArmSharedTargets(state, dontRearm, shState, NoWrites)
    BY <1>2, <2>1, <2>2
  <2>3. CASE ArmOneTarget(t, state, NoWrites)
    BY <1>1, <2>1, <2>3, ArmOneEffect
  <2>4. QED BY <1>3, <2>2, <2>3 DEF ArmTarget
<1>4. ASSUME NEW t \in Target, NEW m \in Mode, SetMode(t, m)
      PROVE  Effect(state)
  BY <1>1, <1>4, UpdateGlobalEffect DEF SetMode
<1>5. ASSUME NEW b \in BOOLEAN, SharedSetMode(b)
      PROVE  Effect(state)
  BY <1>1, <1>5, SettleEffect DEF SharedSetMode
<1>6. CASE SharedArm
  BY <1>2, <1>6 DEF SharedArm
<1>7. CASE ImmediateMemoryCapture
  BY <1>7, CaptureEffect DEF LockInv
<1>8. QED BY <1>3, <1>4, <1>5, <1>6, <1>7 DEF Operator

LEMMA ReaderEffect ==
  ASSUME LockInv, LockInv', scenario.used \subseteq Target, Reader
  PROVE  Effect(state)
<1>1. /\ state \in [Target -> TargetState]
      /\ lockCount' \in [Target -> Nat]
      /\ NoWrites \in Writes /\ Bare(NoWrites)
  BY NoWritesType, BareNoWrites DEF LockInv, TypeOK
<1>2. CASE Settle(state, dontRearm, NoWrites)
  BY <1>1, <1>2, SettleEffect
<1>3. ASSUME NEW t \in Target, DecrementLockCount(t)
      PROVE  Effect(state)
  <2>1. CASE UpdateGlobalState(state, dontRearm, shDontRearm, NoWrites)
    BY <1>1, <2>1, UpdateGlobalEffect
  <2>2. CASE ArmOneTarget(t, state, NoWrites)
    BY <1>1, <2>2, ArmOneEffect
  <2>3. QED BY <1>2, <1>3, <2>1, <2>2 DEF DecrementLockCount
<1>4. QED
  BY <1>2, <1>3 DEF Reader, LockReady, LockWait, WaitReady, WaitFail, Unlock

-----------------------------------------------------------------------------
(* The events thread.                                                      *)

\* What the order of the handlers gives: when dispatch_target_events() calls
\* for the completion of t, neither its readout nor its trigger is still due.
LEMMA CompleteLast ==
  ASSUME NEW t \in Target, Handles(<<"complete", t>>)
  PROVE  <<"trigger", t>> \notin todo /\ <<"readout", t>> \notin todo
<1>1. ~HandledBefore(<<"complete", t>>, <<"readout", t>>)
  BY DEF HandledBefore
<1>2. ~TargetBefore(t, t)
  BY SeqsAssumption DEF TargetBefore, Target
<1>3. ~HandledBefore(<<"complete", t>>, <<"trigger", t>>)
  BY <1>2 DEF HandledBefore, DispatchBefore
<1>4. QED BY <1>1, <1>3 DEF Handles

\* The readout of t comes before its trigger and its completion.
LEMMA TriggerAfterReadout ==
  ASSUME NEW t \in Target, Handles(<<"trigger", t>>)
  PROVE  <<"readout", t>> \notin todo
<1>1. ~HandledBefore(<<"trigger", t>>, <<"readout", t>>)
  BY DEF HandledBefore
<1>2. QED BY <1>1 DEF Handles

LEMMA HandledState ==
  ASSUME CaptureInv, MutexFree, NEW t \in Target
  PROVE  /\ Handles(<<"trigger", t>>) => state[t] = "ARMED"
         /\ Handles(<<"complete", t>>) => state[t] = "BUSY"
<1>1. Fits(state[t], t, events \cup todo)
  BY FitsNow
<1>2. ASSUME Handles(<<"trigger", t>>)
      PROVE  state[t] = "ARMED"
  BY <1>1, <1>2 DEF Handles, Fits, Quiet, Waits
<1>3. ASSUME Handles(<<"complete", t>>)
      PROVE  state[t] = "BUSY"
  <2>1. <<"complete", t>> \in todo /\ <<"trigger", t>> \notin todo
    BY <1>3, CompleteLast DEF Handles
  <2>2. <<"trigger", t>> \notin events \cup todo
    BY <2>1 DEF CaptureInv, TodoInv
  <2>3. QED BY <1>1, <2>1, <2>2 DEF Fits, Quiet, Waits
<1>4. QED BY <1>2, <1>3

\* Taking an event of t from the calls to make leaves the others in order.
LEMMA TodoWithout ==
  ASSUME TodoInv, NEW t \in Target, NEW k \in {"trigger", "complete"},
         <<"readout", t>> \notin todo \/ k = "trigger",
         events' = events, todo' = todo \ {<<k, t>>}
  PROVE  TodoInv'
BY DEF TodoInv

LEMMA DispatchInv ==
  ASSUME LockInv, LockInv', CaptureInv, DispatchTarget
  PROVE  CaptureInv'
<1>1. /\ MutexFree /\ UNCHANGED hwVars /\ events' = events
      /\ TodoInv
      /\ state \in [Target -> TargetState]
      /\ lockCount' \in [Target -> Nat]
      /\ issued' \in Writes
      /\ NoWrites \in Writes /\ Bare(NoWrites)
  BY NoWritesType, BareNoWrites
  DEF DispatchTarget, hwVars, CaptureInv, LockInv, TypeOK
<1>2. \A u \in Target : Fits(state[u], u, events \cup todo)
  BY <1>1, FitsNow
<1>3. ASSUME NEW t \in Target, Handles(<<"trigger", t>>), TriggerEvent(t),
             todo' = todo \ {<<"trigger", t>>}
      PROVE  CaptureInv'
  <2> DEFINE st == [state EXCEPT ![t] = "BUSY"]
  <2>1. state[t] = "ARMED"
    BY <1>1, <1>3, HandledState
  <2>2. st \in [Target -> TargetState]
    BY <1>1 DEF TargetState
  <2>3. \/ UpdateGlobalState(st, dontRearm, shDontRearm, NoWrites)
        \/ Settle(st, dontRearm, NoWrites)
    BY <1>3, <2>1 DEF TriggerEvent
  <2>4. /\ st[t] = "BUSY"
        /\ \A u \in Target \ {t} : st[u] = state[u]
    BY <1>1
  <2> HIDE DEF st
  <2>5. Effect(st)
    BY <1>1, <2>2, <2>3, UpdateGlobalEffect, SettleEffect
  <2>6. TodoInv'
    BY <1>1, <1>3, TodoWithout
  <2>7. Fits(st[t], t, events \cup todo')
    <3>1. Captures(t, events \cup todo)
      BY <1>2, <1>3, <2>1 DEF Fits, Handles, Quiet, Waits, Ready
    <3>2. <<"trigger", t>> \notin events
      BY <1>1, <1>3 DEF TodoInv, Handles
    <3>3. Captures(t, events \cup todo') /\ <<"trigger", t>> \notin events \cup todo'
      BY <1>3, <3>1, <3>2 DEF Captures
    <3>4. QED BY <2>4, <3>3 DEF Fits
  <2>8. ASSUME NEW u \in Target \ {t}
        PROVE  Fits(st[u], u, events \cup todo')
    BY <1>2, <1>3, <2>4 DEF Fits, Quiet, Waits, Captures
  <2>9. QED BY <1>1, <2>5, <2>6, <2>7, <2>8, EffectInv
<1>4. ASSUME NEW t \in Target, Handles(<<"complete", t>>), CompleteEvent(t),
             todo' = todo \ {<<"complete", t>>}
      PROVE  CaptureInv'
  <2> DEFINE st == [state EXCEPT ![t] = "IDLE"]
             w == [NoWrites EXCEPT !.soft = (mode[t] = "FREE_RUN")]
  <2>1. state[t] = "BUSY"
    BY <1>1, <1>4, HandledState
  <2>2. st \in [Target -> TargetState]
    BY <1>1 DEF TargetState
  <2>3. \/ UpdateGlobalState(st, dontRearm, shDontRearm, NoWrites)
        \/ ArmOneTarget(t, st, w)
        \/ Settle(st, dontRearm, NoWrites)
    BY <1>4, <2>1 DEF CompleteEvent
  <2>4. /\ st[t] = "IDLE"
        /\ \A u \in Target \ {t} : st[u] = state[u]
    BY <1>1
  <2>5. w \in Writes /\ Bare(w)
    BY BareNoWrites
  <2> HIDE DEF st, w
  <2>6. Effect(st)
    BY <1>1, <2>2, <2>3, <2>5, UpdateGlobalEffect, SettleEffect, ArmOneEffect
  <2>7. TodoInv'
    BY <1>1, <1>4, TodoWithout, CompleteLast
  <2>8. Fits(st[t], t, events \cup todo')
    <3>1. /\ Captures(t, events \cup todo)
          /\ <<"trigger", t>> \notin events \cup todo
      BY <1>2, <2>1 DEF Fits, Ready
    <3>2. <<"complete", t>> \in todo /\ <<"complete", t>> \notin events
      BY <1>1, <1>4 DEF TodoInv, Handles
    <3>3. hwTrig[t] = "IDLE" /\ engine[t] = "IDLE"
      BY <3>1, <3>2 DEF Captures
    <3>4. Quiet(t, events \cup todo')
      BY <1>4, <3>1, <3>2 DEF Quiet
    <3>5. QED BY <2>4, <3>3, <3>4 DEF Fits, Ready
  <2>9. ASSUME NEW u \in Target \ {t}
        PROVE  Fits(st[u], u, events \cup todo')
    BY <1>2, <1>4, <2>4 DEF Fits, Quiet, Waits, Captures
  <2>10. QED BY <1>1, <2>6, <2>7, <2>8, <2>9, EffectInv
<1>5. QED BY <1>3, <1>4 DEF DispatchTarget

LEMMA ReadEventsInv ==
  ASSUME CaptureInv, events \subseteq Event, ReadEvents
  PROVE  CaptureInv'
<1>1. /\ todo = {} /\ events' = {}
      /\ issued' = issued /\ state' = state
      /\ hwTrig' = hwTrig /\ engine' = engine
  BY DEF ReadEvents, swVars, vars
<1>2. \A t \in Target :
        /\ <<"trigger", t>> \in todo' <=> <<"trigger", t>> \in events
        /\ <<"complete", t>> \in todo' <=> <<"complete", t>> \in events
        /\ <<"readout", t>> \in todo' => <<"complete", t>> \in events
  BY DEF ReadEvents, Event
<1>3. TodoInv'
  BY <1>1, <1>2 DEF TodoInv
<1>4. WritesInv'
  BY <1>1 DEF CaptureInv, WritesInv
<1>5. ASSUME NEW t \in Target
      PROVE  TargetInv(t)'
  <2>1. /\ <<"trigger", t>> \in (events \cup todo)'
             <=> <<"trigger", t>> \in events \cup todo
        /\ <<"complete", t>> \in (events \cup todo)'
             <=> <<"complete", t>> \in events \cup todo
    BY <1>1, <1>2
  <2>2. TargetInv(t)
    BY DEF CaptureInv
  <2>3. QED
    BY <1>1, <2>1, <2>2
    DEF TargetInv, Starting, Fits, Quiet, Waits, Captures
<1>6. QED BY <1>3, <1>4, <1>5 DEF CaptureInv

LEMMA ReadoutInv ==
  ASSUME CaptureInv, Readout
  PROVE  CaptureInv'
<1>1. PICK t \in Target : todo' = todo \ {<<"readout", t>>}
  BY DEF Readout
<1>2. /\ events' = events /\ issued' = issued /\ state' = state
      /\ hwTrig' = hwTrig /\ engine' = engine
  BY DEF Readout, swVars, vars, hwVars
<1>3. TodoInv' /\ WritesInv'
  BY <1>1, <1>2 DEF CaptureInv, TodoInv, WritesInv
<1>4. ASSUME NEW u \in Target
      PROVE  TargetInv(u)'
  <2>1. TargetInv(u)
    BY DEF CaptureInv
  <2>2. QED
    BY <1>1, <1>2, <2>1
    DEF TargetInv, Starting, Fits, Quiet, Waits, Captures
<1>5. QED BY <1>3, <1>4 DEF CaptureInv

-----------------------------------------------------------------------------
(* The hardware and the register writes.                                   *)

LEMMA HardwareInv ==
  ASSUME SysTypeOK, CaptureInv, Hardware
  PROVE  CaptureInv'
<1>1. PICK t \in Target :
        ExternalTrigger(t) \/ TriggerOut(t) \/ EngineDone(t)
  BY DEF Hardware
<1>2. issued' = issued /\ state' = state /\ todo' = todo
  BY DEF Hardware, swVars, vars
<1>3. /\ hwTrig \in [Target -> {"IDLE", "ARMED", "TRIGGERED"}]
      /\ engine \in [Target -> {"IDLE", "RUNNING", "RUNOUT"}]
  BY DEF SysTypeOK
<1>4. WritesInv' /\ TargetInv(t)
  BY <1>2 DEF CaptureInv, WritesInv
<1>5. \A u \in Target \ {t} :
        /\ hwTrig'[u] = hwTrig[u] /\ engine'[u] = engine[u]
        /\ \A k \in {"trigger", "complete"} :
             <<k, u>> \in events' <=> <<k, u>> \in events
  BY <1>1, <1>3 DEF ExternalTrigger, TriggerOut, EngineDone
<1>6. ASSUME NEW u \in Target \ {t}
      PROVE  TargetInv(u)'
  <2>1. TargetInv(u)
    BY DEF CaptureInv
  <2>2. QED
    BY <1>2, <1>5, <2>1
    DEF TargetInv, Starting, Fits, Quiet, Waits, Captures
<1>7. Dram \notin Seqs /\ (t \in Seqs <=> t # Dram)
  BY DramAssumption DEF Target
<1>8. CASE ExternalTrigger(t)
  <2>1. /\ hwTrig[t] = "ARMED" /\ hwTrig'[t] = "TRIGGERED"
        /\ engine' = engine /\ events' = events
    BY <1>3, <1>8 DEF ExternalTrigger
  <2>2. TargetInv(t)'
    BY <1>2, <1>4, <2>1
    DEF TargetInv, Starting, Fits, Quiet, Waits, Captures, Ready
  <2>3. TodoInv'
    BY <1>2, <2>1 DEF CaptureInv, TodoInv
  <2>4. QED BY <1>4, <1>6, <2>2, <2>3 DEF CaptureInv
<1>9. CASE TriggerOut(t)
  <2>1. /\ hwTrig[t] = "TRIGGERED" /\ hwTrig'[t] = "IDLE"
        /\ events' = events \cup {<<"trigger", t>>}
        /\ engine'[t] = IF t \in Seqs THEN "RUNNING"
                        ELSE IF engine[t] = "RUNNING" THEN "RUNOUT"
                        ELSE engine[t]
    BY <1>3, <1>9 DEF TriggerOut
  <2>2. /\ t \notin issued.arm \cup issued.fire
        /\ state[t] = "ARMED" /\ Waits(t, events \cup todo)
    BY <1>4, <2>1 DEF TargetInv, Starting, Fits, Captures
  <2>3. TargetInv(t)'
    BY <1>2, <1>7, <2>1, <2>2 DEF TargetInv, Fits, Quiet, Waits, Captures
  <2>4. TodoInv'
    BY <1>2, <2>1, <2>2 DEF CaptureInv, TodoInv, Waits, Quiet
  <2>5. QED BY <1>4, <1>6, <2>3, <2>4 DEF CaptureInv
<1>10. CASE EngineDone(t)
  <2>1. /\ engine[t] = IF t \in Seqs THEN "RUNNING" ELSE "RUNOUT"
        /\ engine'[t] = "IDLE" /\ hwTrig' = hwTrig
        /\ events' = events \cup {<<"complete", t>>}
    BY <1>3, <1>10 DEF EngineDone
  <2>2. /\ t \notin issued.arm \cup issued.fire
        /\ Captures(t, events \cup todo)
    BY <1>4, <1>7, <2>1 DEF TargetInv, Starting, Fits, Waits
  <2>3. TargetInv(t)'
    BY <1>2, <1>4, <2>1, <2>2
    DEF TargetInv, Fits, Quiet, Waits, Captures, Ready
  <2>4. TodoInv'
    BY <1>2, <2>1, <2>2 DEF CaptureInv, TodoInv, Captures
  <2>5. QED BY <1>4, <1>6, <2>3, <2>4 DEF CaptureInv
<1>11. QED BY <1>1, <1>8, <1>9, <1>10

LEMMA WriteInv ==
  ASSUME SysTypeOK, CaptureInv, WriteRegister
  PROVE  CaptureInv'
<1>1. state' = state /\ todo' = todo /\ events' = events
  BY DEF WriteRegister, WriteDisarm, WritePrepare, WriteArm, WriteFire,
         WriteSoft
<1>2. /\ hwTrig \in [Target -> {"IDLE", "ARMED", "TRIGGERED"}]
      /\ engine \in [Target -> {"IDLE", "RUNNING", "RUNOUT"}]
      /\ issued \in Writes
  BY DEF SysTypeOK, TypeOK
<1>3. TodoInv' /\ WritesInv
  BY <1>1 DEF CaptureInv, TodoInv
<1>4. \A t \in Target : TargetInv(t)
  BY DEF CaptureInv
<1>5. CASE WriteDisarm
  BY <1>3, <1>5 DEF WriteDisarm, WritesInv
<1>6. CASE WritePrepare
  <2>1. /\ issued'.prepare = {} /\ issued'.disarm = {}
        /\ issued'.arm = issued.arm /\ issued'.fire = issued.fire
        /\ hwTrig' = hwTrig
    BY <1>2, <1>6 DEF WritePrepare, Writes
  <2>2. \A t \in Target :
          engine'[t] = IF t \in issued.prepare /\ t = Dram /\ engine[t] = "IDLE"
                       THEN "RUNNING" ELSE engine[t]
    BY <1>6 DEF WritePrepare
  <2>3. ASSUME NEW t \in Target
        PROVE  TargetInv(t)'
    <3>1. TargetInv(t) /\ (t \in issued.prepare => t \in issued.arm \cup issued.fire)
      BY <1>3, <1>4 DEF WritesInv
    <3>2. CASE t \in issued.arm \cup issued.fire
      <4>1. Starting(t, events \cup todo)
        BY <3>1, <3>2 DEF TargetInv
      <4>2. Starting(t, events \cup todo)'
        BY <1>1, <2>1, <2>2, <4>1 DEF Starting, Quiet
      <4>3. QED BY <1>1, <2>1, <3>1, <3>2, <4>2 DEF TargetInv
    <3>3. CASE t \notin issued.arm \cup issued.fire
      <4>1. engine'[t] = engine[t]
        BY <2>2, <3>1, <3>3
      <4>2. QED
        BY <1>1, <2>1, <3>1, <3>3, <4>1
        DEF TargetInv, Fits, Quiet, Waits, Captures
    <3>4. QED BY <3>2, <3>3
  <2>4. WritesInv'
    BY <1>3, <2>1 DEF WritesInv
  <2>5. QED BY <1>3, <2>3, <2>4 DEF CaptureInv
<1>7. CASE WriteArm
  <2>1. /\ issued.prepare = {}
        /\ issued'.prepare = {} /\ issued'.disarm = {}
        /\ issued'.arm = {} /\ issued'.fire = issued.fire
        /\ engine' = engine
    BY <1>2, <1>3, <1>7 DEF WriteArm, Writes, WritesInv
  <2>2. \A t \in Target :
          hwTrig'[t] = IF t \in issued.arm /\ hwTrig[t] = "IDLE"
                       THEN "ARMED" ELSE hwTrig[t]
    BY <1>7 DEF WriteArm
  <2>3. ASSUME NEW t \in Target
        PROVE  TargetInv(t)'
    <3>1. TargetInv(t)
      BY <1>4
    <3>2. CASE t \in issued.arm
      <4>1. t \notin issued.fire
        BY <1>3, <3>2 DEF WritesInv
      <4>2. QED
        BY <1>1, <2>1, <2>2, <3>1, <3>2, <4>1
        DEF TargetInv, Starting, Fits, Quiet, Waits
    <3>3. CASE t \notin issued.arm
      BY <1>1, <2>1, <2>2, <3>1, <3>3
      DEF TargetInv, Starting, Fits, Quiet, Waits, Captures
    <3>4. QED BY <3>2, <3>3
  <2>4. WritesInv'
    BY <2>1 DEF WritesInv
  <2>5. QED BY <1>3, <2>3, <2>4 DEF CaptureInv
<1>8. CASE WriteFire
  <2>1. /\ issued.prepare = {} /\ issued.arm = {}
        /\ issued'.prepare = {} /\ issued'.disarm = {}
        /\ issued'.arm = {} /\ issued'.fire = {}
        /\ engine' = engine
    BY <1>2, <1>3, <1>8 DEF WriteFire, Writes, WritesInv
  <2>2. \A t \in Target :
          hwTrig'[t] = IF t \in issued.fire THEN "TRIGGERED" ELSE hwTrig[t]
    BY <1>8 DEF WriteFire
  <2>3. ASSUME NEW t \in Target
        PROVE  TargetInv(t)'
    BY <1>1, <1>4, <2>1, <2>2
    DEF TargetInv, Starting, Fits, Quiet, Waits, Captures
  <2>4. WritesInv'
    BY <2>1 DEF WritesInv
  <2>5. QED BY <1>3, <2>3, <2>4 DEF CaptureInv
<1>9. CASE WriteSoft
  <2>1. /\ issued.arm = {} /\ issued.fire = {}
        /\ issued'.prepare = {} /\ issued'.disarm = {}
        /\ issued'.arm = {} /\ issued'.fire = {}
        /\ engine' = engine
    BY <1>2, <1>3, <1>9 DEF WriteSoft, Writes, WritesInv
  <2>2. \A t \in Target :
          hwTrig'[t] = hwTrig[t] \/ (hwTrig[t] = "ARMED" /\ hwTrig'[t] = "TRIGGERED")
    BY <1>9 DEF WriteSoft
  <2>3. ASSUME NEW t \in Target
        PROVE  TargetInv(t)'
    BY <1>1, <1>4, <2>1, <2>2
    DEF TargetInv, Starting, Fits, Quiet, Waits, Captures, Ready
  <2>4. WritesInv'
    BY <2>1 DEF WritesInv
  <2>5. QED BY <1>3, <2>3, <2>4 DEF CaptureInv
<1>10. QED BY <1>5, <1>6, <1>7, <1>8, <1>9 DEF WriteRegister

-----------------------------------------------------------------------------
(* The invariant, and the theorems.                                        *)

\* Dispatching, an operator or a reader: one whole operation.
Operation == DispatchTarget \/ Operator \/ Reader

LEMMA OperationNext ==
  ASSUME scenario.used \subseteq Target, Operation
  PROVE  MutexFree /\ Next
<1>1. CASE DispatchTarget
  BY <1>1 DEF DispatchTarget, Next, EventStep
<1>2. CASE Operator
  BY <1>2 DEF Operator, Next, UserStep, ModeStep
<1>3. CASE Reader
  BY <1>3 DEF Reader, Next, ReaderStep
<1>4. QED BY <1>1, <1>2, <1>3 DEF Operation

LEMMA WritesType ==
  ASSUME SysTypeOK, WriteRegister
  PROVE  issued' \in Writes
BY DEF SysTypeOK, TypeOK, WriteRegister, WriteDisarm, WritePrepare, WriteArm,
       WriteFire, WriteSoft, Writes

LEMMA SysLockInv ==
  ASSUME SysTypeOK, LockInv, [SysNext]_sysVars
  PROVE  LockInv'
<1>1. CASE Operation
  <2>1. MutexFree /\ Next
    BY <1>1, UsedTargets, OperationNext
  <2>2. QED BY <2>1, OperationInv
<1>2. CASE WriteRegister
  <2>1. issued' \in Writes
    BY <1>2, WritesType
  <2>2. UNCHANGED <<mode, dontRearm, state, lockCount, retriggerMode,
                    shDontRearm, shState, waiting, holding>>
    BY <1>2 DEF WriteRegister
  <2>3. QED
    BY <2>1, <2>2 DEF LockInv, TypeOK, SharedStateConsistent,
      SharedLockedHasReader, LockCountExact, HeldIsReady
<1>3. CASE UNCHANGED vars
  BY <1>3 DEF vars, LockInv, TypeOK, SharedStateConsistent,
    SharedLockedHasReader, LockCountExact, HeldIsReady
<1>4. QED
  BY <1>1, <1>2, <1>3 DEF SysNext, EventsThread, Hardware, ReadEvents,
    Readout, swVars, sysVars, Operation

\* The types of what the hardware and the events thread keep.
LEMMA SysTypeStep ==
  ASSUME SysTypeOK, LockInv', [SysNext]_sysVars
  PROVE  SysTypeOK'
<1>1. /\ hwTrig \in [Target -> {"IDLE", "ARMED", "TRIGGERED"}]
      /\ engine \in [Target -> {"IDLE", "RUNNING", "RUNOUT"}]
      /\ events \subseteq Event /\ todo \subseteq Step
      /\ scenario \in Scenarios
  BY DEF SysTypeOK
<1>2. TypeOK'
  BY DEF LockInv
<1>3. scenario' \in Scenarios
  BY <1>1 DEF SysNext, sysVars
<1> DEFINE HwTypeOK == /\ hwTrig \in [Target -> {"IDLE", "ARMED", "TRIGGERED"}]
                       /\ engine \in [Target -> {"IDLE", "RUNNING", "RUNOUT"}]
                       /\ events \subseteq Event
<1>4. CASE WriteRegister
  <2>1. HwTypeOK'
    BY <1>1, <1>4 DEF WriteRegister, WriteDisarm, WritePrepare, WriteArm,
      WriteFire, WriteSoft
  <2>2. todo' \subseteq Step
    BY <1>1, <1>4 DEF WriteRegister
  <2>3. QED BY <1>2, <1>3, <2>1, <2>2 DEF SysTypeOK
<1>5. CASE Hardware
  <2>1. HwTypeOK'
    BY <1>1, <1>5 DEF Hardware, ExternalTrigger, TriggerOut, EngineDone, Event
  <2>2. todo' \subseteq Step
    BY <1>1, <1>5 DEF Hardware
  <2>3. QED BY <1>2, <1>3, <2>1, <2>2 DEF SysTypeOK
<1>6. CASE ReadEvents
  <2>1. todo' \subseteq Step
    <3>1. Event \subseteq Step
      BY DEF Event, Step
    <3>2. \A t \in Target : <<"readout", t>> \in Step
      BY DEF Step
    <3>3. QED BY <1>1, <1>6, <3>1, <3>2 DEF ReadEvents
  <2>2. HwTypeOK'
    BY <1>1, <1>6 DEF ReadEvents
  <2>3. QED BY <1>2, <1>3, <2>1, <2>2 DEF SysTypeOK
<1>7. CASE Readout \/ Operation
  <2>1. UNCHANGED hwVars /\ todo' \subseteq Step
    BY <1>1, <1>7 DEF Readout, Operation, DispatchTarget, Operator, Reader
  <2>2. QED BY <1>1, <1>2, <1>3, <2>1 DEF hwVars, SysTypeOK
<1>8. CASE UNCHANGED sysVars
  BY <1>1, <1>2, <1>8 DEF sysVars, SysTypeOK
<1>9. QED
  BY <1>4, <1>5, <1>6, <1>7, <1>8 DEF SysNext, EventsThread, Operation

LEMMA NobodyReadsStep ==
  ASSUME SysTypeOK, NobodyReads, [SysNext]_sysVars
  PROVE  NobodyReads'
<1>1. scenario' = scenario
  BY DEF SysNext, sysVars
<1>2. ASSUME ~Reader
      PROVE  holding' = holding
  <2>1. CASE DispatchTarget
    BY <2>1 DEF DispatchTarget, TriggerEvent, CompleteEvent, lockVars
  <2>2. CASE Operator
    BY <2>2 DEF Operator, ArmTarget, DisarmTarget, SetMode, SharedSetMode,
      SharedArm, SharedDisarm, ImmediateMemoryCapture, lockVars
  <2>3. QED
    BY <1>2, <2>1, <2>2 DEF SysNext, EventsThread, WriteRegister, Hardware,
      ReadEvents, Readout, swVars, vars, sysVars
<1>3. Reader => Does("read")
  BY DEF Reader
<1>4. QED BY <1>1, <1>2, <1>3 DEF NobodyReads, Does

LEMMA CaptureStep ==
  ASSUME SysInv, LockInv', [SysNext]_sysVars, ~Does("disarm")
  PROVE  CaptureInv'
<1>1. /\ SysTypeOK /\ LockInv /\ CaptureInv
      /\ events \subseteq Event /\ issued' \in Writes
      /\ scenario.used \subseteq Target
  BY UsedTargets DEF SysInv, SysTypeOK, LockInv, TypeOK
<1>2. CASE WriteRegister
  BY <1>1, <1>2, WriteInv
<1>3. CASE Hardware
  BY <1>1, <1>3, HardwareInv
<1>4. CASE EventsThread
  BY <1>1, <1>4, ReadEventsInv, ReadoutInv, DispatchInv DEF EventsThread
<1>5. CASE Operator
  <2>1. Effect(state)
    BY <1>1, <1>5, OperatorEffect
  <2>2. QED BY <1>1, <1>5, <2>1, UserInv DEF Operator
<1>6. CASE Reader
  <2>1. Effect(state)
    BY <1>1, <1>6, ReaderEffect
  <2>2. QED BY <1>1, <1>6, <2>1, UserInv DEF Reader
<1>7. CASE UNCHANGED sysVars
  BY <1>1, <1>7 DEF sysVars, vars, CaptureInv, WritesInv, TodoInv, TargetInv,
    Starting, Fits, Quiet, Waits, Captures
<1>8. QED BY <1>2, <1>3, <1>4, <1>5, <1>6, <1>7 DEF SysNext

LEMMA SysInvInit == SysInit => SysInv
<1> SUFFICES ASSUME SysInit PROVE SysInv
  OBVIOUS
<1>1. LockInv
  BY InitIInv DEF SysInit, IInv, LockInv
<1>2. SysTypeOK
  BY <1>1 DEF SysInit, SysTypeOK, LockInv, Event, Step
<1>3. NobodyReads
  BY DEF SysInit, Init, NobodyReads
<1>4. CaptureInv
  <2>1. WritesInv /\ TodoInv
    BY DEF SysInit, Init, NoWrites, WritesInv, TodoInv
  <2>2. ASSUME NEW t \in Target
        PROVE  TargetInv(t)
    BY DEF SysInit, Init, NoWrites, TargetInv, Fits, Quiet, Ready
  <2>3. QED BY <2>1, <2>2 DEF CaptureInv
<1>5. QED BY <1>1, <1>2, <1>3, <1>4 DEF SysInv

LEMMA SysInvStep ==
  ASSUME SysInv, [SysNext]_sysVars
  PROVE  SysInv'
<1>1. LockInv'
  BY SysLockInv DEF SysInv
<1>2. SysTypeOK'
  BY <1>1, SysTypeStep DEF SysInv
<1>3. NobodyReads'
  BY NobodyReadsStep DEF SysInv
<1>4. Does("disarm")' = Does("disarm")
  BY DEF Does, SysNext, sysVars
<1>5. QED BY <1>1, <1>2, <1>3, <1>4, CaptureStep DEF SysInv

LEMMA SysInvHolds == SysSpec => []SysInv
BY SysInvInit, SysInvStep, PTL DEF SysSpec

(***************************************************************************)
(* Every variable keeps its type while the operations of trigger_target.c, *)
(* their register writes, the hardware and events_thread() interleave, in  *)
(* every scenario: the lock counts stay natural numbers.                   *)
(***************************************************************************)
THEOREM SysTypeCorrect == SysSpec => []SysTypeOK
<1>1. SysInv => SysTypeOK
  BY DEF SysInv
<1>2. QED BY <1>1, SysInvHolds, PTL

(***************************************************************************)
(* The readout locks protect the data: unless somebody disarms targets     *)
(* while others read, no trigger handler is armed or about to trigger and  *)
(* no engine runs for a target that lock_trigger_ready() has given to a    *)
(* reader -- not even by a register write that is still to be made.        *)
(***************************************************************************)
THEOREM ReadersUndisturbed ==
  ASSUME \A s \in Scenarios : ~({"read", "disarm"} \subseteq s.ops)
  PROVE  SysSpec => []ReaderUndisturbed
<1>1. SysInv => ReaderUndisturbed
  <2> SUFFICES ASSUME SysInv, NEW t \in Target, holding[t] # {}
               PROVE  ~Capturing(t)
    BY DEF ReaderUndisturbed
  <2>1. Does("read")
    BY DEF SysInv, NobodyReads
  <2>2. ~Does("disarm")
    BY <2>1 DEF SysInv, SysTypeOK, Does
  <2>3. Ready(state[t]) /\ TargetInv(t)
    BY <2>2 DEF SysInv, LockInv, HeldIsReady, CaptureInv
  <2>4. QED BY <2>3 DEF TargetInv, Fits, Ready, Capturing
<1>2. QED BY <1>1, SysInvHolds, PTL

(***************************************************************************)
(* events_thread() reads out a completed capture before anything can start *)
(* the next one, and dispatch_target_events() never meets a trigger or a   *)
(* completion it does not expect, as long as nothing is disarmed.          *)
(***************************************************************************)
THEOREM EventsHandledInOrder == SysSpec => []EventsInOrder
<1>1. SysInv => EventsInOrder
  <2> SUFFICES ASSUME SysInv
               PROVE  ReadoutBeforeRearm /\ EventsExpected
    BY DEF EventsInOrder
  <2>1. ASSUME NEW t \in Target, Handles(<<"readout", t>>), ~Does("disarm")
        PROVE  ~Capturing(t)
    <3>1. TargetInv(t) /\ <<"complete", t>> \in todo
      BY <2>1 DEF SysInv, CaptureInv, TodoInv, Handles
    <3>2. QED
      BY <3>1 DEF TargetInv, Starting, Fits, Quiet, Waits, Captures, Capturing
  <2>2. ASSUME NEW t \in Target, MutexFree, ~Does("disarm")
        PROVE  /\ Handles(<<"trigger", t>>) => state[t] = "ARMED"
               /\ Handles(<<"complete", t>>) => state[t] = "BUSY"
    BY <2>2, HandledState DEF SysInv
  <2>3. QED BY <2>1, <2>2 DEF ReadoutBeforeRearm, EventsExpected
<1>2. QED BY <1>1, SysInvHolds, PTL

=============================================================================
