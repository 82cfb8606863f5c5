---------------------------- MODULE TriggerProofs -----------------------------
(***************************************************************************)
(* Proofs about TriggerTarget, for any number of sequencers and readers.   *)
(*                                                                         *)
(* Every operation ends in one of three tails.  The lemmas of the first    *)
(* part say what a tail guarantees whatever values it is given: types, the *)
(* right shared state, and that a ready target only starts capturing when  *)
(* its lock count is zero (FreeStart).  The invariant then needs one step  *)
(* per operation.                                                          *)
(***************************************************************************)
EXTENDS TriggerTarget, FiniteSetTheorems, TLAPS

\* A target that is ready and counted as locked after the step stays ready.
FreeStart(st) ==
  \A t \in Target : Ready(st[t]) /\ lockCount'[t] > 0 => Ready(state'[t])

\* What a tail leaves untouched: targets that are not ready.
Untouched(st) == \A t \in Target : ~Ready(st[t]) => state'[t] = st[t]

\* The hardware is only armed for targets that w prepares, and those are
\* armed in st and locked by nobody.
WritesMatch(w, st) ==
  /\ w.arm \subseteq w.prepare
  /\ \A t \in w.prepare : st[t] = "ARMED" /\ lockCount'[t] = 0

\* The types of the variables assigned by the tails.
TailTypeOK ==
  /\ state \in [Target -> TargetState]
  /\ dontRearm \in [Target -> BOOLEAN]
  /\ shState \in SharedState
  /\ shDontRearm \in BOOLEAN
  /\ issued \in Writes

LEMMA GlobalStateType ==
  ASSUME NEW md, NEW st
  PROVE  GlobalState(md, st) \in SharedState
BY DEF GlobalState, SharedState

LEMMA NoWritesType ==
  /\ NoWrites \in Writes
  /\ \A st \in [Target -> TargetState] : WritesMatch(NoWrites, st)
BY DEF NoWrites, Writes, WritesMatch

(***************************************************************************)
(* The tails.                                                              *)
(***************************************************************************)
LEMMA ArmSharedTail ==
  ASSUME NEW st \in [Target -> TargetState],
         NEW dr \in [Target -> BOOLEAN],
         NEW w \in Writes,
         NEW gs,
         gs = GlobalState(mode', st),
         mode' \in [Target -> Mode],
         lockCount' \in [Target -> Nat],
         WritesMatch(w, st),
         ArmSharedTargets(st, dr, gs, w)
  PROVE  /\ TailTypeOK'
         /\ SharedStateConsistent'
         /\ SharedLockedHasReader'
         /\ ArmWritesMatch'
         /\ FreeStart(st)
         /\ Untouched(st)
<1> DEFINE S == SharedTargets(mode')
           L == LockedTargets(mode', lockCount')
           A == {t \in S : Ready(st[t])}
<1>1. /\ S \subseteq Target
      /\ L \subseteq S
      /\ A \subseteq S
      /\ gs \in SharedState
  BY GlobalStateType DEF SharedTargets, LockedTargets
<1>2. CASE gs \in {"IDLE", "LOCKED"} /\ L # {}
  <2>1. /\ state' = [t \in Target |-> IF t \in L THEN "LOCKED" ELSE st[t]]
        /\ shState' = "LOCKED" /\ dontRearm' = dr /\ issued' = w
        /\ shDontRearm' = FALSE
    BY <1>1, <1>2 DEF ArmSharedTargets
  <2>2. TailTypeOK'
    BY <2>1 DEF TailTypeOK, TargetState, SharedState
  <2>3. \A t \in S : st[t] \in {"IDLE", "LOCKED"}
    BY <1>1, <1>2, SMTT(20) DEF GlobalState, TargetState
  <2>4. SharedStateConsistent'
    <3>1. \A t \in S : state'[t] \in {"IDLE", "LOCKED"}
      BY <1>1, <2>1, <2>3
    <3>2. \E t \in S : state'[t] = "LOCKED"
      BY <1>1, <1>2, <2>1
    <3>3. GlobalState(mode', state') = "LOCKED"
      BY <3>1, <3>2 DEF GlobalState
    <3>4. QED BY <2>1, <3>3 DEF SharedStateConsistent
  <2>5. SharedLockedHasReader'
    BY <1>2 DEF SharedLockedHasReader
  <2>6. FreeStart(st) /\ Untouched(st)
    BY <1>1, <2>1, <2>3 DEF FreeStart, Untouched, Ready
  <2>7. ArmWritesMatch'
    BY <1>1, <2>1, <2>3 DEF ArmWritesMatch, WritesMatch, Writes, LockedTargets
  <2>8. QED BY <2>2, <2>4, <2>5, <2>6, <2>7
<1>3. CASE gs \in {"IDLE", "LOCKED"} /\ L = {} /\ S # {}
  <2>1. /\ state' = [t \in Target |-> IF t \in A THEN "ARMED" ELSE st[t]]
        /\ dontRearm' = [t \in Target |-> t \notin A /\ dr[t]]
        /\ issued' = [w EXCEPT !.prepare = A, !.arm = S]
        /\ shState' = "ARMED" /\ shDontRearm' = FALSE
    BY <1>3 DEF ArmSharedTargets
  <2>2. TailTypeOK'
    <3>1. state' \in [Target -> TargetState]
      BY <2>1 DEF TargetState
    <3>2. dontRearm' \in [Target -> BOOLEAN]
      BY <2>1
    <3>3. issued' \in Writes
      BY <1>1, <2>1 DEF Writes
    <3>4. QED BY <2>1, <3>1, <3>2, <3>3 DEF TailTypeOK, SharedState
  <2>3. A = S
    <3>1. \A t \in S : st[t] \in {"IDLE", "LOCKED"}
      BY <1>1, <1>3, SMTT(20) DEF GlobalState, TargetState
    <3>2. QED BY <3>1 DEF Ready
  <2>4. SharedStateConsistent'
    <3>1. \A t \in S : state'[t] = "ARMED"
      BY <1>1, <2>1, <2>3
    <3>2. GlobalState(mode', state') = "ARMED"
      BY <1>3, <3>1 DEF GlobalState
    <3>3. QED BY <2>1, <3>2 DEF SharedStateConsistent
  <2>5. SharedLockedHasReader'
    BY <2>1 DEF SharedLockedHasReader
  <2>6. \A t \in S : ~(lockCount'[t] > 0)
    BY <1>1, <1>3 DEF LockedTargets
  <2>7. FreeStart(st) /\ Untouched(st)
    BY <1>1, <2>1, <2>3, <2>6 DEF FreeStart, Untouched, Ready
  <2>8. ArmWritesMatch'
    <3>1. issued'.arm = S /\ issued'.prepare = S
      BY <2>1, <2>3 DEF Writes
    <3>2. \A t \in S : state'[t] = "ARMED" /\ lockCount'[t] = 0
      BY <1>1, <2>1, <2>3, <2>6
    <3>3. QED BY <3>1, <3>2 DEF ArmWritesMatch
  <2>9. QED BY <2>2, <2>4, <2>5, <2>7, <2>8
<1>4. CASE gs \notin {"IDLE", "LOCKED"} \/ S = {}
  <2>1. /\ state' = st /\ shState' = gs /\ dontRearm' = dr /\ issued' = w
        /\ shDontRearm' = FALSE
    BY <1>1, <1>4 DEF ArmSharedTargets
  <2>2. gs # "LOCKED"
    BY <1>4 DEF GlobalState
  <2>3. ArmWritesMatch'
    BY <2>1 DEF ArmWritesMatch, WritesMatch
  <2>4. QED
    BY <1>1, <2>1, <2>2, <2>3
    DEF TailTypeOK, SharedStateConsistent, SharedLockedHasReader, FreeStart,
        Untouched, Ready
<1>5. QED BY <1>2, <1>3, <1>4

LEMMA UpdateGlobalTail ==
  ASSUME NEW st \in [Target -> TargetState],
         NEW dr \in [Target -> BOOLEAN],
         NEW sdr \in BOOLEAN,
         NEW w \in Writes,
         mode' \in [Target -> Mode],
         lockCount' \in [Target -> Nat],
         WritesMatch(w, st),
         UpdateGlobalState(st, dr, sdr, w)
  PROVE  /\ TailTypeOK'
         /\ SharedStateConsistent'
         /\ SharedLockedHasReader'
         /\ ArmWritesMatch'
         /\ FreeStart(st)
         /\ Untouched(st)
<1> DEFINE gs == GlobalState(mode', st)
<1>1. gs \in SharedState
  BY GlobalStateType
<1>2. CASE ArmSharedTargets(st, dr, gs, w)
  BY <1>2, ArmSharedTail
<1>3. CASE /\ ~(gs = "LOCKED" /\ LockedTargets(mode', lockCount') = {})
           /\ state' = st /\ shState' = gs /\ dontRearm' = dr
           /\ shDontRearm' = sdr /\ issued' = w
  BY <1>1, <1>3
  DEF TailTypeOK, SharedStateConsistent, SharedLockedHasReader, FreeStart,
      Untouched, ArmWritesMatch, WritesMatch
<1>4. QED BY <1>2, <1>3 DEF UpdateGlobalState

\* Changing a target that is not shared does not change the shared state.
LEMMA GlobalStateLocal ==
  ASSUME NEW md, NEW st1, NEW st2,
         \A t \in SharedTargets(md) : st1[t] = st2[t]
  PROVE  GlobalState(md, st1) = GlobalState(md, st2)
<1>1. {st1[t] : t \in SharedTargets(md)} = {st2[t] : t \in SharedTargets(md)}
  OBVIOUS
<1>2. QED BY <1>1 DEF GlobalState

LEMMA SettleTail ==
  ASSUME NEW st \in [Target -> TargetState],
         NEW dr \in [Target -> BOOLEAN],
         NEW w \in Writes,
         TypeOK, SharedStateConsistent, mode' = mode,
         \A t \in SharedTargets(mode) : st[t] = state[t],
         WritesMatch(w, st),
         Settle(st, dr, w)
  PROVE  /\ TailTypeOK'
         /\ SharedStateConsistent'
         /\ ArmWritesMatch'
         /\ state' = st
<1>1. GlobalState(mode, st) = GlobalState(mode, state)
  BY GlobalStateLocal
<1>2. QED
  BY <1>1 DEF Settle, TailTypeOK, TypeOK, SharedStateConsistent,
              ArmWritesMatch, WritesMatch

LEMMA ArmOneTail ==
  ASSUME NEW t \in Target, NEW st \in [Target -> TargetState],
         NEW w \in Writes,
         TypeOK, SharedStateConsistent, mode' = mode, mode[t] # "SHARED",
         lockCount' \in [Target -> Nat],
         \A u \in SharedTargets(mode) : st[u] = state[u],
         WritesMatch(w, st),
         ArmOneTarget(t, st, w)
  PROVE  /\ TailTypeOK'
         /\ SharedStateConsistent'
         /\ ArmWritesMatch'
         /\ FreeStart(st)
         /\ Untouched(st)
         /\ UNCHANGED shState
<1>1. t \notin SharedTargets(mode)
  BY DEF SharedTargets
<1>2. CASE /\ Ready(st[t]) /\ lockCount'[t] = 0
           /\ Settle([st EXCEPT ![t] = "ARMED"],
                     [dontRearm EXCEPT ![t] = FALSE],
                     [w EXCEPT !.prepare = {t}, !.arm = {t}])
  <2> DEFINE st1 == [st EXCEPT ![t] = "ARMED"]
             dr1 == [dontRearm EXCEPT ![t] = FALSE]
             w1 == [w EXCEPT !.prepare = {t}, !.arm = {t}]
  <2>1. st1 \in [Target -> TargetState] /\ dr1 \in [Target -> BOOLEAN]
    BY DEF TargetState, TypeOK
  <2>2. w1 \in Writes
    BY DEF Writes
  <2>3. \A u \in SharedTargets(mode) : st1[u] = state[u]
    BY <1>1 DEF SharedTargets
  <2>4. WritesMatch(w1, st1)
    BY <1>2 DEF WritesMatch, Writes
  <2>5. Settle(st1, dr1, w1)
    BY <1>2
  <2> HIDE DEF st1, dr1, w1
  <2>6. /\ TailTypeOK' /\ SharedStateConsistent' /\ ArmWritesMatch'
        /\ state' = st1
    BY <2>1, <2>2, <2>3, <2>4, <2>5, SettleTail
  <2>7. QED
    BY <1>2, <2>5, <2>6 DEF st1, FreeStart, Untouched, Ready, Settle
<1>3. CASE /\ Ready(st[t]) /\ lockCount'[t] > 0
           /\ Settle([st EXCEPT ![t] = "LOCKED"], dontRearm, w)
  <2> DEFINE st1 == [st EXCEPT ![t] = "LOCKED"]
  <2>1. st1 \in [Target -> TargetState] /\ dontRearm \in [Target -> BOOLEAN]
    BY DEF TargetState, TypeOK
  <2>2. \A u \in SharedTargets(mode) : st1[u] = state[u]
    BY <1>1 DEF SharedTargets
  <2>3. WritesMatch(w, st1)
    BY <1>3 DEF WritesMatch, Writes, Ready
  <2>4. Settle(st1, dontRearm, w)
    BY <1>3
  <2> HIDE DEF st1
  <2>5. /\ TailTypeOK' /\ SharedStateConsistent' /\ ArmWritesMatch'
        /\ state' = st1
    BY <2>1, <2>2, <2>3, <2>4, SettleTail
  <2>6. QED
    BY <1>3, <2>4, <2>5 DEF st1, FreeStart, Untouched, Ready, Settle
<1>4. CASE ~Ready(st[t]) /\ Settle(st, dontRearm, w)
  <2>1. dontRearm \in [Target -> BOOLEAN]
    BY DEF TypeOK
  <2>2. /\ TailTypeOK' /\ SharedStateConsistent' /\ ArmWritesMatch'
        /\ state' = st
    BY <1>4, <2>1, SettleTail
  <2>3. QED BY <1>4, <2>2 DEF FreeStart, Untouched, Settle
<1>5. QED BY <1>2, <1>3, <1>4 DEF ArmOneTarget

-----------------------------------------------------------------------------
(* The readers and the lock count.                                         *)

\* The inductive invariant: SharedLockedHasReader needs the shared state to be
\* right, HeldIsReady needs the lock count to be exact.
IInv ==
  /\ TypeOK
  /\ SharedStateConsistent
  /\ SharedLockedHasReader
  /\ LockCountExact
  /\ HeldIsReady
  /\ ArmWritesMatch

\* What the variables no tail assigns look like after a step.
LockTypeOK ==
  /\ mode \in [Target -> Mode]
  /\ retriggerMode \in BOOLEAN
  /\ lockCount \in [Target -> Nat]
  /\ waiting \in [Target -> SUBSET Readers]
  /\ holding \in [Target -> SUBSET Readers]

\* Readers hold after the step only what was ready before it.
HeldWasReady == \A t \in Target : holding'[t] # {} => Ready(state[t])

\* A reader joins the readers of a target.
LEMMA LockTaken ==
  ASSUME NEW r \in Readers, NEW t \in Target, IInv, Idle(r),
         lockCount' = [lockCount EXCEPT ![t] = @ + 1],
         LockTypeOK',
         waiting'[t] \cup holding'[t] = waiting[t] \cup holding[t] \cup {r},
         waiting'[t] \cap holding'[t] = {},
         \A u \in Target \ {t} :
           waiting'[u] = waiting[u] /\ holding'[u] = holding[u]
  PROVE  LockCountExact'
<1>1. r \notin waiting[t] \cup holding[t]
  BY DEF Idle
<1>2. IsFiniteSet(waiting[t] \cup holding[t])
  <2>1. waiting[t] \cup holding[t] \subseteq Readers
    BY DEF IInv, TypeOK
  <2>2. QED BY <2>1, ReadersAssumption, FS_Subset
<1>3. Cardinality(waiting[t] \cup holding[t] \cup {r})
        = Cardinality(waiting[t] \cup holding[t]) + 1
  BY <1>1, <1>2, FS_AddElement
<1>4. lockCount'[t] = Cardinality(waiting'[t] \cup holding'[t])
  BY <1>3 DEF IInv, TypeOK, LockCountExact
<1>5. QED
  BY <1>4 DEF IInv, TypeOK, LockCountExact

\* A reader leaves the readers of a target.
LEMMA LockDropped ==
  ASSUME NEW r \in Readers, NEW t \in Target, IInv,
         r \in waiting[t] \cup holding[t],
         lockCount' = [lockCount EXCEPT ![t] = @ - 1],
         mode' = mode, retriggerMode' = retriggerMode,
         \/ /\ r \in waiting[t]
            /\ waiting' = [waiting EXCEPT ![t] = @ \ {r}] /\ holding' = holding
         \/ /\ r \in holding[t]
            /\ holding' = [holding EXCEPT ![t] = @ \ {r}] /\ waiting' = waiting
  PROVE  LockTypeOK' /\ LockCountExact' /\ lockCount[t] >= 1
<1> DEFINE R == waiting[t] \cup holding[t]
<1>1. IsFiniteSet(R)
  <2>1. R \subseteq Readers
    BY DEF IInv, TypeOK
  <2>2. QED BY <2>1, ReadersAssumption, FS_Subset
<1>2. IsFiniteSet(R \ {r}) /\ Cardinality(R \ {r}) = Cardinality(R) - 1
  BY <1>1, FS_RemoveElement
<1>3. lockCount[t] = Cardinality(R) /\ waiting[t] \cap holding[t] = {}
  BY DEF IInv, LockCountExact
<1>4. Cardinality(R) \in Nat /\ Cardinality(R \ {r}) \in Nat
  BY <1>1, <1>2, FS_CardinalityType
<1>5. waiting'[t] \cup holding'[t] = R \ {r}
  BY <1>3 DEF IInv, TypeOK
<1>6. lockCount'[t] = Cardinality(waiting'[t] \cup holding'[t])
  BY <1>2, <1>3, <1>5 DEF IInv, TypeOK
<1>7. LockTypeOK'
  BY <1>2, <1>3, <1>4 DEF IInv, TypeOK, LockTypeOK
<1>8. LockCountExact'
  BY <1>3, <1>6 DEF IInv, TypeOK, LockCountExact
<1>9. QED BY <1>2, <1>3, <1>4, <1>7, <1>8

LEMMA LockStep ==
  ASSUME IInv, [Next]_vars
  PROVE  LockTypeOK' /\ LockCountExact' /\ HeldWasReady
<1>1. CASE UNCHANGED <<lockVars>> /\ mode' \in [Target -> Mode]
                                  /\ retriggerMode' \in BOOLEAN
  BY <1>1 DEF IInv, TypeOK, LockTypeOK, LockCountExact, HeldIsReady,
              HeldWasReady, lockVars
<1>2. ASSUME NEW r \in Readers, NEW t \in Target, LockReady(r, t)
      PROVE  LockTypeOK' /\ LockCountExact' /\ HeldWasReady
  <2>1. LockTypeOK'
    BY <1>2 DEF LockReady, IInv, TypeOK, LockTypeOK
  <2>2. /\ waiting'[t] \cup holding'[t] = waiting[t] \cup holding[t] \cup {r}
        /\ waiting'[t] \cap holding'[t] = {}
        /\ \A u \in Target \ {t} :
             waiting'[u] = waiting[u] /\ holding'[u] = holding[u]
    BY <1>2 DEF LockReady, Idle, IInv, TypeOK, LockCountExact
  <2>3. LockCountExact'
    BY <1>2, <2>1, <2>2, LockTaken DEF LockReady
  <2>4. HeldWasReady
    BY <1>2 DEF LockReady, HeldWasReady, HeldIsReady, IInv, TypeOK
  <2>5. QED BY <2>1, <2>3, <2>4
<1>3. ASSUME NEW r \in Readers, NEW t \in Target, LockWait(r, t)
      PROVE  LockTypeOK' /\ LockCountExact' /\ HeldWasReady
  <2>1. LockTypeOK'
    BY <1>3 DEF LockWait, IInv, TypeOK, LockTypeOK
  <2>2. /\ waiting'[t] \cup holding'[t] = waiting[t] \cup holding[t] \cup {r}
        /\ waiting'[t] \cap holding'[t] = {}
        /\ \A u \in Target \ {t} :
             waiting'[u] = waiting[u] /\ holding'[u] = holding[u]
    BY <1>3 DEF LockWait, Idle, IInv, TypeOK, LockCountExact
  <2>3. LockCountExact'
    BY <1>3, <2>1, <2>2, LockTaken DEF LockWait
  <2>4. HeldWasReady
    BY <1>3 DEF LockWait, HeldWasReady, HeldIsReady, IInv, TypeOK
  <2>5. QED BY <2>1, <2>3, <2>4
<1>4. ASSUME NEW r \in Readers, NEW t \in Target, WaitReady(r, t)
      PROVE  LockTypeOK' /\ LockCountExact' /\ HeldWasReady
  <2>1. LockTypeOK'
    BY <1>4 DEF WaitReady, IInv, TypeOK, LockTypeOK
  <2>2. \A u \in Target : /\ waiting'[u] \cup holding'[u]
                               = waiting[u] \cup holding[u]
                           /\ waiting'[u] \cap holding'[u] = {}
    BY <1>4 DEF WaitReady, IInv, TypeOK, LockCountExact
  <2>3. LockCountExact'
    BY <1>4, <2>2 DEF WaitReady, IInv, LockCountExact
  <2>4. HeldWasReady
    BY <1>4 DEF WaitReady, HeldWasReady, HeldIsReady, IInv, TypeOK
  <2>5. QED BY <2>1, <2>3, <2>4
<1>5. ASSUME NEW r \in Readers, NEW t \in Target,
             WaitFail(r, t) \/ Unlock(r, t)
      PROVE  LockTypeOK' /\ LockCountExact' /\ HeldWasReady
  <2>1. LockTypeOK' /\ LockCountExact'
    BY <1>5, LockDropped DEF WaitFail, Unlock, DecrementLockCount
  <2>2. HeldWasReady
    BY <1>5 DEF WaitFail, Unlock, HeldWasReady, HeldIsReady, IInv, TypeOK
  <2>3. QED BY <2>1, <2>2
<1>6. ASSUME EventStep \/ UserStep \/ ModeStep \/ UNCHANGED vars
      PROVE  UNCHANGED <<lockVars>> /\ mode' \in [Target -> Mode]
                                    /\ retriggerMode' \in BOOLEAN
  <2>1. mode \in [Target -> Mode] /\ retriggerMode \in BOOLEAN
    BY DEF IInv, TypeOK
  <2>2. CASE EventStep
    BY <2>1, <2>2 DEF EventStep, TriggerEvent, CompleteEvent
  <2>3. CASE UserStep
    BY <2>1, <2>3 DEF UserStep, ArmTarget, DisarmTarget, SharedArm,
      SharedDisarm, SharedSetMode, ImmediateMemoryCapture, lockVars
  <2>4. CASE ModeStep
    BY <2>1, <2>4 DEF ModeStep, SetMode
  <2>5. CASE UNCHANGED vars
    BY <2>1, <2>5 DEF vars, lockVars
  <2>6. QED BY <1>6, <2>2, <2>3, <2>4, <2>5
<1>7. QED BY <1>1, <1>2, <1>3, <1>4, <1>5, <1>6 DEF Next, ReaderStep

-----------------------------------------------------------------------------
(* One step per operation.                                                 *)

StepOK ==
  /\ TailTypeOK'
  /\ ArmWritesMatch'
  /\ SharedStateConsistent'
  /\ SharedLockedHasReader'
  /\ FreeStart(state)

\* An operation that ends in update_global_state().
LEMMA UpdateStep ==
  ASSUME IInv, LockTypeOK',
         NEW st \in [Target -> TargetState],
         NEW dr \in [Target -> BOOLEAN],
         NEW sdr \in BOOLEAN,
         NEW w \in Writes,
         \A t \in Target :
           Ready(state[t]) /\ lockCount'[t] > 0 => Ready(st[t]),
         WritesMatch(w, st),
         UpdateGlobalState(st, dr, sdr, w)
  PROVE  StepOK
<1>1. /\ TailTypeOK' /\ SharedStateConsistent' /\ SharedLockedHasReader'
      /\ ArmWritesMatch' /\ FreeStart(st)
  BY UpdateGlobalTail DEF LockTypeOK
<1>2. FreeStart(state)
  BY <1>1 DEF FreeStart
<1>3. QED BY <1>1, <1>2 DEF StepOK

\* An operation that leaves the shared targets alone, and never unlocks one.
LEMMA SettleStep ==
  ASSUME IInv, LockTypeOK', mode' = mode,
         NEW st \in [Target -> TargetState],
         NEW dr \in [Target -> BOOLEAN],
         NEW w \in Writes,
         \A t \in SharedTargets(mode) :
           st[t] = state[t] /\ (lockCount[t] > 0 => lockCount'[t] > 0),
         \A t \in Target :
           Ready(state[t]) /\ lockCount'[t] > 0 => Ready(st[t]),
         WritesMatch(w, st),
         Settle(st, dr, w)
  PROVE  StepOK
<1>1. /\ TailTypeOK' /\ SharedStateConsistent' /\ ArmWritesMatch'
      /\ state' = st
  BY SettleTail DEF IInv
<1>2. SharedLockedHasReader'
  <2>1. shState' = shState
    BY DEF Settle
  <2>2. LockedTargets(mode, lockCount) \subseteq LockedTargets(mode', lockCount')
    BY DEF LockedTargets
  <2>3. QED BY <2>1, <2>2 DEF IInv, SharedLockedHasReader
<1>3. FreeStart(state)
  BY <1>1 DEF FreeStart
<1>4. QED BY <1>1, <1>2, <1>3 DEF StepOK

\* An operation that ends in arm_target() of a target that is not shared.
LEMMA ArmOneStep ==
  ASSUME IInv, LockTypeOK', mode' = mode,
         NEW t \in Target, mode[t] # "SHARED",
         NEW st \in [Target -> TargetState],
         NEW w \in Writes,
         \A u \in SharedTargets(mode) :
           st[u] = state[u] /\ lockCount'[u] = lockCount[u],
         \A u \in Target :
           Ready(state[u]) /\ lockCount'[u] > 0 => Ready(st[u]),
         WritesMatch(w, st),
         ArmOneTarget(t, st, w)
  PROVE  StepOK
<1>1. /\ TailTypeOK' /\ SharedStateConsistent' /\ ArmWritesMatch'
      /\ FreeStart(st)
      /\ UNCHANGED shState
  BY ArmOneTail DEF IInv, LockTypeOK
<1>2. SharedLockedHasReader'
  <2>1. LockedTargets(mode, lockCount) \subseteq LockedTargets(mode', lockCount')
    BY DEF LockedTargets
  <2>2. QED BY <1>1, <2>1 DEF IInv, SharedLockedHasReader
<1>3. FreeStart(state)
  BY <1>1 DEF FreeStart
<1>4. QED BY <1>1, <1>2, <1>3 DEF StepOK

\* An operation that ends in arm_shared_targets() in the current shared state.
LEMMA ArmSharedStep ==
  ASSUME IInv, LockTypeOK', mode' = mode,
         ArmSharedTargets(state, dontRearm, shState, NoWrites)
  PROVE  StepOK
<1>1. /\ state \in [Target -> TargetState]
      /\ dontRearm \in [Target -> BOOLEAN]
      /\ shState = GlobalState(mode', state)
  BY DEF IInv, TypeOK, SharedStateConsistent
<1>2. QED
  BY <1>1, ArmSharedTail, NoWritesType DEF StepOK, LockTypeOK

LEMMA EventStepOK ==
  ASSUME IInv, LockTypeOK', EventStep
  PROVE  StepOK
<1>1. PICK t \in Target : TriggerEvent(t) \/ CompleteEvent(t)
  BY DEF EventStep
<1>2. /\ state \in [Target -> TargetState]
      /\ dontRearm \in [Target -> BOOLEAN]
      /\ shDontRearm \in BOOLEAN
      /\ NoWrites \in Writes
      /\ \A s \in [Target -> TargetState] : WritesMatch(NoWrites, s)
      /\ [NoWrites EXCEPT !.soft = (mode[t] = "FREE_RUN")] \in Writes
  BY NoWritesType DEF IInv, TypeOK, Writes
<1>3. mode' = mode /\ lockCount' = lockCount
  BY <1>1 DEF TriggerEvent, CompleteEvent, lockVars
<1>4. CASE TriggerEvent(t)
  <2> DEFINE st == [state EXCEPT ![t] = "BUSY"]
  <2>1. st \in [Target -> TargetState]
    BY <1>2 DEF TargetState
  <2>2. CASE /\ state[t] = "ARMED"
             /\ UpdateGlobalState(st, dontRearm, shDontRearm, NoWrites)
    <3>1. \A u \in Target : Ready(state[u]) => Ready(st[u])
      BY <1>2, <2>2 DEF Ready
    <3> HIDE DEF st
    <3>2. QED BY <1>2, <2>1, <2>2, <3>1, UpdateStep
  <2>3. CASE /\ state[t] = "ARMED" /\ mode[t] # "SHARED"
             /\ Settle(st, dontRearm, NoWrites)
    <3>1. \A u \in Target : Ready(state[u]) => Ready(st[u])
      BY <1>2, <2>3 DEF Ready
    <3>2. \A u \in SharedTargets(mode) : st[u] = state[u]
      BY <1>2, <2>3 DEF SharedTargets
    <3> HIDE DEF st
    <3>3. QED BY <1>2, <1>3, <2>1, <2>3, <3>1, <3>2, SettleStep
  <2>4. CASE Settle(state, dontRearm, NoWrites)
    BY <1>2, <1>3, <2>4, SettleStep
  <2>5. QED BY <1>4, <2>2, <2>3, <2>4 DEF TriggerEvent
<1>5. CASE CompleteEvent(t)
  <2> DEFINE st == [state EXCEPT ![t] = "IDLE"]
  <2>1. st \in [Target -> TargetState]
    BY <1>2 DEF TargetState
  <2>2. \A u \in Target : Ready(state[u]) => Ready(st[u])
    BY <1>2 DEF Ready
  <2>3. mode[t] # "SHARED" => \A u \in SharedTargets(mode) : st[u] = state[u]
    BY <1>2 DEF SharedTargets
  <2> HIDE DEF st
  <2>4. CASE UpdateGlobalState(st, dontRearm, shDontRearm, NoWrites)
    BY <1>2, <2>1, <2>2, <2>4, UpdateStep
  <2>5. CASE /\ AutoRearm(t)
             /\ ArmOneTarget(t, st, [NoWrites EXCEPT
                                       !.soft = (mode[t] = "FREE_RUN")])
    <3>1. mode[t] # "SHARED"
      BY <2>5 DEF AutoRearm
    <3>2. WritesMatch([NoWrites EXCEPT !.soft = (mode[t] = "FREE_RUN")], st)
      BY DEF WritesMatch, NoWrites
    <3>3. QED BY <1>2, <1>3, <2>1, <2>2, <2>3, <2>5, <3>1, <3>2, ArmOneStep
  <2>6. CASE mode[t] # "SHARED" /\ Settle(st, dontRearm, NoWrites)
    BY <1>2, <1>3, <2>1, <2>2, <2>3, <2>6, SettleStep
  <2>7. CASE Settle(state, dontRearm, NoWrites)
    BY <1>2, <1>3, <2>7, SettleStep
  <2>8. QED BY <1>5, <2>4, <2>5, <2>6, <2>7 DEF CompleteEvent, st
<1>6. QED BY <1>1, <1>4, <1>5

LEMMA DisarmSharedStep ==
  ASSUME IInv, LockTypeOK', DisarmSharedTargets
  PROVE  StepOK
<1> DEFINE S == SharedTargets(mode)
           st == [t \in Target |->
                    IF t \in S THEN Stopped(t, state[t]) ELSE state[t]]
           dr == [t \in Target |-> t \in S \/ dontRearm[t]]
           w == [NoWrites EXCEPT
                   !.disarm = S,
                   !.fire = {t \in S \cap {Dram} : state[t] = "ARMED"}]
<1>1. st \in [Target -> TargetState] /\ dr \in [Target -> BOOLEAN]
  BY DEF IInv, TypeOK, Stopped, TargetState
<1>2. w \in Writes
  <2>1. S \subseteq Target /\ S \cap {Dram} \subseteq Target
    BY DEF SharedTargets
  <2>2. QED BY <2>1 DEF Writes, NoWrites
<1>3. \A t \in Target : Ready(state[t]) => Ready(st[t])
  BY DEF Ready, Stopped
<1>4. UpdateGlobalState(st, dr, TRUE, w)
  BY DEF DisarmSharedTargets
<1>5. WritesMatch(w, st)
  BY DEF WritesMatch, NoWrites
<1> HIDE DEF st, dr, w
<1>6. QED BY <1>1, <1>2, <1>3, <1>4, <1>5, UpdateStep

LEMMA UserStepOK ==
  ASSUME IInv, LockTypeOK', UserStep
  PROVE  StepOK
<1>1. /\ state \in [Target -> TargetState]
      /\ dontRearm \in [Target -> BOOLEAN]
      /\ shDontRearm \in BOOLEAN
      /\ NoWrites \in Writes
      /\ \A s \in [Target -> TargetState] : WritesMatch(NoWrites, s)
  BY NoWritesType DEF IInv, TypeOK
<1>2. lockCount' = lockCount
  BY DEF UserStep, ArmTarget, DisarmTarget, SharedArm, SharedDisarm,
         SharedSetMode, ImmediateMemoryCapture, lockVars
<1>3. ASSUME NEW t \in Target, ArmTarget(t)
      PROVE  StepOK
  <2>1. mode' = mode
    BY <1>3 DEF ArmTarget
  <2>2. CASE ArmSharedTargets(state, dontRearm, shState, NoWrites)
    BY <2>1, <2>2, ArmSharedStep
  <2>3. CASE mode[t] # "SHARED" /\ ArmOneTarget(t, state, NoWrites)
    BY <1>1, <1>2, <2>1, <2>3, ArmOneStep
  <2>4. QED BY <1>3, <2>2, <2>3 DEF ArmTarget
<1>4. ASSUME NEW t \in Target, DisarmTarget(t)
      PROVE  StepOK
  <2> DEFINE st == [state EXCEPT ![t] = Stopped(t, @)]
             dr == [dontRearm EXCEPT ![t] = TRUE]
             w == [NoWrites EXCEPT
                     !.disarm = {t},
                     !.fire = IF t = Dram /\ state[t] = "ARMED"
                              THEN {t} ELSE {}]
  <2>1. mode' = mode
    BY <1>4 DEF DisarmTarget, DisarmSharedTargets
  <2>2. CASE DisarmSharedTargets
    BY <2>2, DisarmSharedStep
  <2>3. CASE mode[t] # "SHARED" /\ Settle(st, dr, w)
    <3>1. st \in [Target -> TargetState] /\ dr \in [Target -> BOOLEAN]
      BY <1>1 DEF Stopped, TargetState
    <3>2. w \in Writes
      BY DEF Writes, NoWrites
    <3>3. \A u \in Target : Ready(state[u]) => Ready(st[u])
      BY <1>1 DEF Ready, Stopped
    <3>4. \A u \in SharedTargets(mode) : st[u] = state[u]
      BY <1>1, <2>3 DEF SharedTargets
    <3>5. WritesMatch(w, st)
      BY DEF WritesMatch, NoWrites
    <3> HIDE DEF st, dr, w
    <3>6. QED BY <1>2, <2>1, <2>3, <3>1, <3>2, <3>3, <3>4, <3>5, SettleStep
  <2>4. QED BY <1>4, <2>2, <2>3 DEF DisarmTarget
<1>5. CASE SharedArm
  BY <1>5, ArmSharedStep DEF SharedArm
<1>6. CASE SharedDisarm
  BY <1>6, DisarmSharedStep DEF SharedDisarm
<1>7. CASE \E b \in BOOLEAN : SharedSetMode(b)
  <2>1. mode' = mode /\ Settle(state, dontRearm, NoWrites)
    BY <1>7 DEF SharedSetMode
  <2>2. QED BY <1>1, <1>2, <2>1, SettleStep
<1>8. CASE ImmediateMemoryCapture
  <2> DEFINE st == [state EXCEPT ![Dram] = "ARMED"]
             dr == [dontRearm EXCEPT ![Dram] = TRUE]
             w == [NoWrites EXCEPT !.prepare = {Dram}, !.fire = {Dram}]
  <2>1. mode' = mode /\ lockCount'[Dram] = 0
    BY <1>2, <1>8 DEF ImmediateMemoryCapture
  <2>2. /\ st \in [Target -> TargetState] /\ dr \in [Target -> BOOLEAN]
        /\ w \in Writes
    BY <1>1 DEF TargetState, Writes, NoWrites, Target
  <2>3. \A u \in Target :
          Ready(state[u]) /\ lockCount'[u] > 0 => Ready(st[u])
    BY <1>1, <2>1 DEF Ready
  <2>4. mode[Dram] # "SHARED" => \A u \in SharedTargets(mode) : st[u] = state[u]
    BY <1>1 DEF SharedTargets
  <2>5. \/ UpdateGlobalState(st, dr, shDontRearm, w)
        \/ mode[Dram] # "SHARED" /\ Settle(st, dr, w)
    BY <1>8 DEF ImmediateMemoryCapture
  <2>6. WritesMatch(w, st)
    BY <1>1, <2>1 DEF WritesMatch, NoWrites, Target
  <2> HIDE DEF st, dr, w
  <2>7. CASE UpdateGlobalState(st, dr, shDontRearm, w)
    BY <1>1, <2>2, <2>3, <2>6, <2>7, UpdateStep
  <2>8. CASE mode[Dram] # "SHARED" /\ Settle(st, dr, w)
    BY <1>2, <2>1, <2>2, <2>3, <2>4, <2>6, <2>8, SettleStep
  <2>9. QED BY <2>5, <2>7, <2>8
<1>9. QED BY <1>3, <1>4, <1>5, <1>6, <1>7, <1>8 DEF UserStep

LEMMA DecrementStep ==
  ASSUME IInv, LockTypeOK', NEW t \in Target, DecrementLockCount(t),
         lockCount[t] >= 1
  PROVE  StepOK
<1>1. /\ state \in [Target -> TargetState]
      /\ dontRearm \in [Target -> BOOLEAN]
      /\ shDontRearm \in BOOLEAN
      /\ NoWrites \in Writes
      /\ \A s \in [Target -> TargetState] : WritesMatch(NoWrites, s)
      /\ lockCount \in [Target -> Nat]
  BY NoWritesType DEF IInv, TypeOK
<1>2. mode' = mode /\ lockCount' = [lockCount EXCEPT ![t] = @ - 1]
  BY DEF DecrementLockCount
<1>3. CASE UpdateGlobalState(state, dontRearm, shDontRearm, NoWrites)
  BY <1>1, <1>3, UpdateStep
<1>4. CASE mode[t] # "SHARED" /\ ArmOneTarget(t, state, NoWrites)
  <2>1. \A u \in SharedTargets(mode) : lockCount'[u] = lockCount[u]
    BY <1>1, <1>2, <1>4 DEF SharedTargets
  <2>2. QED BY <1>1, <1>2, <1>4, <2>1, ArmOneStep
<1>5. CASE /\ lockCount[t] # 1 \/ (mode[t] # "SHARED" /\ state[t] # "LOCKED")
           /\ Settle(state, dontRearm, NoWrites)
  <2>1. \A u \in SharedTargets(mode) : lockCount[u] > 0 => lockCount'[u] > 0
    BY <1>1, <1>2, <1>5 DEF SharedTargets
  <2>2. QED BY <1>1, <1>2, <1>5, <2>1, SettleStep
<1>6. QED BY <1>3, <1>4, <1>5 DEF DecrementLockCount

LEMMA ReaderStepOK ==
  ASSUME IInv, LockTypeOK', ReaderStep
  PROVE  StepOK
<1>1. /\ state \in [Target -> TargetState]
      /\ dontRearm \in [Target -> BOOLEAN]
      /\ NoWrites \in Writes
      /\ \A s \in [Target -> TargetState] : WritesMatch(NoWrites, s)
      /\ lockCount \in [Target -> Nat]
  BY NoWritesType DEF IInv, TypeOK
<1>2. PICK r \in Readers, t \in Target :
        LockReady(r, t) \/ LockWait(r, t) \/ WaitReady(r, t)
          \/ WaitFail(r, t) \/ Unlock(r, t)
  BY DEF ReaderStep
<1>3. CASE LockReady(r, t) \/ LockWait(r, t) \/ WaitReady(r, t)
  <2>1. /\ mode' = mode
        /\ Settle(state, dontRearm, NoWrites)
        /\ \A u \in Target : lockCount'[u] >= lockCount[u]
    BY <1>1, <1>3 DEF LockReady, LockWait, WaitReady
  <2>2. \A u \in Target : lockCount[u] > 0 => lockCount'[u] > 0
    BY <1>1, <2>1 DEF LockTypeOK
  <2>3. QED
    BY <1>1, <2>1, <2>2, SettleStep DEF SharedTargets
<1>4. CASE WaitFail(r, t) \/ Unlock(r, t)
  <2>1. DecrementLockCount(t) /\ lockCount[t] >= 1
    BY <1>4, LockDropped DEF WaitFail, Unlock, DecrementLockCount
  <2>2. QED BY <2>1, DecrementStep
<1>5. QED BY <1>2, <1>3, <1>4

LEMMA ModeStepOK ==
  ASSUME IInv, LockTypeOK', ModeStep
  PROVE  StepOK
<1>1. /\ state \in [Target -> TargetState]
      /\ dontRearm \in [Target -> BOOLEAN]
      /\ shDontRearm \in BOOLEAN
      /\ NoWrites \in Writes
      /\ \A s \in [Target -> TargetState] : WritesMatch(NoWrites, s)
  BY NoWritesType DEF IInv, TypeOK
<1>2. UpdateGlobalState(state, dontRearm, shDontRearm, NoWrites)
  BY DEF ModeStep, SetMode
<1>3. QED BY <1>1, <1>2, UpdateStep

-----------------------------------------------------------------------------
(* The invariant, and the theorems.                                        *)

LEMMA InitIInv == Init => IInv
<1> SUFFICES ASSUME Init PROVE IInv
  OBVIOUS
<1>1. TypeOK
  BY NoWritesType DEF Init, TypeOK, Mode, TargetState, SharedState
<1>2. SharedStateConsistent
  BY DEF Init, SharedStateConsistent, GlobalState, SharedTargets
<1>3. LockCountExact
  BY FS_EmptySet DEF Init, LockCountExact
<1>4. SharedLockedHasReader /\ HeldIsReady /\ ArmWritesMatch
  BY DEF Init, SharedLockedHasReader, HeldIsReady, ArmWritesMatch, NoWrites
<1>5. QED BY <1>1, <1>2, <1>3, <1>4 DEF IInv

LEMMA NextStepOK ==
  ASSUME IInv, [Next]_vars
  PROVE  StepOK
<1>1. LockTypeOK'
  BY LockStep
<1>2. CASE UNCHANGED vars
  BY <1>2 DEF vars, IInv, TypeOK, StepOK, TailTypeOK, SharedStateConsistent,
    SharedLockedHasReader, FreeStart, ArmWritesMatch
<1>3. QED
  BY <1>1, <1>2, EventStepOK, ReaderStepOK, UserStepOK, ModeStepOK DEF Next

LEMMA IInvStep ==
  ASSUME IInv, [Next]_vars
  PROVE  IInv'
<1>1. LockTypeOK' /\ LockCountExact' /\ HeldWasReady
  BY LockStep
<1>2. StepOK
  BY NextStepOK
<1>3. TypeOK'
  BY <1>1, <1>2 DEF StepOK, TailTypeOK, LockTypeOK, TypeOK
<1>4. HeldIsReady'
  <2> SUFFICES ASSUME NEW t \in Target, holding'[t] # {}
               PROVE  Ready(state'[t])
    BY DEF HeldIsReady
  <2>1. IsFiniteSet(waiting'[t] \cup holding'[t])
    <3>1. waiting'[t] \cup holding'[t] \subseteq Readers
      BY <1>3 DEF TypeOK
    <3>2. QED BY <3>1, ReadersAssumption, FS_Subset
  <2>2. lockCount'[t] > 0
    <3>1. Cardinality(waiting'[t] \cup holding'[t]) # 0
      BY <2>1, FS_EmptySet
    <3>2. lockCount'[t] # 0 /\ lockCount'[t] \in Nat
      BY <1>1, <1>3, <3>1 DEF LockCountExact, TypeOK
    <3>3. QED BY <3>2
  <2>3. QED BY <1>1, <1>2, <2>2 DEF HeldWasReady, StepOK, FreeStart
<1>5. QED BY <1>1, <1>2, <1>3, <1>4 DEF IInv, StepOK

LEMMA SpecIInv == Spec => []IInv
BY InitIInv, IInvStep, PTL DEF Spec

(***************************************************************************)
(* Every variable keeps its type: in particular the lock counts, which the *)
(* code decrements without a check, never go below zero.                   *)
(***************************************************************************)
THEOREM TypeCorrect == Spec => []TypeOK
<1>1. IInv => TypeOK
  BY DEF IInv
<1>2. QED BY <1>1, SpecIInv, PTL

(***************************************************************************)
(* The shared state that is published, and that every arming decision is   *)
(* based on, is the state of the shared targets after every operation.     *)
(***************************************************************************)
THEOREM SharedStateCorrect == Spec => []SharedStateConsistent
<1>1. IInv => SharedStateConsistent
  BY DEF IInv
<1>2. QED BY <1>1, SpecIInv, PTL

(***************************************************************************)
(* The shared targets are never left LOCKED without a reader to wait for.  *)
(***************************************************************************)
THEOREM SharedLockReleased == Spec => []SharedLockedHasReader
<1>1. IInv => SharedLockedHasReader
  BY DEF IInv
<1>2. QED BY <1>1, SpecIInv, PTL

(***************************************************************************)
(* lock_count counts the readers that hold or wait for the target.         *)
(***************************************************************************)
THEOREM LockCountCorrect == Spec => []LockCountExact
<1>1. IInv => LockCountExact
  BY DEF IInv
<1>2. QED BY <1>1, SpecIInv, PTL

(***************************************************************************)
(* No target is armed or busy while a reader holds it, for any number of   *)
(* sequencers and of readers.                                              *)
(***************************************************************************)
THEOREM ReadoutSafe == Spec => []HeldIsReady
<1>1. IInv => HeldIsReady
  BY DEF IInv
<1>2. QED BY <1>1, SpecIInv, PTL

(***************************************************************************)
(* arm_shared_targets() may take its mask from the modes: every target it  *)
(* arms in hardware has been prepared, is armed and is locked by nobody.   *)
(***************************************************************************)
THEOREM WritesCorrect == Spec => []ArmWritesMatch
<1>1. IInv => ArmWritesMatch
  BY DEF IInv
<1>2. QED BY <1>1, SpecIInv, PTL

(***************************************************************************)
(* The shared state is right, and it is not left waiting for nobody.       *)
(***************************************************************************)
THEOREM SharedStateHolds == Spec => []SharedCorrect
<1>1. IInv => SharedCorrect
  BY DEF IInv, SharedCorrect
<1>2. QED BY <1>1, SpecIInv, PTL

(***************************************************************************)
(* Locks are counted right, keep their target at rest, and keep it from    *)
(* being armed.                                                            *)
(***************************************************************************)
THEOREM LocksHold == Spec => []LocksCorrect
<1>1. IInv => LocksCorrect
  BY DEF IInv, LocksCorrect
<1>2. QED BY <1>1, SpecIInv, PTL

(***************************************************************************)
(* A ready target that is held or waited for is not armed before the last  *)
(* of its readers has gone, whatever operation runs.                       *)
(***************************************************************************)
THEOREM ReadinessKept == Spec => ReadyStable
<1>1. IInv /\ [Next]_vars =>
        [\A t \in Target :
           Ready(state[t]) /\ lockCount[t] > 0 /\ lockCount'[t] > 0
             => Ready(state'[t])]_vars
  <2> SUFFICES ASSUME IInv, [Next]_vars
               PROVE  \A t \in Target :
                        Ready(state[t]) /\ lockCount[t] > 0 /\ lockCount'[t] > 0
                          => Ready(state'[t])
    OBVIOUS
  <2>1. QED BY NextStepOK DEF StepOK, FreeStart
<1>2. QED BY <1>1, SpecIInv, PTL DEF Spec, ReadyStable

-----------------------------------------------------------------------------
(* The refinement of ReadoutExclusion.                                     *)

Started == {t \in Target : Ready(state[t]) /\ ~Ready(state'[t])}
Ended == {t \in Target : ~Ready(state[t]) /\ Ready(state'[t])}

\* Arming the shared targets once t has completed: none of them starts
\* capturing unless all do, t again included.
LEMMA AllOrNone ==
  ASSUME IInv, NEW t \in Target, state[t] = "BUSY", mode[t] = "SHARED",
         mode' = mode,
         UpdateGlobalState([state EXCEPT ![t] = "IDLE"], dontRearm,
                           shDontRearm, NoWrites)
  PROVE  Started = {} \/ Ended = {}
<1> DEFINE st == [state EXCEPT ![t] = "IDLE"]
           S == SharedTargets(mode')
           L == LockedTargets(mode', lockCount')
           gs == GlobalState(mode', st)
<1>1. /\ state \in [Target -> TargetState]
      /\ L \subseteq S /\ S \subseteq Target /\ t \in S
  BY DEF IInv, TypeOK, LockedTargets, SharedTargets
<1>2. CASE state' = st
  BY <1>1, <1>2 DEF Started, Ready
<1>3. CASE state' = [u \in Target |-> IF u \in L THEN "LOCKED" ELSE st[u]]
  BY <1>1, <1>3 DEF Started, Ready
<1>4. CASE /\ gs \in {"IDLE", "LOCKED"}
           /\ state' = [u \in Target |->
                          IF u \in {v \in S : Ready(st[v])} THEN "ARMED"
                          ELSE st[u]]
  BY <1>1, <1>4 DEF Ended, Ready
<1>5. QED BY <1>1, <1>2, <1>3, <1>4 DEF UpdateGlobalState, ArmSharedTargets

LEMMA StartOrEnd ==
  ASSUME IInv, [Next]_vars, ~ReaderStep
  PROVE  Started = {} \/ Ended = {}
<1>1. /\ state \in [Target -> TargetState]
      /\ dontRearm \in [Target -> BOOLEAN]
      /\ shDontRearm \in BOOLEAN
      /\ NoWrites \in Writes
      /\ \A s \in [Target -> TargetState] : WritesMatch(NoWrites, s)
      /\ shState = GlobalState(mode, state)
  BY NoWritesType DEF IInv, TypeOK, SharedStateConsistent
<1>2. LockTypeOK'
  BY LockStep
<1>3. CASE Untouched(state)
  BY <1>3 DEF Untouched, Ended
<1>4. CASE state' = state
  BY <1>4 DEF Started
<1>5. CASE EventStep
  <2>1. PICK t \in Target : TriggerEvent(t) \/ CompleteEvent(t)
    BY <1>5 DEF EventStep
  <2>2. mode' = mode /\ lockCount' = lockCount
    BY <2>1 DEF TriggerEvent, CompleteEvent, lockVars
  <2>3. CASE TriggerEvent(t)
    <3> DEFINE st == [state EXCEPT ![t] = "BUSY"]
    <3>1. st \in [Target -> TargetState]
      BY <1>1 DEF TargetState
    <3>2. CASE /\ state[t] = "ARMED"
               /\ UpdateGlobalState(st, dontRearm, shDontRearm, NoWrites)
      <4>1. \A u \in Target : ~Ready(state[u]) => ~Ready(st[u])
        BY <1>1 DEF Ready
      <4> HIDE DEF st
      <4>2. Untouched(st)
        BY <1>1, <1>2, <3>1, <3>2, UpdateGlobalTail DEF LockTypeOK
      <4>3. QED BY <4>1, <4>2 DEF Untouched, Ended
    <3>3. CASE state[t] = "ARMED" /\ state' = st
      BY <1>1, <3>3 DEF Ended, Ready
    <3>4. QED BY <1>4, <2>3, <3>2, <3>3 DEF TriggerEvent, Settle
  <2>4. CASE CompleteEvent(t)
    <3> DEFINE st == [state EXCEPT ![t] = "IDLE"]
    <3>1. CASE /\ state[t] = "BUSY" /\ mode[t] = "SHARED"
               /\ UpdateGlobalState(st, dontRearm, shDontRearm, NoWrites)
      BY <2>2, <3>1, AllOrNone
    <3>2. CASE /\ state[t] = "BUSY"
               /\ \A u \in Target \ {t} : state'[u] = state[u]
      BY <3>2 DEF Started, Ready
    <3>3. CASE state[t] = "BUSY" /\ state' = st
      BY <1>1, <3>2, <3>3
    <3>4. CASE /\ state[t] = "BUSY"
               /\ ArmOneTarget(t, st, [NoWrites EXCEPT
                                         !.soft = (mode[t] = "FREE_RUN")])
      BY <1>1, <3>2, <3>4 DEF ArmOneTarget, Settle
    <3>5. QED BY <1>4, <2>4, <3>1, <3>3, <3>4 DEF CompleteEvent, Settle
  <2>5. QED BY <2>1, <2>3, <2>4
<1>6. ASSUME DisarmSharedTargets, mode' = mode
      PROVE  Started = {}
  <2> DEFINE S == SharedTargets(mode)
             st == [t \in Target |->
                      IF t \in S THEN Stopped(t, state[t]) ELSE state[t]]
             dr == [t \in Target |-> t \in S \/ dontRearm[t]]
             w == [NoWrites EXCEPT
                     !.disarm = S,
                     !.fire = {t \in S \cap {Dram} : state[t] = "ARMED"}]
  <2>1. \A t \in S : st[t] # "LOCKED"
    BY <1>1 DEF Stopped, SharedTargets
  <2>2. GlobalState(mode', st) # "LOCKED"
    BY <1>6, <2>1 DEF GlobalState
  <2>3. UpdateGlobalState(st, dr, TRUE, w)
    BY <1>6 DEF DisarmSharedTargets
  <2> HIDE DEF st, dr, w
  <2>4. state' = st
    BY <2>2, <2>3 DEF UpdateGlobalState
  <2>5. QED BY <2>4 DEF st, Started, Ready, Stopped
<1>7. CASE UserStep
  <2>1. mode' = mode \/ \E t \in Target : DisarmTarget(t)
    BY <1>7 DEF UserStep, ArmTarget, SharedArm, SharedDisarm, SharedSetMode,
      ImmediateMemoryCapture
  <2>2. ASSUME mode' = mode,
               ArmSharedTargets(state, dontRearm, shState, NoWrites)
        PROVE  Untouched(state)
    BY <1>1, <1>2, <2>2, ArmSharedTail DEF LockTypeOK
  <2>3. ASSUME NEW t \in Target, ArmTarget(t)
        PROVE  Untouched(state)
    BY <1>1, <2>2, <2>3 DEF ArmTarget, ArmOneTarget, Settle, Untouched
  <2>4. ASSUME NEW t \in Target, DisarmTarget(t)
        PROVE  Started = {}
    <3>1. CASE mode[t] = "SHARED"
      BY <1>6, <2>4, <3>1 DEF DisarmTarget
    <3>2. CASE mode[t] # "SHARED"
      <4>1. state' = [state EXCEPT ![t] = Stopped(t, @)]
        BY <2>4, <3>2 DEF DisarmTarget, Settle
      <4>2. QED BY <1>1, <4>1 DEF Started, Ready, Stopped
    <3>3. QED BY <3>1, <3>2
  <2>5. ASSUME ImmediateMemoryCapture
        PROVE  Ended = {}
    <3> DEFINE st == [state EXCEPT ![Dram] = "ARMED"]
               dr == [dontRearm EXCEPT ![Dram] = TRUE]
               w == [NoWrites EXCEPT !.prepare = {Dram}, !.fire = {Dram}]
    <3>1. /\ st \in [Target -> TargetState] /\ dr \in [Target -> BOOLEAN]
          /\ w \in Writes /\ WritesMatch(w, st)
      BY <1>1, <1>2, <2>5 DEF TargetState, Writes, NoWrites, Target, WritesMatch,
        ImmediateMemoryCapture, lockVars
    <3>2. \A u \in Target : ~Ready(state[u]) => ~Ready(st[u])
      BY <1>1 DEF Ready
    <3>3. UpdateGlobalState(st, dr, shDontRearm, w) \/ state' = st
      BY <2>5 DEF ImmediateMemoryCapture, Settle
    <3> HIDE DEF st, dr, w
    <3>4. Untouched(st)
      BY <1>1, <1>2, <3>1, <3>3, UpdateGlobalTail DEF LockTypeOK, Untouched
    <3>5. QED BY <3>2, <3>4 DEF Untouched, Ended
  <2>6. CASE SharedArm
    BY <1>3, <2>2, <2>6 DEF SharedArm
  <2>7. CASE SharedDisarm
    BY <1>6, <2>7 DEF SharedDisarm
  <2>8. CASE \E b \in BOOLEAN : SharedSetMode(b)
    BY <1>4, <2>8 DEF SharedSetMode, Settle
  <2>9. QED BY <1>3, <1>7, <2>3, <2>4, <2>5, <2>6, <2>7, <2>8 DEF UserStep
<1>8. CASE ModeStep
  <2>1. UpdateGlobalState(state, dontRearm, shDontRearm, NoWrites)
    BY <1>8 DEF ModeStep, SetMode
  <2>2. QED BY <1>1, <1>2, <1>3, <2>1, UpdateGlobalTail DEF LockTypeOK
<1>9. QED BY <1>4, <1>5, <1>7, <1>8 DEF Next, vars

\* A capture only starts on a target that has no reader left.
LEMMA StartedFree ==
  ASSUME IInv, [Next]_vars, NEW t \in Started
  PROVE  waiting'[t] = {} /\ holding'[t] = {}
<1>1. StepOK /\ IInv'
  BY NextStepOK, IInvStep
<1>2. ~(lockCount'[t] > 0)
  BY <1>1 DEF StepOK, FreeStart, Started
<1>3. Cardinality(waiting'[t] \cup holding'[t]) = 0
  BY <1>1, <1>2 DEF Started, IInv, TypeOK, LockCountExact
<1>4. waiting'[t] \cup holding'[t] \subseteq Readers
  BY <1>1 DEF Started, IInv, TypeOK
<1>5. waiting'[t] \cup holding'[t] = {}
  BY <1>3, <1>4, ReadersAssumption, FS_Subset, FS_EmptySet
<1>6. QED BY <1>5

LEMMA ExclusionStep ==
  ASSUME IInv, [Next]_vars
  PROVE  [Exclusion!Next]_(Exclusion!vars)
<1> DEFINE cap == [t \in Target |-> ~Ready(state[t])]
<1>1. /\ Started \subseteq Target /\ Ended \subseteq Target
      /\ \A t \in Started : ~cap[t]
      /\ \A t \in Ended : cap[t]
      /\ cap' = [t \in Target |-> (cap[t] \/ t \in Started) /\ t \notin Ended]
  BY DEF Started, Ended
<1>2. \A t \in Started : waiting'[t] = {} /\ holding'[t] = {}
  BY StartedFree
<1>3. CASE ~ReaderStep
  <2>1. waiting' = waiting /\ holding' = holding
    BY <1>3 DEF Next, EventStep, TriggerEvent, CompleteEvent, UserStep,
      ArmTarget, DisarmTarget, SharedArm, SharedDisarm, SharedSetMode,
      ImmediateMemoryCapture, ModeStep, SetMode, vars, lockVars
  <2>2. CASE Ended = {}
    <3>1. Exclusion!Start(Started)
      BY <1>1, <1>2, <2>1, <2>2
      DEF Exclusion!Start, Exclusion!Capture, Exclusion!Free
    <3>2. QED BY <1>1, <3>1 DEF Exclusion!Next
  <2>3. CASE Started = {}
    <3>1. Exclusion!Finish(Ended)
      BY <1>1, <2>1, <2>3 DEF Exclusion!Finish, Exclusion!Capture
    <3>2. QED BY <1>1, <3>1 DEF Exclusion!Next
  <2>4. QED BY <1>3, <2>2, <2>3, StartOrEnd
<1>4. ASSUME NEW r \in Readers, NEW t \in Target,
             LockReady(r, t) \/ LockWait(r, t) \/ WaitReady(r, t)
      PROVE  Exclusion!Next
  <2>1. cap' = cap
    BY <1>4 DEF LockReady, LockWait, WaitReady, Settle
  <2>2. CASE LockReady(r, t)
    BY <2>1, <2>2 DEF LockReady, Exclusion!Next, Exclusion!Read
  <2>3. CASE LockWait(r, t)
    BY <2>1, <2>3 DEF LockWait, Exclusion!Next, Exclusion!Enqueue
  <2>4. CASE WaitReady(r, t)
    BY <2>1, <2>4 DEF WaitReady, Exclusion!Next, Exclusion!Admit
  <2>5. QED BY <1>4, <2>2, <2>3, <2>4
<1>5. ASSUME NEW r \in Readers, NEW t \in Target,
             WaitFail(r, t) \/ Unlock(r, t)
      PROVE  Exclusion!Next
  <2>1. state \in [Target -> TargetState] /\ NoWrites \in Writes
        /\ dontRearm \in [Target -> BOOLEAN] /\ shDontRearm \in BOOLEAN
        /\ \A s \in [Target -> TargetState] : WritesMatch(NoWrites, s)
    BY NoWritesType DEF IInv, TypeOK
  <2>2. LockTypeOK'
    BY LockStep
  <2>3. Untouched(state)
    <3>1. CASE UpdateGlobalState(state, dontRearm, shDontRearm, NoWrites)
      BY <2>1, <2>2, <3>1, UpdateGlobalTail DEF LockTypeOK
    <3>2. CASE ArmOneTarget(t, state, NoWrites)
      BY <2>1, <3>2 DEF ArmOneTarget, Settle, Untouched
    <3>3. CASE Settle(state, dontRearm, NoWrites)
      BY <3>3 DEF Settle, Untouched
    <3>4. QED
      BY <1>5, <3>1, <3>2, <3>3 DEF WaitFail, Unlock, DecrementLockCount
  <2>4. Ended = {}
    BY <2>3 DEF Untouched, Ended
  <2>5. Exclusion!Leave(r, t, Started)
    BY <1>1, <1>2, <1>5, <2>4
    DEF WaitFail, Unlock, Exclusion!Leave, Exclusion!Capture
  <2>6. QED BY <1>1, <2>5 DEF Exclusion!Next
<1>6. QED BY <1>3, <1>4, <1>5 DEF ReaderStep

(***************************************************************************)
(* The software trigger targets implement ReadoutExclusion, for any number *)
(* of targets and readers: captures and readouts of a target exclude each  *)
(* other, and a capture waits for every reader that came before it.        *)
(***************************************************************************)
THEOREM Refinement == Spec => ExclusionSpec
<1>1. Init => Exclusion!Init
  BY DEF Init, Exclusion!Init, Ready
<1>2. IInv /\ [Next]_vars => [Exclusion!Next]_(Exclusion!vars)
  BY ExclusionStep
<1>3. QED
  BY <1>1, <1>2, SpecIInv, PTL DEF Spec, ExclusionSpec, Exclusion!Spec

=============================================================================
