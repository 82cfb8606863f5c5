------------------------------ MODULE TunePllProofs ------------------------------
(***************************************************************************)
(* Proofs about TunePll, for any start records, delays, frequencies and    *)
(* offsets, and without a bound on the writes: when all is quiet, what is  *)
(* shown agrees with what the gateware does.                               *)
(***************************************************************************)
EXTENDS TunePll, TLAPS

\* Only a write of a phase that has been computed is under way.
WriteInv == \A t \in Writer : todo[t] = "write" => phase[t] \in Phases

\* The feedback has not been started yet.
Never == hw.run = "IDLE" /\ hw.reasons = {}

(***************************************************************************)
(* The enable that software reads as "running" is that of the feedback,    *)
(* and a stop has its reason; before the first start nothing happens.      *)
(***************************************************************************)
RunInv ==
  /\ hw.enable <=> hw.run \in {"RUNNING", "STOPPING"}
  /\ hw.run = "STOPPING" => hw.reasons # {}
  /\ Never => ~event /\ ~status.running
              /\ \A t \in Updater : todo[t] = "idle"

Updated == \A t \in Updater : todo[t] \notin {"update", "fix"}

(***************************************************************************)
(* What the last update has seen.  With no update outstanding the status   *)
(* is that of the run; with the stop event taken and read, it shows the    *)
(* stop, even if a start record is in the middle of its own update.        *)
(***************************************************************************)
StatusInv ==
  /\ Updated /\ ~Never => (status.running <=> ~status.stopped)
  /\ /\ \A t \in Updater : todo[t] # "update"
     /\ hw.run \in {"STARTING", "RUNNING"} /\ hw.reasons = {}
     => ~status.stopped
  /\ hw.run = "IDLE" /\ hw.reasons # {} /\ ~event /\ todo["events"] # "update"
     => status.stopped /\ ~status.running

(***************************************************************************)
(* A start that has not met an earlier stop gets its FIFO, and nobody will *)
(* take it away while the feedback runs.                                   *)
(***************************************************************************)
FifoInv ==
  ~overtaken /\ hw.run \in {"STARTING", "RUNNING"} =>
    /\ ~event /\ todo["events"] = "idle"
    /\ fifo \/ \E s \in Starters : todo[s] # "idle"

(***************************************************************************)
(* The frequency shown is that of the NCO, or will be read again.          *)
(***************************************************************************)
FrequencyInv ==
  /\ todo["freq"] = "idle" => pll.set = hw.base
  /\ /\ hw.run = "IDLE" /\ ~event /\ todo["events"] = "idle"
     /\ ~pending /\ todo["freq"] = "idle"
     => pll.nco = hw.base + hw.offset

IInv == PllTypeOK /\ WriteInv /\ RunInv /\ StatusInv /\ FifoInv /\ FrequencyInv

-----------------------------------------------------------------------------
(* Types.                                                                  *)

LEMMA ThreadsApart ==
  /\ Updater \subseteq Thread /\ Writer \subseteq Thread /\ "freq" \in Thread
  /\ "events" \in Updater /\ Starters \subseteq Updater
  /\ "events" \notin Starters /\ "freq" \notin Updater
  /\ Updater \cap Writer = {} /\ "freq" \notin Writer
BY StartersAssumption DEF Thread, Updater, Writer

LEMMA PhaseOfFrequency ==
  \A t \in {0, 1}, d \in Delays, f \in Frequency : t + d * f \in Phases
BY DEF Phases

LEMMA OffsetFrequency ==
  /\ \A b \in Base, o \in Offsets : b + o \in Frequency
  /\ \A b \in Base : b \in Frequency /\ b + 0 = b
<1>1. \A b \in Base, o \in Offsets : b + o \in Frequency
  BY DEF Frequency
<1>2. \A b \in Base : b + 0 = b
  BY TunePllAssumption
<1>3. 0 \in Offsets
  BY TunePllAssumption
<1>4. QED BY <1>1, <1>2, <1>3

LEMMA InitPll == PllInit => IInv
<1> SUFFICES ASSUME PllInit PROVE IInv
  OBVIOUS
<1>1. PICK b \in Base, d \in Delays :
        /\ hw = [run |-> "IDLE", enable |-> FALSE, reasons |-> {},
                 base |-> b, offset |-> 0, phase |-> d * b]
        /\ pll = [set |-> b, nco |-> b, delay |-> d, target |-> 0]
        /\ event = FALSE /\ fifo = FALSE /\ pending = FALSE
        /\ status = [running |-> FALSE, stopped |-> FALSE] /\ busy = "free"
        /\ todo = [t \in Thread |-> "idle"]
        /\ phase = [t \in Writer |-> 0] /\ overtaken = FALSE
        /\ writes = 0
  BY DEF PllInit
<1>2. /\ b \in Nat /\ d \in Nat /\ 0 \in Offsets /\ MaxWrites \in Nat
      /\ b \in Frequency /\ b + 0 = b
  BY TunePllAssumption, OffsetFrequency
<1>3. d * b \in Phases
  <2>1. 0 + d * b \in Phases
    BY <1>2, PhaseOfFrequency
  <2>2. 0 + d * b = d * b
    BY <1>2
  <2>3. QED BY <2>1, <2>2
<1>4. PllTypeOK
  <2>1. hw \in [run : {"IDLE", "STARTING", "RUNNING", "STOPPING"},
                enable : BOOLEAN, reasons : SUBSET Reasons,
                base : Base, offset : Offsets, phase : Phases]
    BY <1>1, <1>2, <1>3
  <2>2. pll \in [set : Base, nco : Frequency, delay : Delays, target : {0, 1}]
    BY <1>1, <1>2
  <2>3. /\ status \in [running : BOOLEAN, stopped : BOOLEAN]
        /\ todo \in [Thread -> {"idle", "update", "fix", "finish", "write"}]
        /\ phase \in [Writer -> Phases \cup {0}]
        /\ writes \in 0 .. MaxWrites
    BY <1>1, <1>2
  <2>4. QED BY <1>1, <2>1, <2>2, <2>3 DEF PllTypeOK
<1>5. WriteInv /\ RunInv /\ StatusInv /\ FifoInv
  BY <1>1, ThreadsApart DEF WriteInv, RunInv, Never, StatusInv, Updated, FifoInv
<1>6. FrequencyInv
  BY <1>1, <1>2 DEF FrequencyInv
<1>7. QED BY <1>4, <1>5, <1>6 DEF IInv

\* A step of a thread that changes nothing else of the types.
LEMMA GotoType ==
  ASSUME PllTypeOK, NEW t \in Thread,
         NEW step \in {"idle", "update", "fix", "finish", "write"},
         PllGoto(t, step)
  PROVE  /\ todo' \in [Thread -> {"idle", "update", "fix", "finish", "write"}]
         /\ todo'[t] = step
         /\ \A u \in Thread \ {t} : todo'[u] = todo[u]
BY DEF PllTypeOK, PllGoto

LEMMA StartWriteType ==
  ASSUME PllTypeOK, hw' = StartWrite(hw)
  PROVE  /\ hw'.run = IF hw.run = "IDLE" THEN "STARTING" ELSE hw.run
         /\ hw'.reasons = IF hw.run = "IDLE" THEN {} ELSE hw.reasons
         /\ (hw'.enable <=> hw.enable)
         /\ hw'.base = hw.base /\ hw'.offset = hw.offset
         /\ hw' \in [run : {"IDLE", "STARTING", "RUNNING", "STOPPING"},
                     enable : BOOLEAN, reasons : SUBSET Reasons,
                     base : Base, offset : Offsets, phase : Phases]
BY DEF PllTypeOK, StartWrite

LEMMA StopWriteType ==
  ASSUME PllTypeOK, NEW reason \in Reasons,
         hw' = StopWrite(hw, reason), hw' # hw
  PROVE  /\ hw.run \in {"STARTING", "RUNNING"}
         /\ hw'.run = IF hw.run = "RUNNING" THEN "STOPPING" ELSE hw.run
         /\ hw'.reasons = {reason}
         /\ (hw'.enable <=> hw.enable)
         /\ hw'.base = hw.base /\ hw'.offset = hw.offset
         /\ hw' \in [run : {"IDLE", "STARTING", "RUNNING", "STOPPING"},
                     enable : BOOLEAN, reasons : SUBSET Reasons,
                     base : Base, offset : Offsets, phase : Phases]
BY DEF PllTypeOK, StopWrite

(***************************************************************************)
(* The parts of the invariant that say what software makes of the run.     *)
(***************************************************************************)
Course == RunInv /\ StatusInv /\ FifoInv /\ FrequencyInv

-----------------------------------------------------------------------------
(* The gateware.                                                           *)

LEMMA StartDoneStep == ASSUME IInv, StartDone PROVE IInv'
<1> USE DEF StartDone, pllSwVars
<1>1. PllTypeOK'
  BY DEF IInv, PllTypeOK
<1>2. WriteInv'
  BY DEF IInv, WriteInv
<1>3. /\ hw'.run = "RUNNING" /\ hw'.enable = TRUE /\ hw'.reasons = hw.reasons
      /\ hw'.base = hw.base /\ hw'.offset = hw.offset
  BY DEF IInv, PllTypeOK
<1>4. Course'
  BY <1>3 DEF IInv, Course, RunInv, Never, StatusInv, Updated, FifoInv,
              FrequencyInv
<1>5. QED BY <1>1, <1>2, <1>4 DEF IInv, Course

LEMMA FeedbackStep == ASSUME IInv, Feedback PROVE IInv'
<1> USE DEF Feedback, pllSwVars
<1>1. PllTypeOK'
  BY DEF IInv, PllTypeOK
<1>2. WriteInv'
  BY DEF IInv, WriteInv
<1>3. /\ hw.run = "RUNNING" /\ hw'.run = hw.run /\ (hw'.enable <=> hw.enable)
      /\ hw'.reasons = hw.reasons /\ hw'.base = hw.base
  BY DEF IInv, PllTypeOK
<1>4. Course'
  BY <1>3 DEF IInv, Course, RunInv, Never, StatusInv, Updated, FifoInv,
              FrequencyInv
<1>5. QED BY <1>1, <1>2, <1>4 DEF IInv, Course

\* A stop, asked for or due to an error, leaves a reason and a run to end.
LEMMA StopStep == ASSUME IInv, FeedbackError \/ StopFeedback PROVE IInv'
<1>1. PICK reason \in Reasons :
        /\ hw' = StopWrite(hw, reason) /\ hw' # hw
        /\ UNCHANGED <<event, pllSwVars>>
  BY DEF FeedbackError, StopFeedback, Reasons
<1> USE DEF pllSwVars
<1>2. PllTypeOK
  BY DEF IInv
<1>3. /\ hw.run \in {"STARTING", "RUNNING"}
      /\ hw'.run = IF hw.run = "RUNNING" THEN "STOPPING" ELSE hw.run
      /\ hw'.reasons # {} /\ (hw'.enable <=> hw.enable)
      /\ hw'.base = hw.base /\ hw'.offset = hw.offset
  BY <1>1, <1>2, StopWriteType
<1>4. PllTypeOK'
  BY <1>1, <1>2, StopWriteType DEF PllTypeOK
<1>5. WriteInv'
  BY <1>1 DEF IInv, WriteInv
<1>6. Course'
  BY <1>1, <1>3 DEF IInv, Course, RunInv, Never, StatusInv, Updated, FifoInv,
                    FrequencyInv
<1>7. QED BY <1>4, <1>5, <1>6 DEF IInv, Course

LEMMA StopDoneStep == ASSUME IInv, StopDone PROVE IInv'
<1> USE DEF StopDone, pllSwVars
<1>1. PllTypeOK'
  BY DEF IInv, PllTypeOK
<1>2. WriteInv'
  BY DEF IInv, WriteInv
<1>3. /\ hw.run = "STOPPING" /\ hw'.run = "IDLE" /\ hw'.enable = FALSE
      /\ hw'.reasons = hw.reasons /\ hw'.base = hw.base
  BY DEF IInv, PllTypeOK
<1>4. Course'
  BY <1>3 DEF IInv, Course, RunInv, Never, StatusInv, Updated, FifoInv,
              FrequencyInv
<1>5. QED BY <1>1, <1>2, <1>4 DEF IInv, Course

-----------------------------------------------------------------------------
(* update_pll_status().                                                    *)

LEMMA UpdateWaitStep ==
  ASSUME IInv, NEW t \in Updater, UpdateWait(t)
  PROVE  IInv'
<1> USE DEF UpdateWait
<1>1. PllTypeOK /\ t \in Thread
  BY ThreadsApart DEF IInv
<1>2. /\ todo' \in [Thread -> {"idle", "update", "fix", "finish", "write"}]
      /\ todo[t] = "update" /\ todo'[t] = "fix"
      /\ \A u \in Thread \ {t} : todo'[u] = todo[u]
  BY <1>1, GotoType
<1>3. /\ (status'.running <=> hw.enable)
      /\ (status'.stopped <=> hw.reasons # {})
      /\ status' \in [running : BOOLEAN, stopped : BOOLEAN]
  BY <1>1 DEF PllTypeOK
<1>4. PllTypeOK'
  BY <1>1, <1>2, <1>3 DEF PllTypeOK
<1>5. WriteInv'
  BY <1>2, ThreadsApart DEF IInv, WriteInv
<1>6. RunInv'
  BY <1>2, ThreadsApart DEF IInv, RunInv, Never
<1>7. StatusInv'
  BY <1>2, <1>3 DEF IInv, RunInv, Never, StatusInv, Updated
<1>8. FifoInv' /\ FrequencyInv'
  BY <1>2, ThreadsApart DEF IInv, FifoInv, FrequencyInv
<1>9. QED BY <1>4, <1>5, <1>6, <1>7, <1>8 DEF IInv

LEMMA UpdateSignalStep ==
  ASSUME IInv, NEW t \in Updater, UpdateSignal(t)
  PROVE  IInv'
<1> USE DEF UpdateSignal, Running
<1>1. PllTypeOK /\ t \in Thread
  BY ThreadsApart DEF IInv
<1>2. /\ todo' \in [Thread -> {"idle", "update", "fix", "finish", "write"}]
      /\ todo[t] = "fix" /\ todo'[t] = "finish"
      /\ \A u \in Thread \ {t} : todo'[u] = todo[u]
  BY <1>1, GotoType
<1>3. /\ (status'.running <=> ~status.stopped)
      /\ (status'.stopped <=> status.stopped)
      /\ status' \in [running : BOOLEAN, stopped : BOOLEAN]
  BY <1>1 DEF PllTypeOK
<1>4. PllTypeOK'
  BY <1>1, <1>2, <1>3 DEF PllTypeOK
<1>5. WriteInv'
  BY <1>2, ThreadsApart DEF IInv, WriteInv
<1>6. RunInv'
  BY <1>2, ThreadsApart DEF IInv, RunInv, Never
<1>7. StatusInv'
  BY <1>2, <1>3, ThreadsApart DEF IInv, RunInv, Never, StatusInv, Updated
<1>8. FifoInv' /\ FrequencyInv'
  BY <1>2, ThreadsApart DEF IInv, FifoInv, FrequencyInv
<1>9. QED BY <1>4, <1>5, <1>6, <1>7, <1>8 DEF IInv

LEMMA UpdateDoneStep == ASSUME IInv, UpdateDone PROVE IInv'
BY DEF UpdateDone, IInv, PllTypeOK, WriteInv, RunInv, Never, StatusInv, Updated,
       FifoInv, FrequencyInv

-----------------------------------------------------------------------------
(* Start and stop.                                                         *)

(***************************************************************************)
(* A start that is not overtaken finds no event, no handler and no other   *)
(* start on its way.                                                       *)
(***************************************************************************)
LEMMA StartFeedbackStep ==
  ASSUME IInv, NEW s \in Starters, StartFeedback(s)
  PROVE  IInv'
<1> USE DEF StartFeedback
<1>1. PllTypeOK /\ s \in Thread /\ s \in Updater /\ s # "events"
  BY ThreadsApart DEF IInv
<1>2. /\ todo' \in [Thread -> {"idle", "update", "fix", "finish", "write"}]
      /\ todo'[s] = "update"
      /\ \A u \in Thread \ {s} : todo'[u] = todo[u]
  BY <1>1, GotoType
<1>3. /\ hw'.run = IF hw.run = "IDLE" THEN "STARTING" ELSE hw.run
      /\ hw'.reasons = IF hw.run = "IDLE" THEN {} ELSE hw.reasons
      /\ (hw'.enable <=> hw.enable)
      /\ hw'.base = hw.base /\ hw'.offset = hw.offset
  BY <1>1, StartWriteType
<1>4. hw' \in [run : {"IDLE", "STARTING", "RUNNING", "STOPPING"},
               enable : BOOLEAN, reasons : SUBSET Reasons,
               base : Base, offset : Offsets, phase : Phases]
  BY <1>1, StartWriteType
<1>5. PllTypeOK'
  BY <1>1, <1>2, <1>4 DEF PllTypeOK, StopInHand
<1>6. WriteInv'
  BY <1>2, ThreadsApart DEF IInv, WriteInv
<1>7. RunInv'
  BY <1>2, <1>3, ThreadsApart DEF IInv, RunInv, Never
<1>8. StatusInv'
  BY <1>1, <1>2, <1>3, ThreadsApart DEF IInv, StatusInv, Never, Updated
<1>9. FifoInv'
  BY <1>1, <1>2, <1>3, ThreadsApart DEF IInv, FifoInv, StopInHand
<1>10. FrequencyInv'
  BY <1>1, <1>2, <1>3, ThreadsApart DEF IInv, FrequencyInv
<1>11. QED BY <1>5, <1>6, <1>7, <1>8, <1>9, <1>10 DEF IInv

LEMMA EnableReadoutStep ==
  ASSUME IInv, NEW s \in Starters, EnableReadout(s)
  PROVE  IInv'
<1> USE DEF EnableReadout
<1>1. PllTypeOK /\ s \in Thread /\ s \in Updater /\ s # "events"
  BY ThreadsApart DEF IInv
<1>2. /\ todo' \in [Thread -> {"idle", "update", "fix", "finish", "write"}]
      /\ todo[s] = "finish" /\ todo'[s] = "idle"
      /\ \A u \in Thread \ {s} : todo'[u] = todo[u]
  BY <1>1, GotoType
<1>3. PllTypeOK'
  BY <1>1, <1>2 DEF PllTypeOK
<1>4. WriteInv'
  BY <1>2, ThreadsApart DEF IInv, WriteInv
<1>5. RunInv'
  BY <1>2, ThreadsApart DEF IInv, RunInv, Never
<1>6. StatusInv'
  BY <1>1, <1>2, ThreadsApart DEF IInv, StatusInv, Never, Updated
<1>7. FifoInv' /\ FrequencyInv'
  BY <1>1, <1>2, ThreadsApart DEF IInv, FifoInv, FrequencyInv
<1>8. QED BY <1>3, <1>4, <1>5, <1>6, <1>7 DEF IInv

LEMMA TakeStopStep == ASSUME IInv, TakeStop PROVE IInv'
<1> USE DEF TakeStop
<1>1. PllTypeOK /\ "events" \in Thread
  BY ThreadsApart DEF IInv
<1>2. /\ todo' \in [Thread -> {"idle", "update", "fix", "finish", "write"}]
      /\ todo["events"] = "idle" /\ todo'["events"] = "update"
      /\ \A u \in Thread \ {"events"} : todo'[u] = todo[u]
  BY <1>1, GotoType
<1>3. PllTypeOK'
  BY <1>1, <1>2 DEF PllTypeOK
<1>4. WriteInv'
  BY <1>2, ThreadsApart DEF IInv, WriteInv
<1>5. RunInv'
  BY <1>2, ThreadsApart DEF IInv, RunInv, Never
<1>6. StatusInv'
  BY <1>1, <1>2, ThreadsApart DEF IInv, StatusInv, Never, Updated
<1>7. FifoInv' /\ FrequencyInv'
  BY <1>1, <1>2, ThreadsApart DEF IInv, FifoInv, FrequencyInv
<1>8. QED BY <1>3, <1>4, <1>5, <1>6, <1>7 DEF IInv

(***************************************************************************)
(* When the feedback is idle and its stop has been read, the handler sees  *)
(* that it has stopped, and goes on to have the frequency read.            *)
(***************************************************************************)
LEMMA CheckStoppedStep == ASSUME IInv, CheckStopped PROVE IInv'
<1> USE DEF CheckStopped
<1>1. PllTypeOK /\ "events" \in Thread
  BY ThreadsApart DEF IInv
<1>2. /\ todo' \in [Thread -> {"idle", "update", "fix", "finish", "write"}]
      /\ todo["events"] = "finish"
      /\ todo'["events"] = IF status.running THEN "idle" ELSE "write"
      /\ \A u \in Thread \ {"events"} : todo'[u] = todo[u]
  BY <1>1, GotoType
<1>3. PllTypeOK'
  BY <1>1, <1>2 DEF PllTypeOK
<1>4. WriteInv'
  BY <1>2, ThreadsApart DEF IInv, WriteInv
<1>5. RunInv'
  BY <1>2, ThreadsApart DEF IInv, RunInv, Never
<1>6. StatusInv'
  BY <1>1, <1>2, ThreadsApart DEF IInv, StatusInv, Never, Updated
<1>7. FifoInv'
  BY <1>1, <1>2, ThreadsApart DEF IInv, FifoInv
<1>8. FrequencyInv'
  <2>1. hw.run = "IDLE" /\ ~event => ~status.running
    BY <1>2, ThreadsApart DEF IInv, RunInv, Never, StatusInv
  <2>2. QED BY <1>2, <2>1, ThreadsApart DEF IInv, FrequencyInv
<1>9. QED BY <1>3, <1>4, <1>5, <1>6, <1>7, <1>8 DEF IInv

LEMMA DisableReadoutStep == ASSUME IInv, DisableReadout PROVE IInv'
<1> USE DEF DisableReadout
<1>1. PllTypeOK /\ "events" \in Thread
  BY ThreadsApart DEF IInv
<1>2. /\ todo' \in [Thread -> {"idle", "update", "fix", "finish", "write"}]
      /\ todo["events"] = "write" /\ todo'["events"] = "idle"
      /\ \A u \in Thread \ {"events"} : todo'[u] = todo[u]
  BY <1>1, GotoType
<1>3. PllTypeOK'
  BY <1>1, <1>2 DEF PllTypeOK
<1>4. WriteInv'
  BY <1>2, ThreadsApart DEF IInv, WriteInv
<1>5. RunInv'
  BY <1>2, ThreadsApart DEF IInv, RunInv, Never
<1>6. StatusInv'
  BY <1>1, <1>2, ThreadsApart DEF IInv, StatusInv, Never, Updated
<1>7. FifoInv' /\ FrequencyInv'
  BY <1>1, <1>2, ThreadsApart DEF IInv, FifoInv, FrequencyInv
<1>8. QED BY <1>3, <1>4, <1>5, <1>6, <1>7 DEF IInv

-----------------------------------------------------------------------------
(* Frequency and phase.                                                    *)

(***************************************************************************)
(* A thread that is no updater, and leaves the run, its status and the     *)
(* FIFO alone.                                                             *)
(***************************************************************************)
LEMMA SettingStep ==
  ASSUME IInv, NEW t \in Writer \cup {"freq"},
         NEW step \in {"idle", "write"}, PllGoto(t, step),
         hw'.run = hw.run, hw'.reasons = hw.reasons,
         hw'.enable <=> hw.enable,
         UNCHANGED <<event, status, fifo, overtaken>>
  PROVE  RunInv' /\ StatusInv' /\ FifoInv'
<1>1. PllTypeOK /\ t \in Thread /\ t \notin Updater
  BY ThreadsApart DEF IInv
<1>2. \A u \in Updater : todo'[u] = todo[u]
  BY <1>1, GotoType, ThreadsApart
<1>3. RunInv'
  BY <1>2 DEF IInv, RunInv, Never
<1>4. StatusInv'
  BY <1>2, ThreadsApart DEF IInv, StatusInv, Never, Updated
<1>5. FifoInv'
  BY <1>2, ThreadsApart DEF IInv, FifoInv
<1>6. QED BY <1>3, <1>4, <1>5

LEMMA ComputePhaseStep ==
  ASSUME IInv, NEW t \in Writer, ComputePhase(t),
         pll' \in [set : Base, nco : Frequency, delay : Delays, target : {0, 1}]
  PROVE  /\ phase' \in [Writer -> Phases \cup {0}]
         /\ todo' \in [Thread -> {"idle", "update", "fix", "finish", "write"}]
         /\ \A u \in Thread \ {t} : todo'[u] = todo[u]
         /\ WriteInv'
<1> USE DEF ComputePhase
<1>1. PllTypeOK /\ t \in Thread
  BY ThreadsApart DEF IInv
<1>2. TargetPhase(pll') \in Phases
  BY PhaseOfFrequency DEF TargetPhase
<1>3. /\ phase' \in [Writer -> Phases \cup {0}] /\ phase'[t] \in Phases
      /\ \A u \in Writer \ {t} : phase'[u] = phase[u]
  BY <1>1, <1>2 DEF PllTypeOK
<1>4. /\ todo' \in [Thread -> {"idle", "update", "fix", "finish", "write"}]
      /\ \A u \in Thread \ {t} : todo'[u] = todo[u]
  BY <1>1, GotoType
<1>5. WriteInv'
  BY <1>3, <1>4, ThreadsApart DEF IInv, WriteInv
<1>6. QED BY <1>3, <1>4, <1>5

\* The number of writes matters to the type only.
LEMMA WritesType ==
  ASSUME PllTypeOK, writes < MaxWrites, writes' = writes + 1
  PROVE  writes' \in 0 .. MaxWrites
BY TunePllAssumption DEF PllTypeOK

LEMMA TargetOrSelectStep == ASSUME IInv, WriteTarget \/ WriteSelect PROVE IInv'
<1>1. PICK t \in Writer : ComputePhase(t)
  BY DEF WriteTarget, WriteSelect, Writer
<1>2. /\ UNCHANGED <<hw, event, status, busy, fifo, pending, overtaken>>
      /\ writes < MaxWrites /\ writes' = writes + 1
  BY DEF WriteTarget, WriteSelect
<1>3. /\ pll' \in [set : Base, nco : Frequency, delay : Delays, target : {0, 1}]
      /\ pll'.set = pll.set /\ pll'.nco = pll.nco
  BY DEF IInv, PllTypeOK, WriteTarget, WriteSelect
<1>4. /\ phase' \in [Writer -> Phases \cup {0}]
      /\ todo' \in [Thread -> {"idle", "update", "fix", "finish", "write"}]
      /\ \A u \in Thread \ {t} : todo'[u] = todo[u]
      /\ WriteInv'
  BY <1>1, <1>3, ComputePhaseStep
<1>5. PllTypeOK'
  BY <1>2, <1>3, <1>4, WritesType DEF IInv, PllTypeOK
<1>6. RunInv' /\ StatusInv' /\ FifoInv'
  BY <1>1, <1>2, SettingStep DEF ComputePhase
<1>7. FrequencyInv'
  BY <1>2, <1>3, <1>4, ThreadsApart DEF IInv, FrequencyInv
<1>8. QED BY <1>4, <1>5, <1>6, <1>7 DEF IInv

(***************************************************************************)
(* Once OFFSET has been processed the frequency is current: with the       *)
(* feedback idle, whichever of its two branches was taken.                 *)
(***************************************************************************)
LEMMA UpdateNcoStep == ASSUME IInv, UpdateNcoFrequency PROVE IInv'
<1> USE DEF UpdateNcoFrequency
<1>1. PllTypeOK /\ "offset" \in Writer
  BY DEF IInv, Writer
<1>2. /\ pll'.set = pll.set
      /\ pll'.nco = IF status.running THEN pll.set + hw.offset
                    ELSE hw.base + hw.offset
      /\ pll' \in [set : Base, nco : Frequency, delay : Delays, target : {0, 1}]
  <2>1. /\ pll.set + hw.offset \in Frequency
        /\ hw.base + hw.offset \in Frequency
    BY <1>1, OffsetFrequency DEF PllTypeOK
  <2>2. QED BY <1>1, <2>1 DEF PllTypeOK
<1>3. /\ phase' \in [Writer -> Phases \cup {0}]
      /\ todo' \in [Thread -> {"idle", "update", "fix", "finish", "write"}]
      /\ \A u \in Thread \ {"offset"} : todo'[u] = todo[u]
      /\ WriteInv'
  BY <1>1, <1>2, ComputePhaseStep
<1>4. PllTypeOK'
  BY <1>1, <1>2, <1>3 DEF PllTypeOK
<1>5. RunInv' /\ StatusInv' /\ FifoInv'
  BY <1>1, SettingStep DEF ComputePhase
<1>6. FrequencyInv'
  BY <1>2, <1>3, ThreadsApart DEF IInv, FrequencyInv, Writer
<1>7. QED BY <1>3, <1>4, <1>5, <1>6 DEF IInv

LEMMA WritePhaseStep ==
  ASSUME IInv, NEW t \in Writer, WritePhase(t)
  PROVE  IInv'
<1> USE DEF WritePhase
<1>1. PllTypeOK /\ t \in Thread
  BY ThreadsApart DEF IInv
<1>2. phase[t] \in Phases
  BY DEF IInv, WriteInv
<1>3. /\ hw'.run = hw.run /\ hw'.reasons = hw.reasons
      /\ (hw'.enable <=> hw.enable)
      /\ hw'.base = hw.base /\ hw'.offset = hw.offset
      /\ hw' \in [run : {"IDLE", "STARTING", "RUNNING", "STOPPING"},
                  enable : BOOLEAN, reasons : SUBSET Reasons,
                  base : Base, offset : Offsets, phase : Phases]
  BY <1>1, <1>2 DEF PllTypeOK
<1>4. /\ todo' \in [Thread -> {"idle", "update", "fix", "finish", "write"}]
      /\ todo'[t] = "idle"
      /\ \A u \in Thread \ {t} : todo'[u] = todo[u]
  BY <1>1, GotoType
<1>5. /\ phase' \in [Writer -> Phases \cup {0}]
      /\ \A u \in Writer \ {t} : phase'[u] = phase[u]
  BY <1>1 DEF PllTypeOK
<1>6. PllTypeOK'
  BY <1>1, <1>3, <1>4, <1>5 DEF PllTypeOK
<1>7. WriteInv'
  BY <1>4, <1>5, ThreadsApart DEF IInv, WriteInv
<1>8. RunInv' /\ StatusInv' /\ FifoInv'
  BY <1>3, SettingStep
<1>9. FrequencyInv'
  BY <1>3, <1>4, ThreadsApart DEF IInv, FrequencyInv
<1>10. QED BY <1>6, <1>7, <1>8, <1>9 DEF IInv

LEMMA SetFrequencyStep == ASSUME IInv, SetFrequency PROVE IInv'
<1> USE DEF SetFrequency
<1>1. PllTypeOK /\ "freq" \in Thread
  BY ThreadsApart DEF IInv
<1>2. pll' \in [set : Base, nco : Frequency, delay : Delays, target : {0, 1}]
  BY <1>1 DEF PllTypeOK
<1>3. /\ todo' \in [Thread -> {"idle", "update", "fix", "finish", "write"}]
      /\ todo'["freq"] = "write"
      /\ \A u \in Thread \ {"freq"} : todo'[u] = todo[u]
  BY <1>1, GotoType
<1>4. PllTypeOK'
  BY <1>1, <1>2, <1>3, WritesType DEF PllTypeOK
<1>5. WriteInv'
  BY <1>3, ThreadsApart DEF IInv, WriteInv
<1>6. RunInv' /\ StatusInv' /\ FifoInv'
  BY SettingStep
<1>7. FrequencyInv'
  BY <1>3 DEF FrequencyInv
<1>8. QED BY <1>4, <1>5, <1>6, <1>7 DEF IInv

LEMMA WriteFrequencyStep == ASSUME IInv, WriteFrequency PROVE IInv'
<1> USE DEF WriteFrequency
<1>1. PllTypeOK /\ "freq" \in Thread
  BY ThreadsApart DEF IInv
<1>2. /\ hw'.run = hw.run /\ hw'.reasons = hw.reasons
      /\ (hw'.enable <=> hw.enable) /\ hw'.base = pll.set
      /\ hw' \in [run : {"IDLE", "STARTING", "RUNNING", "STOPPING"},
                  enable : BOOLEAN, reasons : SUBSET Reasons,
                  base : Base, offset : Offsets, phase : Phases]
  BY <1>1, TunePllAssumption DEF PllTypeOK
<1>3. /\ todo' \in [Thread -> {"idle", "update", "fix", "finish", "write"}]
      /\ \A u \in Thread \ {"freq"} : todo'[u] = todo[u]
  BY <1>1, GotoType
<1>4. PllTypeOK'
  BY <1>1, <1>2, <1>3 DEF PllTypeOK
<1>5. WriteInv'
  BY <1>3, ThreadsApart DEF IInv, WriteInv
<1>6. RunInv' /\ StatusInv' /\ FifoInv'
  BY <1>2, SettingStep
<1>7. FrequencyInv'
  BY <1>2 DEF FrequencyInv
<1>8. QED BY <1>4, <1>5, <1>6, <1>7 DEF IInv

LEMMA PollStep == ASSUME IInv, Poll PROVE IInv'
BY DEF Poll, IInv, PllTypeOK, WriteInv, RunInv, Never, StatusInv, Updated,
       FifoInv, FrequencyInv

-----------------------------------------------------------------------------
(* The theorems.                                                           *)

LEMMA StutterStep == ASSUME IInv, UNCHANGED pllVars PROVE IInv'
BY DEF pllVars, IInv, PllTypeOK, WriteInv, RunInv, Never, StatusInv, Updated,
       FifoInv, FrequencyInv

LEMMA PllStep == IInv /\ [PllNext]_pllVars => IInv'
<1> SUFFICES ASSUME IInv, [PllNext]_pllVars PROVE IInv'
  OBVIOUS
<1>1. CASE StartDone \/ Feedback \/ FeedbackError \/ StopDone \/ StopFeedback
  BY <1>1, StartDoneStep, FeedbackStep, StopStep, StopDoneStep
<1>2. CASE Update
  BY <1>2, UpdateWaitStep, UpdateSignalStep, UpdateDoneStep DEF Update
<1>3. CASE \E s \in Starters : StartFeedback(s) \/ EnableReadout(s)
  BY <1>3, StartFeedbackStep, EnableReadoutStep
<1>4. CASE TakeStop \/ CheckStopped \/ DisableReadout
  BY <1>4, TakeStopStep, CheckStoppedStep, DisableReadoutStep
<1>5. CASE Settings \/ Poll \/ UpdateNcoFrequency
  BY <1>5, TargetOrSelectStep, SetFrequencyStep, WriteFrequencyStep, PollStep,
     UpdateNcoStep DEF Settings
<1>6. CASE \E t \in Writer : WritePhase(t)
  BY <1>6, WritePhaseStep
<1>7. QED BY <1>1, <1>2, <1>3, <1>4, <1>5, <1>6, StutterStep DEF PllNext

LEMMA SpecIInv == PllSpec => []IInv
BY InitPll, PllStep, PTL DEF PllSpec

(***************************************************************************)
(* Every variable of tune_pll.c and of the run control keeps its type; in  *)
(* particular the phase that a writer takes to hardware is always one that *)
(* update_target_phase() has computed for some frequency and delay.        *)
(***************************************************************************)
THEOREM PllTypeCorrect == PllSpec => []PllTypeOK
<1>1. IInv => PllTypeOK
  BY DEF IInv
<1>2. QED BY <1>1, SpecIInv, PTL

(***************************************************************************)
(* update_pll_status() shows a stop that its handler has read, whoever has *)
(* read the status since, unless the stop was asked for while the feedback *)
(* was starting; handle_pll_stop() leaves the FIFO of a new run alone,     *)
(* unless that was started while it handled the stop; and                  *)
(* update_nco_frequency() is run once more after every stop and every      *)
(* change of the frequency.                                                *)
(***************************************************************************)
THEOREM SettledCorrect == PllSpec => []Settled
<1>1. IInv => Settled
  <2> SUFFICES ASSUME IInv PROVE Settled
    OBVIOUS
  <2>1. Quiet => /\ Updated /\ \A t \in Thread : todo[t] = "idle"
                 /\ "events" \in Thread /\ "freq" \in Thread
    BY ThreadsApart DEF Quiet, Updated
  <2>2. StatusSettles
    BY <2>1, ThreadsApart
       DEF IInv, StatusSettles, Quiet, RunInv, Never, StatusInv, Updated
  <2>3. FifoServesRun
    BY <2>1, ThreadsApart DEF IInv, FifoServesRun, Quiet, FifoInv
  <2>4. FinalFrequency
    BY <2>1 DEF IInv, FinalFrequency, Quiet, FrequencyInv
  <2>5. QED BY <2>2, <2>3, <2>4 DEF Settled
<1>2. QED BY <1>1, SpecIInv, PTL

=============================================================================
