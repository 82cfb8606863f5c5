------------------------------- MODULE TunePll -------------------------------
(***************************************************************************)
(* Starting, stopping and reading back the tune PLL, epics/src/tune_pll.c, *)
(* of one axis: the run control of the gateware (tune_pll_control.vhd),    *)
(* the events thread, and EPICS records that run side by side: START of    *)
(* the axis and of both axes, STOP, POLL, the frequency, the target phase  *)
(* and the detector input.                                                 *)
(*                                                                         *)
(* PllFifo has the offset FIFO in detail; here it is enabled or not.       *)
(* Frequencies are small numbers, and the phase that compensates a delay   *)
(* is their product: update_target_phase() without its scaling.            *)
(***************************************************************************)
EXTENDS Naturals

CONSTANTS
  Starters,     \* START records: of the axis, of both axes
  Delays,       \* group delays of the detector inputs
  Base,         \* frequencies the NCO can be set to
  Offsets,      \* offsets the feedback can find, 0 among them
  MaxWrites     \* bound: writes of settings

ASSUME TunePllAssumption ==
  /\ Delays \subseteq Nat /\ Base \subseteq Nat /\ Offsets \subseteq Nat
  /\ Delays # {} /\ Base # {} /\ 0 \in Offsets
  /\ MaxWrites \in Nat

VARIABLES
  hw,           \* gateware: run control, stop reasons, NCO, target phase
  event,        \* stop event raised and not yet read
  status,       \* pll->status: running, stopped
  busy,         \* who is inside update_status, or "epics", or "free"
  fifo,         \* the offset FIFO: enabled
  pll,          \* pll->nco_freq_set, current_nco, phase_delay, target_phase
  pending,      \* OFFSET has been triggered and has not yet been processed
  todo,         \* what each thread does next
  phase,        \* the target phase each thread is about to write, or 0
  overtaken,    \* history: a start came before an earlier stop was handled
  writes        \* bound

pllVars == <<hw, event, status, busy, fifo, pll, pending, todo, phase, overtaken,
          writes>>

Updater == Starters \cup {"events"}
Writer == {"target", "select", "offset"}
Thread == Updater \cup Writer \cup {"freq"}
Reasons == {"stop", "error"}

ASSUME StartersAssumption ==
  Starters \cap (Writer \cup {"events", "freq", "free", "epics"}) = {}

Frequency == {b + o : b \in Base, o \in Offsets}
Phases == {p + d * f : p \in {0, 1}, d \in Delays, f \in Frequency}

PllTypeOK ==
  /\ hw \in [run : {"IDLE", "STARTING", "RUNNING", "STOPPING"},
             enable : BOOLEAN, reasons : SUBSET Reasons,
             base : Base, offset : Offsets, phase : Phases]
  /\ status \in [running : BOOLEAN, stopped : BOOLEAN]
  /\ busy \in Updater \cup {"free", "epics"}
  /\ event \in BOOLEAN /\ fifo \in BOOLEAN /\ pending \in BOOLEAN
  /\ pll \in [set : Base, nco : Frequency, delay : Delays, target : {0, 1}]
  /\ todo \in [Thread -> {"idle", "update", "fix", "finish", "write"}]
  /\ phase \in [Writer -> Phases \cup {0}] /\ overtaken \in BOOLEAN
  /\ writes \in 0 .. MaxWrites

\* initialise_tune_pll() has stopped the feedback.
PllInit ==
  \E b \in Base, d \in Delays :
    /\ hw = [run |-> "IDLE", enable |-> FALSE, reasons |-> {}, base |-> b,
             offset |-> 0, phase |-> d * b]
    /\ pll = [set |-> b, nco |-> b, delay |-> d, target |-> 0]
    /\ event = FALSE /\ fifo = FALSE /\ pending = FALSE
    /\ status = [running |-> FALSE, stopped |-> FALSE] /\ busy = "free"
    /\ todo = [t \in Thread |-> "idle"]
    /\ phase = [t \in Writer |-> 0] /\ overtaken = FALSE
    /\ writes = 0

PllGoto(t, step) == todo' = [todo EXCEPT ![t] = step]
pllSwVars == <<status, busy, fifo, pll, pending, todo, phase, overtaken, writes>>

-----------------------------------------------------------------------------
(* The gateware.                                                           *)

\* start_i: taken when idle only; clears the reasons of the last stop.
StartWrite(h) ==
  IF h.run = "IDLE" THEN [h EXCEPT !.run = "STARTING", !.reasons = {}] ELSE h

\* A reason to stop (stop_i, or an error of the feedback) is recorded, while
\* starting too, but stops the feedback only once it runs.
StopWrite(h, reason) ==
  IF h.run \in {"STARTING", "RUNNING"}
  THEN [h EXCEPT !.reasons = {reason},
                 !.run = IF @ = "RUNNING" THEN "STOPPING" ELSE @]
  ELSE h

\* sync_done
StartDone ==
  /\ hw.run = "STARTING"
  /\ hw' = [hw EXCEPT !.run = "RUNNING", !.enable = TRUE]
  /\ UNCHANGED <<event, pllSwVars>>

\* The feedback moves the frequency.
Feedback ==
  /\ hw.run = "RUNNING"
  /\ \E o \in Offsets \ {hw.offset} : hw' = [hw EXCEPT !.offset = o]
  /\ UNCHANGED <<event, pllSwVars>>

\* Detector overflow, magnitude or offset error.
FeedbackError ==
  /\ hw' = StopWrite(hw, "error") /\ hw' # hw
  /\ UNCHANGED <<event, pllSwVars>>

\* The next dwell ends a stop: enable falls, which is the stop event.
StopDone ==
  /\ hw.run = "STOPPING"
  /\ hw' = [hw EXCEPT !.run = "IDLE", !.enable = FALSE]
  /\ event' = TRUE
  /\ UNCHANGED pllSwVars

-----------------------------------------------------------------------------
(* update_pll_status(), which the start records and the events thread call. *)

\* interlock_wait()
UpdateWait(t) ==
  /\ todo[t] = "update" /\ busy = "free"
  /\ busy' = t
  /\ PllGoto(t, "fix")
  /\ status' = [running |-> hw.enable, stopped |-> hw.reasons # {}]
  /\ UNCHANGED <<hw, event, fifo, pll, pending, phase, overtaken, writes>>

\* Without a reason to have stopped the feedback is running, or about to.
Running(s) == ~s.stopped

\* Mutant of UpdateSignal: EPICS is signalled only if something has changed.
UpdateSignalOnChange(t) ==
  /\ todo[t] = "fix" /\ busy = t
  /\ status' = [status EXCEPT !.running = Running(status)]
  /\ busy' = IF status' = status THEN busy ELSE "epics"
  /\ PllGoto(t, "finish")
  /\ UNCHANGED <<hw, event, fifo, pll, pending, phase, overtaken, writes>>

\* The status is corrected and given to EPICS.
UpdateSignal(t) ==
  /\ todo[t] = "fix" /\ busy = t
  /\ status' = [status EXCEPT !.running = Running(status)]
  /\ busy' = "epics"
  /\ PllGoto(t, "finish")
  /\ UNCHANGED <<hw, event, fifo, pll, pending, phase, overtaken, writes>>

\* EPICS has shown the status (UPDATE_STATUS:DONE).
UpdateDone ==
  /\ busy = "epics"
  /\ busy' = "free"
  /\ UNCHANGED <<hw, event, status, fifo, pll, pending, todo, phase,
                 overtaken, writes>>

-----------------------------------------------------------------------------
(* Start and stop.                                                         *)

\* The stop of an earlier run has not been dealt with.
StopInHand ==
  hw.run = "STOPPING" \/ event \/ todo["events"] # "idle"
  \/ \E s \in Starters : todo[s] # "idle"

\* start_feedback(), start_both_axes(): the register is written first.
StartFeedback(s) ==
  /\ todo[s] = "idle"
  /\ hw' = StartWrite(hw)
  /\ overtaken' = StopInHand
  /\ PllGoto(s, "update")
  /\ UNCHANGED <<event, status, busy, fifo, pll, pending, phase, writes>>

\* stop_feedback(), stop_both_axes(): nothing but the register.
StopFeedback ==
  /\ hw' = StopWrite(hw, "stop") /\ hw' # hw
  /\ UNCHANGED <<event, pllSwVars>>

\* Mutant of EnableReadout: only if the status still says so.
EnableReadoutChecked(s) ==
  /\ todo[s] = "finish"
  /\ fifo' = (fifo \/ (status.running /\ hw.enable))
  /\ PllGoto(s, "idle")
  /\ UNCHANGED <<hw, event, status, busy, pll, pending, phase, overtaken,
                 writes>>

\* The end of handle_pll_start(): enable_readout_fifo()
EnableReadout(s) ==
  /\ todo[s] = "finish"
  /\ fifo' = TRUE
  /\ PllGoto(s, "idle")
  /\ UNCHANGED <<hw, event, status, busy, pll, pending, phase, overtaken,
                 writes>>

\* handle_fifo_event(): the stop event.
TakeStop ==
  /\ event /\ todo["events"] = "idle"
  /\ event' = FALSE
  /\ PllGoto("events", "update")
  /\ UNCHANGED <<hw, status, busy, fifo, pll, pending, phase, overtaken,
                 writes>>

\* handle_pll_stop() looks at the status ...
CheckStopped ==
  /\ todo["events"] = "finish"
  /\ PllGoto("events", IF status.running THEN "idle" ELSE "write")
  /\ UNCHANGED <<hw, event, status, busy, fifo, pll, pending, phase,
                 overtaken, writes>>

\* ... and disables the FIFO, and has the final frequency read.
DisableReadout ==
  /\ todo["events"] = "write"
  /\ fifo' = FALSE
  /\ pending' = TRUE
  /\ PllGoto("events", "idle")
  /\ UNCHANGED <<hw, event, status, busy, pll, phase, overtaken, writes>>

-----------------------------------------------------------------------------
(* Frequency and phase.                                                    *)

\* Mutant of TargetPhase: the frequency that was set, not the current one.
TargetPhaseSet(p) == p.target + p.delay * p.set

\* Mutant of TargetPhase: base and current frequency are added.
TargetPhaseSum(p) == p.target + p.delay * (p.set + p.nco)

\* update_target_phase()
TargetPhase(p) == p.target + p.delay * p.nco

ComputePhase(t) ==
  /\ phase' = [phase EXCEPT ![t] = TargetPhase(pll')]
  /\ PllGoto(t, "write")

\* write_target_phase()
WriteTarget ==
  /\ todo["target"] = "idle" /\ writes < MaxWrites
  /\ pll' = [pll EXCEPT !.target = 1 - @]
  /\ ComputePhase("target")
  /\ writes' = writes + 1
  /\ UNCHANGED <<hw, event, status, busy, fifo, pending, overtaken>>

\* write_det_input_select(): the group delay follows the input.
WriteSelect ==
  /\ todo["select"] = "idle" /\ writes < MaxWrites
  /\ \E d \in Delays : pll' = [pll EXCEPT !.delay = d]
  /\ ComputePhase("select")
  /\ writes' = writes + 1
  /\ UNCHANGED <<hw, event, status, busy, fifo, pending, overtaken>>

\* update_nco_frequency(), the processing of OFFSET: the offset of the
\* feedback while it runs, otherwise the frequency the hardware ended with.
UpdateNcoFrequency ==
  /\ pending /\ todo["offset"] = "idle"
  /\ pending' = FALSE
  /\ pll' = [pll EXCEPT !.nco = IF status.running THEN pll.set + hw.offset
                                ELSE hw.base + hw.offset]
  /\ ComputePhase("offset")
  /\ UNCHANGED <<hw, event, status, busy, fifo, overtaken, writes>>

\* hw_write_pll_target_phase()
WritePhase(t) ==
  /\ todo[t] = "write"
  /\ hw' = [hw EXCEPT !.phase = phase[t]]
  /\ phase' = [phase EXCEPT ![t] = 0]
  /\ PllGoto(t, "idle")
  /\ UNCHANGED <<event, status, busy, fifo, pll, pending, overtaken, writes>>

\* write_nco_frequency(): the setting ...
SetFrequency ==
  /\ todo["freq"] = "idle" /\ writes < MaxWrites
  /\ \E b \in Base : pll' = [pll EXCEPT !.set = b]
  /\ PllGoto("freq", "write")
  /\ writes' = writes + 1
  /\ UNCHANGED <<hw, event, status, busy, fifo, pending, phase, overtaken>>

\* ... the NCO, which forgets its offset, and the readback.
WriteFrequency ==
  /\ todo["freq"] = "write"
  /\ hw' = [hw EXCEPT !.base = pll.set, !.offset = 0]
  /\ pending' = TRUE
  /\ PllGoto("freq", "idle")
  /\ UNCHANGED <<event, status, busy, fifo, pll, phase, overtaken, writes>>

\* read_filtered_readbacks(), scanned at 10 Hz: OFFSET is read while running.
Poll ==
  /\ status.running
  /\ pending' = TRUE
  /\ UNCHANGED <<hw, event, status, busy, fifo, pll, todo, phase, overtaken,
                 writes>>

Update == UpdateDone \/ \E t \in Updater : UpdateWait(t) \/ UpdateSignal(t)

Settings ==
  \/ WriteTarget \/ WriteSelect
  \/ SetFrequency \/ WriteFrequency

PllNext ==
  \/ StartDone \/ Feedback \/ FeedbackError \/ StopDone
  \/ Update
  \/ \E s \in Starters : StartFeedback(s) \/ EnableReadout(s)
  \/ StopFeedback
  \/ TakeStop \/ CheckStopped \/ DisableReadout
  \/ Settings \/ Poll \/ UpdateNcoFrequency
  \/ \E t \in Writer : WritePhase(t)

PllSpec == PllInit /\ [][PllNext]_pllVars

\* The threads run, EPICS processes what is triggered and scanned, and the
\* gateware finishes what it has begun.
PllFairness ==
  /\ WF_pllVars(StartDone) /\ WF_pllVars(StopDone) /\ WF_pllVars(UpdateDone)
  /\ \A t \in Updater : SF_pllVars(UpdateWait(t)) /\ WF_pllVars(UpdateSignal(t))
  /\ \A s \in Starters : WF_pllVars(EnableReadout(s))
  /\ WF_pllVars(TakeStop) /\ WF_pllVars(CheckStopped) /\ WF_pllVars(DisableReadout)
  /\ WF_pllVars(Poll) /\ WF_pllVars(UpdateNcoFrequency) /\ WF_pllVars(WriteFrequency)
  /\ \A t \in Writer : WF_pllVars(WritePhase(t))
PllFairSpec == PllSpec /\ PllFairness

-----------------------------------------------------------------------------
(* Properties.                                                             *)

\* Nothing is being handled and nothing is waiting to be.
Quiet ==
  /\ hw.run \in {"IDLE", "RUNNING"}
  /\ ~event /\ ~pending /\ busy = "free"
  /\ \A t \in Thread : todo[t] = "idle"

\* Once starts and stops have been handled, CTRL:STATUS says what the hardware
\* does, whoever read the status last (update_pll_status) -- unless a stop
\* was asked for while the feedback was starting.
StatusSettles ==
  (Quiet /\ (hw.run = "RUNNING" => hw.reasons = {})) =>
    (status.running <=> hw.run = "RUNNING")

\* Offsets are read out while the feedback runs: a stop event that is handled
\* late leaves the FIFO of a new run alone (handle_pll_stop), unless the start
\* fell into the handling itself.
FifoServesRun == (Quiet /\ hw.run = "RUNNING" /\ ~overtaken) => fifo

\* After a stop the frequency shown is the one the NCO has been left with, and
\* not one computed from an offset read earlier (update_nco_frequency).
FinalFrequency == (Quiet /\ hw.run = "IDLE") => pll.nco = hw.base + hw.offset

\* While the feedback is shown as running, the target phase in hardware comes
\* back to the one that belongs to the current frequency, delay and target,
\* whatever writes of it have crossed each other.
PhaseFollows ==
  <>[]status.running => []<>(hw.phase = pll.target + pll.delay * pll.nco)

\* A stop is shown: its event is taken and the status read after it, in the
\* end, whichever starts are being handled as well.
StopShown == <>[](hw.run = "IDLE") => <>[]~status.running

\* What is shown, what runs and what was kept agree once all is quiet, in
\* whatever order the events and the records came (update_pll_status,
\* handle_pll_stop, update_nco_frequency).
Settled == StatusSettles /\ FifoServesRun /\ FinalFrequency

=============================================================================
