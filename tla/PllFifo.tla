------------------------------- MODULE PllFifo -------------------------------
(***************************************************************************)
(* One readout FIFO of the tune PLL, from the gateware                     *)
(* (tune_pll_readout_fifo.vhd) through epics/src/tune_pll_fifo.c to the    *)
(* waveform EPICS shows.  Samples arrive at any time; the events thread    *)
(* and the EPICS records that enable, disable and reset the FIFO take      *)
(* turns under fifo->mutex, but the hardware moves between any two of      *)
(* their register accesses.                                                *)
(*                                                                         *)
(* Samples are numbered in the order the gateware produces them, modulo    *)
(* Period: whatever is lost leaves a break in the numbers.                 *)
(***************************************************************************)
EXTENDS Naturals, Sequences

CONSTANTS
  FifoSize,     \* PLL_FIFO_SIZE
  HalfFull,     \* depth that raises the interrupt
  BufferSize,   \* fifo->buffer_size
  Period        \* bound: numbers of samples told apart

ASSUME FifoAssumption ==
  /\ FifoSize \in Nat /\ HalfFull \in 1 .. FifoSize
  /\ BufferSize \in Nat /\ BufferSize > FifoSize   \* initialise_tune_pll
  /\ Period \in Nat /\ Period > 2

VARIABLES
  queue,        \* the hardware FIFO
  runState,     \* run_state of its writer
  armed,        \* interrupt_enabled
  number,       \* number of the next sample
  ready,        \* ready event: latched, in the events thread, or both
  enabled, overflow, buffer, readBuffer, epicsBusy,   \* struct readout_fifo
  reading,      \* EPICS is processing the records of the interlock
  call,         \* the call that holds fifo->mutex
  seam,         \* history: breaks the code accepts lie after these positions
  shown         \* history: the last sample shown before those in buffer

fifoHwVars == <<queue, runState, armed, number>>
fifoSwVars == <<enabled, overflow, buffer, readBuffer, epicsBusy, reading, seam,
            shown>>
fifoVars == <<fifoHwVars, ready, fifoSwVars, call>>

Sample == 0 .. Period - 1
Stage == {"START", "UPDATE", "STOP", "FLUSH"}
Phase == {"idle", "status", "words", "reset", "enable", "update"}

\* Nobody holds fifo->mutex.
NoCall == [stage |-> "UPDATE", phase |-> "none", flush |-> FALSE,
           left |-> 0, overrun |-> FALSE]

FifoTypeOK ==
  /\ queue \in Seq(Sample) /\ Len(queue) <= FifoSize
  /\ runState \in {"RUNNING", "OVERRUN", "DELAY", "STARTING"}
  /\ number \in Sample
  /\ ready \in [latched : BOOLEAN, taken : BOOLEAN]
  /\ armed \in BOOLEAN /\ enabled \in BOOLEAN /\ overflow \in BOOLEAN
  /\ epicsBusy \in BOOLEAN /\ reading \in BOOLEAN
  /\ buffer \in Seq(Sample) /\ Len(buffer) <= BufferSize
  /\ readBuffer \in Seq(Sample) /\ Len(readBuffer) <= FifoSize
  /\ call \in [stage : Stage, phase : Phase \cup {"none"}, flush : BOOLEAN,
               left : 0 .. FifoSize, overrun : BOOLEAN]
  /\ seam \subseteq 0 .. BufferSize
  /\ shown \in Seq(Sample) /\ Len(shown) <= 1

\* create_readout_fifo() has flushed the hardware; a read of nothing leaves
\* the interrupt as it was.
FifoInit ==
  /\ queue = <<>> /\ runState = "RUNNING" /\ number = 0
  /\ armed \in BOOLEAN
  /\ ready = [latched |-> FALSE, taken |-> FALSE]
  /\ enabled = FALSE /\ overflow = FALSE /\ epicsBusy = FALSE
  /\ buffer = <<>> /\ readBuffer = <<>> /\ reading = FALSE
  /\ call = NoCall /\ seam = {} /\ shown = <<>>

-----------------------------------------------------------------------------
(* The gateware.                                                           *)

\* interrupt_o
Interrupt(q, r, a) == a /\ (Len(q) >= HalfFull \/ r = "OVERRUN")

\* The interrupt controller latches the rising edge of the line.
LatchEdge ==
  ready' = [ready EXCEPT !.latched =
              @ \/ ( /\ Interrupt(queue', runState', armed')
                     /\ ~Interrupt(queue, runState, armed) )]

\* write_i: the sample is stored, or finds the FIFO full and stops the
\* writer, or is dropped because the writer has stopped.
WriteSample ==
  /\ number' = (number + 1) % Period
  /\ \/ /\ runState \in {"RUNNING", "STARTING"} /\ Len(queue) < FifoSize
        /\ queue' = Append(queue, number)
        /\ runState' = "RUNNING"
     \/ /\ runState = "RUNNING" /\ Len(queue) = FifoSize
        /\ runState' = "OVERRUN"
        /\ UNCHANGED queue
     \/ /\ runState \in {"OVERRUN", "DELAY"}
        /\ UNCHANGED <<queue, runState>>
  /\ UNCHANGED <<armed, fifoSwVars, call>>
  /\ LatchEdge

\* The clock after a reset of the overrun.
Restart ==
  /\ runState = "DELAY"
  /\ runState' = "STARTING"
  /\ UNCHANGED <<queue, armed, number, fifoSwVars, call>>
  /\ LatchEdge

-----------------------------------------------------------------------------
(* The entry points: each takes fifo->mutex and looks at fifo->enabled.    *)

EnterCall(stage, flush) ==
  /\ call.phase = "none"
  /\ call' = [NoCall EXCEPT !.stage = stage, !.phase = "idle", !.flush = flush]
  /\ UNCHANGED <<fifoHwVars, ready, fifoSwVars>>

\* enable_readout_fifo(), from START (no flush) or DEBUG:ENABLE (flush)
EnableFifo == ~enabled /\ \E flush \in BOOLEAN : EnterCall("START", flush)

\* disable_readout_fifo()
DisableFifo == enabled /\ EnterCall("STOP", FALSE)

\* reset_readout_fifo()
ResetFifo == enabled /\ EnterCall("FLUSH", TRUE)

\* The events thread reads the ready event, and waits for the mutex.
TakeEvent ==
  /\ ready.latched /\ ~ready.taken
  /\ ready' = [latched |-> FALSE, taken |-> TRUE]
  /\ UNCHANGED <<fifoHwVars, fifoSwVars, call>>

\* handle_fifo_ready()
HandleFifoReady ==
  /\ ready.taken /\ call.phase = "none"
  /\ ready' = [ready EXCEPT !.taken = FALSE]
  /\ IF enabled
     THEN call' = [NoCall EXCEPT !.stage = "UPDATE", !.phase = "idle"]
     ELSE UNCHANGED call
  /\ UNCHANGED <<fifoHwVars, fifoSwVars>>

-----------------------------------------------------------------------------
(* The body of a call, in the order of its register accesses.              *)

FifoGoto(phase) == call' = [call EXCEPT !.phase = phase]
FifoReturn == call' = NoCall

LastShown == IF buffer = <<>> THEN shown ELSE <<buffer[Len(buffer)]>>

\* Mutant of EpicsIdle: RESET_FIFO does not wait.
EpicsIdleOrReset == ~(epicsBusy /\ reading) \/ call.stage = "FLUSH"

\* interlock_wait(), if a buffer has been emitted
EpicsIdle == ~(epicsBusy /\ reading)

\* Mutant of Residue: what did not fit is forgotten.
ResidueLost == <<>>

\* read_buffer[0 .. read_buffer_count - 1]
Residue == readBuffer

\* ensure_epics_idle(), then the residue becomes the start of the next buffer
\* (process_fifo_content), or there is none (reset_fifo).  After an overflow
\* the residue is followed by a break.
EnsureEpicsIdle ==
  /\ call.phase = "idle" /\ EpicsIdle
  /\ epicsBusy' = FALSE
  /\ IF call.stage \in {"START", "FLUSH"}
     THEN buffer' = <<>> /\ overflow' = FALSE /\ seam' = {} /\ shown' = <<>>
     ELSE IF epicsBusy
     THEN /\ buffer' = Residue
          /\ seam' = IF overflow THEN {Len(Residue)} ELSE {}
          /\ shown' = LastShown
          /\ UNCHANGED overflow
     ELSE UNCHANGED <<buffer, overflow, seam, shown>>
  /\ enabled' = (enabled \/ call.stage = "START")
  /\ readBuffer' = <<>>
  /\ FifoGoto("status")
  /\ UNCHANGED <<fifoHwVars, ready, reading>>

\* hw_read_pll_readout_fifo(): the depth and the overrun, read once.
ReadStatus ==
  /\ call.phase = "status"
  /\ call' = [call EXCEPT !.phase = "words", !.left = Len(queue),
                          !.overrun = (runState = "OVERRUN")]
  /\ UNCHANGED <<fifoHwVars, ready, fifoSwVars>>

\* One read of the data register, which disarms the interrupt.
ReadWord ==
  /\ call.phase = "words" /\ call.left > 0
  /\ readBuffer' = Append(readBuffer, Head(queue))
  /\ queue' = Tail(queue)
  /\ armed' = FALSE
  /\ call' = [call EXCEPT !.left = @ - 1]
  /\ UNCHANGED <<runState, number, enabled, overflow, buffer, epicsBusy, reading,
                 seam, shown>>
  /\ LatchEdge

\* The reset of an overrun, and the overrun reported to the caller, except
\* when the data is discarded.
WriteReset ==
  /\ call.phase = "words" /\ call.left = 0
  /\ IF call.overrun
     THEN queue' = <<>> /\ runState' = "DELAY"
     ELSE UNCHANGED <<queue, runState>>
  /\ IF call.flush
     THEN readBuffer' = <<>> /\ UNCHANGED overflow
     ELSE overflow' = call.overrun /\ UNCHANGED readBuffer
  /\ FifoGoto("enable")
  /\ UNCHANGED <<armed, number, enabled, buffer, epicsBusy, reading, seam,
                 shown>>
  /\ LatchEdge

\* Mutant of EnableInterrupts: only when the FIFO is started or reset.
EnableInterruptsOnce == call.stage \in {"START", "FLUSH"}

\* enable_interrupt of hw_read_pll_readout_fifo()
EnableInterrupts == call.stage # "STOP"

\* Interrupts are enabled again unless the FIFO is being stopped; after the
\* flush of a start comes its first read.
WriteEnable ==
  /\ call.phase = "enable"
  /\ armed' = (armed \/ EnableInterrupts)
  /\ IF ~call.flush THEN FifoGoto("update")
     ELSE IF call.stage = "FLUSH" THEN FifoReturn
     ELSE call' = [call EXCEPT !.phase = "status", !.flush = FALSE]
  /\ UNCHANGED <<queue, runState, number, fifoSwVars>>
  /\ LatchEdge

\* Mutant of ToCopy: the room in the buffer is not looked at.
ToCopyAll == Len(readBuffer)

ToCopy == LET space == BufferSize - Len(buffer)
          IN  IF Len(readBuffer) < space THEN Len(readBuffer) ELSE space

\* emit_buffer
EmitNow(b) ==
  \/ call.stage = "STOP"
  \/ Len(b) = BufferSize
  \/ overflow /\ call.stage # "START"

\* The rest of process_fifo_content(): the buffer grows, and is handed to
\* EPICS if it is complete, with what it has no room for kept back.
UpdateBuffer ==
  /\ call.phase = "update"
  /\ buffer' = buffer \o SubSeq(readBuffer, 1, ToCopy)
  /\ IF EmitNow(buffer')
     THEN /\ epicsBusy' = TRUE /\ reading' = TRUE
          /\ readBuffer' = SubSeq(readBuffer, ToCopy + 1, Len(readBuffer))
          /\ UNCHANGED seam
     ELSE /\ readBuffer' = <<>>
          /\ seam' = IF overflow THEN {Len(buffer')} ELSE seam
          /\ UNCHANGED <<epicsBusy, reading>>
  /\ enabled' = (enabled /\ call.stage # "STOP")
  /\ FifoReturn
  /\ UNCHANGED <<fifoHwVars, ready, overflow, shown>>

\* EPICS: the READ chain has processed OFFSETWF (read_fifo_buffer) and
\* FIFO_OVF, and its DONE record releases the interlock.
ReadDone ==
  /\ reading
  /\ reading' = FALSE
  /\ UNCHANGED <<fifoHwVars, ready, enabled, overflow, buffer, readBuffer, epicsBusy,
                 seam, shown, call>>

CallStep ==
  \/ EnsureEpicsIdle
  \/ ReadStatus
  \/ ReadWord
  \/ WriteReset
  \/ WriteEnable
  \/ UpdateBuffer

Hardware == WriteSample \/ Restart

FifoNext ==
  \/ Hardware
  \/ TakeEvent \/ HandleFifoReady
  \/ EnableFifo \/ DisableFifo \/ ResetFifo
  \/ CallStep
  \/ ReadDone

FifoSpec == FifoInit /\ [][FifoNext]_fifoVars

\* The threads run, the gateware runs, and samples come for as long as the
\* feedback runs.
FifoFairness ==
  /\ WF_fifoVars(WriteSample) /\ WF_fifoVars(Restart)
  /\ WF_fifoVars(TakeEvent) /\ SF_fifoVars(HandleFifoReady)
  /\ WF_fifoVars(CallStep) /\ WF_fifoVars(ReadDone)

-----------------------------------------------------------------------------
(* Properties.                                                             *)

\* What was shown last and everything on its way from the hardware to EPICS.
Pipeline == shown \o buffer \o readBuffer \o queue

\* Where the code knows of a break: the overflow of a first read, the end of
\* a residue that an overflow has left, and the end of the last read if it
\* overflowed and its buffer has been, or is just being, completed.
KnownBreaks ==
  {Len(shown) + i : i \in seam \cup
     (IF overflow /\ (epicsBusy \/ call.phase \in {"enable", "update"})
      THEN {Len(buffer) + Len(readBuffer)} ELSE {})}

\* While the FIFO is enabled no sample is lost, repeated or moved between the
\* hardware and EPICS, across reads, residues and buffers: the sequence has
\* no break but where an overflow is acted upon (process_fifo_content).
NoHiddenGap ==
  (enabled /\ ~(call.stage \in {"START", "FLUSH"} /\ call.phase # "none")) =>
    \A i \in 1 .. Len(Pipeline) - 1 :
      i \in KnownBreaks \/ Pipeline[i + 1] = (Pipeline[i] + 1) % Period

\* What EPICS reads stays as it is until EPICS has done with it: the waveform,
\* its length and the overflow flag shown with it (ensure_epics_idle).
PublishedStable ==
  [][reading /\ reading' => UNCHANGED <<buffer, overflow>>]_fifoVars

\* Read interrupts are never lost: an enabled FIFO fills a buffer, or is
\* stopped, even if resets and overruns come in between, as long as resets
\* do not come for ever (tune_pll_readout_fifo.vhd, handle_fifo_ready).
BuffersComplete ==
  <>[](call.stage # "FLUSH") => []<>(reading \/ ~enabled)

=============================================================================
