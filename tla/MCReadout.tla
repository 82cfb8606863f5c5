------------------------------ MODULE MCReadout ------------------------------
(***************************************************************************)
(* The ways out of the hardware, checked side by side: the FIFO of the     *)
(* tune PLL, the stream of a memory command and the capture waveforms.  An *)
(* initial state picks one of them, and the others stay as they are.       *)
(***************************************************************************)
EXTENDS PllFifo, MemoryRead, MemoryCapture

VARIABLE part
mcVars == <<part, fifoVars, streamVars, memVars>>

\* The parts at rest have one initial state.
MCInit ==
  /\ part \in {"fifo", "stream", "capture"}
  /\ FifoInit /\ ReadInit /\ CaptureInit
  /\ part # "fifo" => armed
  /\ part # "stream" =>
       /\ request = CHOOSE r \in Request : TRUE
       /\ capture.delay = [c \in {0, 1} |-> 0]
  /\ part # "capture" =>
       /\ mux = CHOOSE m \in SavedEntries : TRUE
       /\ readoutOffset = 0

MCFifo ==
  part = "fifo" /\ FifoNext /\ UNCHANGED <<part, streamVars, memVars>>
MCStream ==
  part = "stream" /\ ReadNext /\ UNCHANGED <<part, fifoVars, memVars>>
MCCapture ==
  part = "capture" /\ CaptureNext /\ UNCHANGED <<part, fifoVars, streamVars>>

\* Each part under its own fairness; <>[] as TLC needs no tableau for it.
MCFairness ==
  \/ <>[](part = "fifo") /\ FifoFairness
  \/ <>[](part = "stream") /\ ReadFairness
  \/ <>[](part = "capture") /\ CaptureFairness

MCSpec ==
  MCInit /\ [][MCFifo \/ MCStream \/ MCCapture]_mcVars /\ MCFairness

\* The types of all three parts (tune_pll_fifo.c, socket_command.c, memory.c).
TypesOK == FifoTypeOK /\ ReadTypeOK /\ CaptureTypeOK

=============================================================================
