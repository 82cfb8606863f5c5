------------------------------ MODULE DmaControl ------------------------------
(***************************************************************************)
(* Reading the captured data by DMA, driver/dma_control.c: one engine and  *)
(* one buffer shared by all reads under a mutex, the interrupt that ends a *)
(* transfer, and reads that are killed while they wait for it.             *)
(*                                                                         *)
(* The engine (external) signals an interrupt when a transfer ends, until  *)
(* its status bits are written back.  The interrupt controller (external)  *)
(* latches the rising edge of that signal.                                 *)
(***************************************************************************)
EXTENDS Naturals

CONSTANTS
  MemFiles,  \* open files of the memory devices; each does one read at a time
  None,      \* nobody
  MaxKills   \* bound: reads killed while the board is there

ASSUME NoneAssumption == None \notin MemFiles

VARIABLES
  read,      \* how far each read has come
  owner,     \* who holds dma->mutex
  done,      \* the count of dma->dma_done
  engine,    \* what the engine is doing; the idle and error bits of cdmasr
  irqStatus, \* the interrupt bits of cdmasr
  latched,   \* bit 0 of intc->isr
  isr,       \* what mbf_isr() is doing about it
  saw,       \* the interrupt bits of its local cdmasr
  kills      \* reads killed since the board was probed

readerVars == <<read, owner, kills>>
irqVars == <<latched, isr, saw>>
dmaVars == <<readerVars, done, engine, irqStatus, irqVars>>

DmaTypeOK ==
  /\ read \in [MemFiles -> {"none", "queued", "locked", "reset", "reinit",
                            "start", "wait", "copy"}]
  /\ owner \in MemFiles \cup {None}
  /\ done \in Nat
  /\ engine \in {"idle", "running", "error"}
  /\ kills \in Nat
  /\ irqStatus \in BOOLEAN /\ latched \in BOOLEAN /\ saw \in BOOLEAN
  /\ isr \in {"idle", "acknowledge", "status", "clear", "complete"}

\* initialise_dma_control() resets the engine.
DmaInit ==
  /\ read = [f \in MemFiles |-> "none"]
  /\ owner = None
  /\ done = 0
  /\ engine = "idle" /\ irqStatus = FALSE
  /\ latched = FALSE /\ isr = "idle" /\ saw = FALSE
  /\ kills = 0

Goes(f, from, to) == read[f] = from /\ read' = [read EXCEPT ![f] = to]

-----------------------------------------------------------------------------
(* read_dma_memory() and release_dma_memory().                             *)

CallRead(f) ==
  /\ Goes(f, "none", "queued")
  /\ UNCHANGED <<owner, kills, done, engine, irqStatus, irqVars>>

LockDma(f) ==
  /\ Goes(f, "queued", "locked")
  /\ owner = None /\ owner' = f
  /\ UNCHANGED <<kills, done, engine, irqStatus, irqVars>>

\* maybe_reset_dma(): reads cdmasr ...
CheckStatus(f) ==
  /\ Goes(f, "locked", IF engine = "idle" THEN "reinit" ELSE "reset")
  /\ UNCHANGED <<owner, kills, done, engine, irqStatus, irqVars>>

\* ... and resets an engine that is busy or has failed.
ResetEngine(f) ==
  /\ Goes(f, "reset", "reinit")
  /\ engine' = "idle" /\ irqStatus' = FALSE
  /\ UNCHANGED <<owner, kills, done, irqVars>>

Reinit(f) ==
  /\ Goes(f, "reinit", "start")
  /\ done' = 0
  /\ UNCHANGED <<owner, kills, engine, irqStatus, irqVars>>

\* Writing btt starts the transfer.
StartTransfer(f) ==
  /\ Goes(f, "start", "wait")
  /\ engine' = "running"
  /\ UNCHANGED <<owner, kills, done, irqStatus, irqVars>>

\* Mutant of Completed: the mutex is given up before the data is copied.
CompletedUnlocked(f) ==
  /\ Goes(f, "wait", "copy")
  /\ done > 0 /\ done' = done - 1
  /\ owner' = None
  /\ UNCHANGED <<kills, engine, irqStatus, irqVars>>

Completed(f) ==
  /\ Goes(f, "wait", "copy")
  /\ done > 0 /\ done' = done - 1
  /\ UNCHANGED <<owner, kills, engine, irqStatus, irqVars>>

\* wait_for_completion_killable() looks at the completion first.
Kill(f) ==
  /\ Goes(f, "wait", "none")
  /\ done = 0
  /\ owner' = None
  /\ kills < MaxKills /\ kills' = kills + 1
  /\ UNCHANGED <<done, engine, irqStatus, irqVars>>

\* copy_to_user(), release_dma_memory()
ReleaseDma(f) ==
  /\ Goes(f, "copy", "none")
  /\ owner' = None
  /\ UNCHANGED <<kills, done, engine, irqStatus, irqVars>>

Proceed(f) ==
  \/ CheckStatus(f) \/ ResetEngine(f) \/ Reinit(f) \/ StartTransfer(f)
  \/ Completed(f) \/ ReleaseDma(f)

-----------------------------------------------------------------------------
(* The engine and mbf_isr(), as far as it deals with bit 0.                *)

\* The transfer ends, well or with an error.
EngineDone ==
  /\ engine = "running"
  /\ engine' \in {"idle", "error"}
  /\ irqStatus' = TRUE
  /\ latched' = (latched \/ ~irqStatus)
  /\ UNCHANGED <<readerVars, done, isr, saw>>

FetchDmaIsr ==
  /\ isr = "idle" /\ latched
  /\ isr' = "acknowledge"
  /\ UNCHANGED <<readerVars, done, engine, irqStatus, latched, saw>>

AcknowledgeDma ==
  /\ isr = "acknowledge"
  /\ latched' = FALSE
  /\ isr' = "status"
  /\ UNCHANGED <<readerVars, done, engine, irqStatus, saw>>

\* dma_interrupt(): cdmasr is read, written back, and the reader told.
ReadStatus ==
  /\ isr = "status"
  /\ saw' = irqStatus
  /\ isr' = "clear"
  /\ UNCHANGED <<readerVars, done, engine, irqStatus, latched>>

ClearStatus ==
  /\ isr = "clear"
  /\ irqStatus' = (irqStatus /\ ~saw)
  /\ isr' = "complete"
  /\ UNCHANGED <<readerVars, done, engine, latched, saw>>

Complete ==
  /\ isr = "complete"
  /\ done' = done + 1
  /\ isr' = "idle" /\ saw' = FALSE
  /\ UNCHANGED <<readerVars, engine, irqStatus, latched>>

DmaIsr ==
  FetchDmaIsr \/ AcknowledgeDma \/ ReadStatus \/ ClearStatus \/ Complete

=============================================================================
