------------------------------ MODULE DriverCore ------------------------------
(***************************************************************************)
(* The life of the driver's state for one board, driver/amc525_mbf_core.c  *)
(* and the open, release and lock operations of driver/registers.c and     *)
(* driver/memory.c, around the reads of DmaControl.  The FPGA may be       *)
(* reloaded, and the board removed and probed again, while files are open. *)
(*                                                                         *)
(* The kernel (external) does not close a file while a read of it is       *)
(* running, and free_irq() waits for a handler that is running.  An open   *)
(* that has found the device reaches amc525_mbf_open() before the board is *)
(* terminated.                                                             *)
(***************************************************************************)
EXTENDS DmaControl, FiniteSets

CONSTANT RegFiles  \* open files of the register device

Files == MemFiles \cup RegFiles

ASSUME FilesAssumption ==
  /\ IsFiniteSet(Files)
  /\ MemFiles \cap RegFiles = {}
  /\ None \notin RegFiles

VARIABLES
  phase,      \* of the board
  refcount,   \* mbf->refcount
  completed,  \* mbf->completion
  file,       \* of each file
  references, \* locking->reference_count
  lockedBy    \* locking->locked_by

fileVars == <<refcount, completed, file, references, lockedBy>>
vars == <<dmaVars, phase, fileVars>>

Phases == {"live", "detached", "waiting", "released", "stopped",
           "unmapped", "freed"}

TypeOK ==
  /\ DmaTypeOK
  /\ phase \in Phases
  /\ refcount \in Nat
  /\ completed \in BOOLEAN
  /\ file \in [Files -> {"closed", "opening", "open", "closing"}]
  /\ references \in Nat
  /\ lockedBy \in RegFiles \cup {None}

\* amc525_mbf_probe()
Init ==
  /\ DmaInit
  /\ phase = "live"
  /\ refcount = 1 /\ completed = FALSE
  /\ file = [f \in Files |-> "closed"]
  /\ references = 0 /\ lockedBy = None

Becomes(f, from, to) == file[f] = from /\ file' = [file EXCEPT ![f] = to]

\* atomic_dec_and_test() of refcount, and complete() by who takes it to zero.
DropReference ==
  /\ refcount' = refcount - 1
  /\ completed' = (completed \/ refcount = 1)

-----------------------------------------------------------------------------
(* Files.  The check of refcount turns away who comes too late.            *)

OpenDevice(f) ==
  /\ Becomes(f, "closed", "opening")
  /\ phase \in {"live", "detached", "waiting"}
  /\ refcount > 0 /\ refcount' = refcount + 1
  /\ UNCHANGED <<dmaVars, phase, completed, references, lockedBy>>

\* mbf_dma_open()
OpenMem(f) ==
  /\ Becomes(f, "opening", "open")
  /\ UNCHANGED <<dmaVars, phase, refcount, completed, references, lockedBy>>

\* Mutant of OpenReg: the lock is not looked at.
OpenRegLocked(f) ==
  /\ Becomes(f, "opening", "open")
  /\ references' = references + 1
  /\ UNCHANGED <<dmaVars, phase, refcount, completed, lockedBy>>

\* mbf_reg_open()
OpenReg(f) ==
  /\ Becomes(f, "opening", "open")
  /\ lockedBy = None
  /\ references' = references + 1
  /\ UNCHANGED <<dmaVars, phase, refcount, completed, lockedBy>>

\* Out of memory, or the registers are locked: amc525_mbf_release() follows.
OpenFails(f) ==
  /\ Becomes(f, "opening", "closing")
  /\ UNCHANGED <<dmaVars, phase, refcount, completed, references, lockedBy>>

\* lock_register()
LockReg(f) ==
  /\ file[f] = "open"
  /\ references <= 1 /\ lockedBy = None
  /\ lockedBy' = f
  /\ UNCHANGED <<dmaVars, phase, refcount, completed, file, references>>

\* unlock_register()
UnlockReg(f) ==
  /\ file[f] = "open"
  /\ lockedBy = f /\ lockedBy' = None
  /\ UNCHANGED <<dmaVars, phase, refcount, completed, file, references>>

\* mbf_dma_release(), up to amc525_mbf_release()
CloseMem(f) ==
  /\ Becomes(f, "open", "closing")
  /\ read[f] = "none"
  /\ UNCHANGED <<dmaVars, phase, refcount, completed, references, lockedBy>>

\* mbf_reg_release(), up to amc525_mbf_release()
CloseReg(f) ==
  /\ Becomes(f, "open", "closing")
  /\ lockedBy' = IF lockedBy = f THEN None ELSE lockedBy
  /\ references' = references - 1
  /\ UNCHANGED <<dmaVars, phase, refcount, completed>>

\* Mutant of ReleaseDevice: the last one out tells nobody.
ReleaseQuietly(f) ==
  /\ Becomes(f, "closing", "closed")
  /\ refcount' = refcount - 1
  /\ UNCHANGED <<dmaVars, phase, completed, references, lockedBy>>

\* amc525_mbf_release()
ReleaseDevice(f) ==
  /\ Becomes(f, "closing", "closed")
  /\ DropReference
  /\ UNCHANGED <<dmaVars, phase, references, lockedBy>>

\* mbf_dma_read() calls read_dma_memory().
ReadMem(f) ==
  /\ file[f] = "open"
  /\ CallRead(f)
  /\ UNCHANGED <<phase, fileVars>>

MemFile(f) ==
  \/ OpenMem(f) \/ CloseMem(f) \/ ReadMem(f)
  \/ (LockDma(f) \/ Proceed(f) \/ Kill(f)) /\ UNCHANGED <<phase, fileVars>>

RegFile(f) == OpenReg(f) \/ LockReg(f) \/ UnlockReg(f) \/ CloseReg(f)

-----------------------------------------------------------------------------
(* amc525_mbf_remove() and amc525_mbf_probe().                             *)

Enter(from, to) == phase = from /\ phase' = to

\* destroy_device_nodes()
Detach == Enter("live", "detached") /\ UNCHANGED <<dmaVars, fileVars>>

\* wait_for_clients(): gives up its own reference and waits.
StartWait ==
  /\ Enter("detached", "waiting")
  /\ DropReference
  /\ UNCHANGED <<dmaVars, file, references, lockedBy>>

ClientsReleased ==
  /\ Enter("waiting", "released")
  /\ completed /\ completed' = FALSE
  /\ UNCHANGED <<dmaVars, refcount, file, references, lockedBy>>

\* terminate_interrupt_control()
StopInterrupts ==
  /\ Enter("released", "stopped")
  /\ isr = "idle"
  /\ UNCHANGED <<dmaVars, fileVars>>

\* terminate_dma_control(): the buffer is unmapped and freed.
FreeBuffer == Enter("stopped", "unmapped") /\ UNCHANGED <<dmaVars, fileVars>>

\* disable_board(), which takes the bus from the board, and kfree().
FreeBoard == Enter("unmapped", "freed") /\ UNCHANGED <<dmaVars, fileVars>>

Remove ==
  StartWait \/ ClientsReleased \/ StopInterrupts \/ FreeBuffer \/ FreeBoard

\* A new life, with everything initialised.
Probe ==
  /\ phase = "freed" /\ phase' = "live"
  /\ read' = [f \in MemFiles |-> "none"] /\ owner' = None /\ done' = 0
  /\ engine' = "idle" /\ irqStatus' = FALSE
  /\ latched' = FALSE /\ isr' = "idle" /\ saw' = FALSE /\ kills' = 0
  /\ refcount' = 1 /\ completed' = FALSE
  /\ references' = 0 /\ lockedBy' = None
  /\ UNCHANGED file

InterruptsEnabled == phase \notin {"stopped", "unmapped", "freed"}

Hardware ==
  \/ EngineDone /\ UNCHANGED <<phase, fileVars>>
  \/ InterruptsEnabled /\ DmaIsr /\ UNCHANGED <<phase, fileVars>>

Next ==
  \/ \E f \in Files : OpenDevice(f) \/ OpenFails(f) \/ ReleaseDevice(f)
  \/ \E f \in MemFiles : MemFile(f)
  \/ \E f \in RegFiles : RegFile(f)
  \/ Detach
  \/ Remove
  \/ Probe
  \/ Hardware

Spec == Init /\ [][Next]_vars

(***************************************************************************)
(* Transfers end, the kernel runs the handler of an enabled interrupt,     *)
(* threads go on and get a mutex that is released again and again, and     *)
(* removal does what it has begun.  Nobody is obliged to open or close a   *)
(* file, nor is a board removed or probed.                                 *)
(***************************************************************************)
Fairness ==
  /\ WF_vars(EngineDone /\ UNCHANGED <<phase, fileVars>>)
  /\ WF_vars(InterruptsEnabled /\ DmaIsr /\ UNCHANGED <<phase, fileVars>>)
  /\ WF_vars(Remove)
  /\ WF_vars(\E f \in MemFiles : Proceed(f) /\ UNCHANGED <<phase, fileVars>>)
  /\ \A f \in MemFiles : SF_vars(LockDma(f) /\ UNCHANGED <<phase, fileVars>>)
FairSpec == Spec /\ Fairness

-----------------------------------------------------------------------------
(* Properties.                                                             *)

(***************************************************************************)
(* When wait_for_clients() returns no file is left that could reach the    *)
(* state about to be freed, and none is opened any more.                   *)
(***************************************************************************)
ClientsGone ==
  phase \in {"released", "stopped", "unmapped", "freed"} =>
    \A f \in Files : file[f] = "closed"

(***************************************************************************)
(* A file that has locked the registers is the only one open, whatever     *)
(* opens and closes met on the way.                                        *)
(***************************************************************************)
ExclusiveLock ==
  lockedBy # None => {f \in RegFiles : file[f] = "open"} = {lockedBy}

(***************************************************************************)
(* Data is copied to the user from a buffer the engine has finished with:  *)
(* no read is woken by the interrupt of another one, as long as no read is *)
(* killed.                                                                 *)
(***************************************************************************)
TransferComplete ==
  \A f \in MemFiles : read[f] = "copy" /\ kills = 0 => engine # "running"

(***************************************************************************)
(* The buffer is freed with no transfer into it under way and no handler   *)
(* left that would look at it, as long as no read has been killed.         *)
(***************************************************************************)
BoardAtRest ==
  phase \in {"stopped", "unmapped", "freed"} =>
    isr = "idle" /\ (engine = "running" => kills > 0)

(***************************************************************************)
(* The same without the exception: wait_for_clients() is there "so that we *)
(* can safely release the hardware resources".                             *)
(***************************************************************************)
SafelyReleased == phase = "unmapped" => engine # "running"

(***************************************************************************)
(* A read ends, also when others are killed and their transfers reset.     *)
(***************************************************************************)
ReadEnds == \A f \in MemFiles : []<>(read[f] = "none")

(***************************************************************************)
(* Removal does not hang once the last file is closed, whichever of the    *)
(* two sides takes the count to zero.                                      *)
(***************************************************************************)
RemovalEnds ==
  []<>~(phase = "waiting" /\ \A f \in Files : file[f] = "closed")

(***************************************************************************)
(* The files are counted right: removal waits for all of them, and         *)
(* MBF_REG_LOCK for all but its own (amc525_mbf_release, lock_register).   *)
(***************************************************************************)
FilesSafe == ClientsGone /\ ExclusiveLock

(***************************************************************************)
(* Neither a reader nor the removal of the board touches the DMA buffer    *)
(* while the engine writes to it, as long as no read has been killed       *)
(* (read_dma_memory, terminate_dma_control).                               *)
(***************************************************************************)
DmaSafe == TransferComplete /\ BoardAtRest

(***************************************************************************)
(* Neither a read nor a removal hangs: what it waits for is completed by   *)
(* dma_interrupt() and by the last amc525_mbf_release().                   *)
(***************************************************************************)
DriverEnds == ReadEnds /\ RemovalEnds

=============================================================================
