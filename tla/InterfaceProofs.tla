---------------------------- MODULE InterfaceProofs ----------------------------
(***************************************************************************)
(* Proofs about the kernel driver: its files and DMA (DriverCore, for any  *)
(* finite set of files and any bound on the reads that are killed), and    *)
(* its event stream (InterruptEvents, for any set of events and any number *)
(* of readers); and about SocketServer: the buffered file passes lines and *)
(* replies on whole and in order, for any sizes of its buffers and of what *)
(* goes through them.                                                      *)
(*                                                                         *)
(* The invariant of the first has two halves.  LifeInv counts: the         *)
(* reference count is the number of files that are not closed and one for  *)
(* the board, the count of the registers is the number of open files, and  *)
(* the completion is given exactly when the count is zero.  DmaInv follows *)
(* the completion of a transfer, which is in one place at a time until a   *)
(* read is killed.                                                         *)
(***************************************************************************)
EXTENDS MCInterfaces, FiniteSetTheorems, SequenceTheorems, TLAPS

FileState == {"closed", "opening", "open", "closing"}
OpenFiles == {f \in Files : file[f] # "closed"}
OpenRegs == {f \in RegFiles : file[f] = "open"}

LifeTypeOK ==
  /\ phase \in Phases
  /\ refcount \in Nat
  /\ completed \in BOOLEAN
  /\ file \in [Files -> FileState]
  /\ references \in Nat
  /\ lockedBy \in RegFiles \cup {None}

RefcountExact ==
  refcount = Cardinality(OpenFiles)
               + (IF phase \in {"live", "detached"} THEN 1 ELSE 0)

WaitExact ==
  /\ phase \in {"live", "detached"} => ~completed
  /\ phase = "waiting" => (completed <=> refcount = 0)
  /\ phase \in {"released", "stopped", "unmapped", "freed"} =>
       refcount = 0 /\ ~completed

ReferencesExact == references = Cardinality(OpenRegs)

LifeInv ==
  LifeTypeOK /\ RefcountExact /\ WaitExact /\ ReferencesExact /\ ExclusiveLock

MutexHeld ==
  \A f \in MemFiles :
    /\ read[f] \notin {"none", "queued"} <=> owner = f
    /\ read[f] # "none" => file[f] = "open"

\* Each transfer gives one completion, which is on its way to the reader.
InTransfer ==
  /\ engine = "running" => ~irqStatus /\ ~latched /\ isr = "idle" /\ done = 0
  /\ latched => irqStatus /\ isr \in {"idle", "acknowledge"} /\ done = 0
  /\ isr = "acknowledge" => latched
  /\ isr \in {"status", "clear"} => irqStatus
  /\ isr = "clear" => saw
  /\ irqStatus => latched \/ isr \in {"status", "clear"}
  /\ done > 0 => done = 1 /\ isr = "idle" /\ ~irqStatus
  /\ isr # "idle" => done = 0

Pending == engine = "running" \/ latched \/ isr # "idle" \/ done > 0

OneCompletion ==
  kills = 0 =>
    /\ InTransfer
    /\ Pending => \E f \in MemFiles : read[f] = "wait"

HandlerStopped == phase \in {"stopped", "unmapped", "freed"} => isr = "idle"

DmaInv == DmaTypeOK /\ MutexHeld /\ OneCompletion /\ HandlerStopped

IInv == LifeInv /\ DmaInv

-----------------------------------------------------------------------------
(* Counting files.                                                         *)

LEMMA CountsFinite ==
  /\ IsFiniteSet(OpenFiles) /\ Cardinality(OpenFiles) \in Nat
  /\ IsFiniteSet(OpenRegs) /\ Cardinality(OpenRegs) \in Nat
<1>1. OpenFiles \in SUBSET Files /\ OpenRegs \in SUBSET Files
  BY DEF OpenFiles, OpenRegs, Files
<1>2. IsFiniteSet(OpenFiles) /\ IsFiniteSet(OpenRegs)
  BY <1>1, FilesAssumption, FS_Subset
<1>3. QED BY <1>2, FS_CardinalityType

\* A step of one file that neither opens nor closes the device.
LEMMA SameFiles ==
  ASSUME NEW f \in Files, NEW from, NEW to, file \in [Files -> FileState],
         from # "closed", to # "closed", Becomes(f, from, to)
  PROVE  OpenFiles' = OpenFiles
BY DEF OpenFiles, Becomes, Files

LEMMA OneMoreFile ==
  ASSUME NEW f \in Files, NEW to, file \in [Files -> FileState],
         to # "closed", Becomes(f, "closed", to)
  PROVE  Cardinality(OpenFiles') = Cardinality(OpenFiles) + 1
<1>1. OpenFiles' = OpenFiles \cup {f} /\ f \notin OpenFiles
  BY DEF OpenFiles, Becomes, Files
<1>2. QED BY <1>1, CountsFinite, FS_AddElement

LEMMA OneFileLess ==
  ASSUME NEW f \in Files, NEW from, file \in [Files -> FileState],
         from # "closed", Becomes(f, from, "closed")
  PROVE  /\ Cardinality(OpenFiles') = Cardinality(OpenFiles) - 1
         /\ Cardinality(OpenFiles) > 0
<1>1. OpenFiles' = OpenFiles \ {f} /\ f \in OpenFiles
  BY DEF OpenFiles, Becomes, Files
<1>2. OpenFiles # {}
  BY <1>1
<1>3. Cardinality(OpenFiles) # 0
  BY <1>2, CountsFinite, FS_EmptySet
<1>4. Cardinality(OpenFiles') = Cardinality(OpenFiles) - 1
  BY <1>1, CountsFinite, FS_RemoveElement
<1>5. QED BY <1>3, <1>4, CountsFinite

\* A step of one file that is not an open or close of the registers.
LEMMA SameRegs ==
  ASSUME NEW f \in Files, NEW from, NEW to, file \in [Files -> FileState],
         Becomes(f, from, to), from # "open", to # "open"
  PROVE  OpenRegs' = OpenRegs
BY DEF OpenRegs, Becomes, Files

-----------------------------------------------------------------------------
(* LifeInv, one lemma for each kind of step.                               *)

\* Steps of the reads and of the hardware touch none of its variables.
LEMMA LifeUnchanged ==
  ASSUME LifeInv, UNCHANGED <<phase, fileVars>>
  PROVE  LifeInv'
BY DEF LifeInv, LifeTypeOK, RefcountExact, WaitExact, ReferencesExact,
       ExclusiveLock, OpenFiles, OpenRegs, fileVars

LEMMA LifeOpenDevice ==
  ASSUME LifeInv, NEW f \in Files, OpenDevice(f)
  PROVE  LifeInv'
<1>1. /\ Becomes(f, "closed", "opening")
      /\ refcount > 0 /\ refcount' = refcount + 1
      /\ UNCHANGED <<phase, completed, references, lockedBy>>
  BY DEF OpenDevice
<1>2. LifeTypeOK'
  BY <1>1 DEF LifeInv, LifeTypeOK, Becomes, FileState
<1>3. Cardinality(OpenFiles') = Cardinality(OpenFiles) + 1
  BY <1>1, OneMoreFile DEF LifeInv, LifeTypeOK
<1>4. OpenRegs' = OpenRegs
  BY <1>1, SameRegs DEF LifeInv, LifeTypeOK
<1>5. RefcountExact'
  BY <1>1, <1>3, CountsFinite DEF LifeInv, RefcountExact
<1>6. WaitExact'
  BY <1>1 DEF LifeInv, LifeTypeOK, WaitExact
<1>7. ReferencesExact' /\ ExclusiveLock'
  BY <1>1, <1>4 DEF LifeInv, ReferencesExact, ExclusiveLock, OpenRegs
<1>8. QED BY <1>2, <1>5, <1>6, <1>7 DEF LifeInv

\* Steps that leave a device open and the registers as they are.
LEMMA LifeFileStep ==
  ASSUME LifeInv,
         file' \in [Files -> FileState],
         OpenFiles' = OpenFiles, OpenRegs' = OpenRegs,
         UNCHANGED <<phase, refcount, completed, references, lockedBy>>
  PROVE  LifeInv'
<1>1. LifeTypeOK'
  BY DEF LifeInv, LifeTypeOK
<1>2. RefcountExact' /\ WaitExact' /\ ReferencesExact' /\ ExclusiveLock'
  BY DEF LifeInv, RefcountExact, WaitExact, ReferencesExact, ExclusiveLock,
         OpenRegs
<1>3. QED BY <1>1, <1>2 DEF LifeInv

LEMMA LifeReleaseDevice ==
  ASSUME LifeInv, NEW f \in Files, ReleaseDevice(f)
  PROVE  LifeInv'
<1>1. /\ Becomes(f, "closing", "closed")
      /\ refcount' = refcount - 1
      /\ completed' = (completed \/ refcount = 1)
      /\ UNCHANGED <<phase, references, lockedBy>>
  BY DEF ReleaseDevice, DropReference
<1>2. /\ Cardinality(OpenFiles') = Cardinality(OpenFiles) - 1
      /\ Cardinality(OpenFiles) > 0
  BY <1>1, OneFileLess DEF LifeInv, LifeTypeOK
<1>3. OpenRegs' = OpenRegs
  BY <1>1, SameRegs DEF LifeInv, LifeTypeOK
<1>4. refcount > 0 /\ (phase \in {"live", "detached"} => refcount > 1)
  BY <1>2, CountsFinite DEF LifeInv, RefcountExact
<1>5. LifeTypeOK'
  BY <1>1, <1>4 DEF LifeInv, LifeTypeOK, Becomes, FileState
<1>6. RefcountExact'
  BY <1>1, <1>2, CountsFinite DEF LifeInv, RefcountExact
<1>7. WaitExact'
  <2>1. phase \notin {"released", "stopped", "unmapped", "freed"}
    BY <1>4 DEF LifeInv, WaitExact
  <2>2. phase \in {"live", "detached"} => ~completed'
    BY <1>1, <1>4 DEF LifeInv, LifeTypeOK, WaitExact
  <2>3. phase = "waiting" => (completed' <=> refcount' = 0)
    <3>1. HAVE phase = "waiting"
    <3>2. ~completed
      BY <1>4, <3>1 DEF LifeInv, LifeTypeOK, WaitExact
    <3>3. completed' <=> refcount = 1
      BY <1>1, <3>2
    <3>4. refcount' = 0 <=> refcount = 1
      BY <1>1 DEF LifeInv, LifeTypeOK
    <3>5. QED BY <3>3, <3>4
  <2>4. QED BY <1>1, <2>1, <2>2, <2>3 DEF WaitExact
<1>8. ReferencesExact' /\ ExclusiveLock'
  BY <1>1, <1>3 DEF LifeInv, ReferencesExact, ExclusiveLock, OpenRegs
<1>9. QED BY <1>5, <1>6, <1>7, <1>8 DEF LifeInv

LEMMA LifeRegFile ==
  ASSUME LifeInv, NEW f \in RegFiles, RegFile(f)
  PROVE  LifeInv'
<1> f \in Files
  BY DEF Files
<1> USE DEF LifeInv
<1>1. CASE OpenReg(f)
  <2>1. /\ Becomes(f, "opening", "open") /\ lockedBy' = None
        /\ references' = references + 1
        /\ UNCHANGED <<phase, refcount, completed>>
    BY <1>1 DEF OpenReg
  <2>2. OpenFiles' = OpenFiles
    BY <2>1, SameFiles DEF LifeTypeOK
  <2>3. OpenRegs' = OpenRegs \cup {f} /\ f \notin OpenRegs
    BY <2>1 DEF LifeTypeOK, OpenRegs, Becomes
  <2>4. Cardinality(OpenRegs') = Cardinality(OpenRegs) + 1
    BY <2>3, CountsFinite, FS_AddElement
  <2>5. LifeTypeOK'
    BY <2>1 DEF LifeTypeOK, Becomes, FileState
  <2>6. RefcountExact' /\ WaitExact' /\ ReferencesExact' /\ ExclusiveLock'
    BY <2>1, <2>2, <2>4
    DEF RefcountExact, WaitExact, ReferencesExact, ExclusiveLock
  <2>7. QED BY <2>5, <2>6
<1>2. CASE LockReg(f)
  <2>1. /\ file[f] = "open" /\ references <= 1 /\ lockedBy' = f
        /\ UNCHANGED <<phase, refcount, completed, file, references>>
    BY <1>2 DEF LockReg
  <2>2. f \in OpenRegs
    BY <2>1 DEF OpenRegs
  <2>3. Cardinality(OpenRegs) # 0
    BY <2>2, CountsFinite, FS_EmptySet
  <2>4. Cardinality(OpenRegs) = 1
    BY <2>1, <2>3, CountsFinite DEF ReferencesExact
  <2>5. OpenRegs = {f}
    BY <2>2, <2>4, CountsFinite, FS_Singleton
  <2>6. LifeTypeOK' /\ ExclusiveLock'
    BY <2>1, <2>5 DEF LifeTypeOK, ExclusiveLock, OpenRegs
  <2>7. RefcountExact' /\ WaitExact' /\ ReferencesExact'
    BY <2>1 DEF RefcountExact, WaitExact, ReferencesExact, OpenFiles, OpenRegs
  <2>8. QED BY <2>6, <2>7
<1>3. CASE UnlockReg(f)
  <2>1. /\ lockedBy' = None
        /\ UNCHANGED <<phase, refcount, completed, file, references>>
    BY <1>3 DEF UnlockReg
  <2>2. QED
    BY <2>1 DEF LifeTypeOK, RefcountExact, WaitExact, ReferencesExact,
                ExclusiveLock, OpenFiles, OpenRegs
<1>4. CASE CloseReg(f)
  <2>1. /\ Becomes(f, "open", "closing")
        /\ lockedBy' = IF lockedBy = f THEN None ELSE lockedBy
        /\ references' = references - 1
        /\ UNCHANGED <<phase, refcount, completed>>
    BY <1>4 DEF CloseReg
  <2>2. OpenFiles' = OpenFiles
    BY <2>1, SameFiles DEF LifeTypeOK
  <2>3. OpenRegs' = OpenRegs \ {f} /\ f \in OpenRegs
    BY <2>1 DEF LifeTypeOK, OpenRegs, Becomes, Files
  <2>4. Cardinality(OpenRegs') = Cardinality(OpenRegs) - 1
    BY <2>3, CountsFinite, FS_RemoveElement
  <2>5. Cardinality(OpenRegs) # 0
    BY <2>3, CountsFinite, FS_EmptySet
  <2>6. references > 0
    BY <2>5, CountsFinite DEF ReferencesExact
  <2>7. LifeTypeOK'
    BY <2>1, <2>6 DEF LifeTypeOK, Becomes, FileState
  <2>8. lockedBy' = None
    BY <2>1, <2>3 DEF ExclusiveLock, OpenRegs
  <2>9. RefcountExact' /\ WaitExact' /\ ReferencesExact' /\ ExclusiveLock'
    BY <2>1, <2>2, <2>4, <2>8
    DEF RefcountExact, WaitExact, ReferencesExact, ExclusiveLock
  <2>10. QED BY <2>7, <2>9
<1>5. QED BY <1>1, <1>2, <1>3, <1>4 DEF RegFile

\* A count of zero: no file is left.
LEMMA NoFiles ==
  ASSUME LifeInv, phase \in {"released", "stopped", "unmapped", "freed"}
  PROVE  /\ OpenFiles = {} /\ OpenRegs = {}
         /\ \A f \in Files : file[f] = "closed"
<1>1. Cardinality(OpenFiles) = 0
  BY CountsFinite DEF LifeInv, RefcountExact, WaitExact
<1>2. OpenFiles = {}
  BY <1>1, CountsFinite, FS_EmptySet
<1>3. OpenRegs = {}
  BY <1>2 DEF OpenFiles, OpenRegs, Files
<1>4. QED BY <1>2, <1>3 DEF OpenFiles

LEMMA LifeBoard ==
  ASSUME LifeInv, Detach \/ Remove \/ Probe
  PROVE  LifeInv'
<1> USE DEF LifeInv
<1>1. CASE Detach \/ StopInterrupts \/ FreeBuffer \/ FreeBoard
  <2>1. /\ UNCHANGED fileVars
        /\ <<phase, phase'>> \in {<<"live", "detached">>,
             <<"released", "stopped">>, <<"stopped", "unmapped">>,
             <<"unmapped", "freed">>}
    BY <1>1 DEF Detach, StopInterrupts, FreeBuffer, FreeBoard, Enter
  <2>2. LifeTypeOK' /\ WaitExact' /\ RefcountExact'
    BY <2>1 DEF LifeTypeOK, WaitExact, RefcountExact, OpenFiles, fileVars,
                Phases
  <2>3. ReferencesExact' /\ ExclusiveLock'
    BY <2>1 DEF ReferencesExact, ExclusiveLock, OpenRegs, fileVars
  <2>4. QED BY <2>2, <2>3
<1>2. CASE StartWait
  <2>1. /\ phase = "detached" /\ phase' = "waiting"
        /\ refcount' = refcount - 1
        /\ completed' = (completed \/ refcount = 1)
        /\ UNCHANGED <<file, references, lockedBy>>
    BY <1>2 DEF StartWait, Enter, DropReference
  <2>2. OpenFiles' = OpenFiles /\ OpenRegs' = OpenRegs
    BY <2>1 DEF OpenFiles, OpenRegs
  <2>3. refcount > 0
    BY <2>1, CountsFinite DEF RefcountExact
  <2>4. LifeTypeOK'
    BY <2>1, <2>3 DEF LifeTypeOK, Phases
  <2>5. WaitExact'
    <3>1. ~completed
      BY <2>1 DEF WaitExact
    <3>2. completed' <=> refcount = 1
      BY <2>1, <3>1
    <3>3. refcount' = 0 <=> refcount = 1
      BY <2>1 DEF LifeTypeOK
    <3>4. QED BY <2>1, <3>2, <3>3 DEF WaitExact
  <2>6. RefcountExact'
    BY <2>1, <2>2, CountsFinite DEF RefcountExact
  <2>7. ReferencesExact' /\ ExclusiveLock'
    BY <2>1, <2>2 DEF ReferencesExact, ExclusiveLock, OpenRegs
  <2>8. QED BY <2>4, <2>5, <2>6, <2>7
<1>3. CASE ClientsReleased
  <2>1. /\ phase = "waiting" /\ phase' = "released"
        /\ completed /\ completed' = FALSE
        /\ UNCHANGED <<refcount, file, references, lockedBy>>
    BY <1>3 DEF ClientsReleased, Enter
  <2>2. LifeTypeOK' /\ WaitExact' /\ RefcountExact'
    BY <2>1 DEF LifeTypeOK, WaitExact, RefcountExact, OpenFiles, Phases
  <2>3. ReferencesExact' /\ ExclusiveLock'
    BY <2>1 DEF ReferencesExact, ExclusiveLock, OpenRegs
  <2>4. QED BY <2>2, <2>3
<1>4. CASE Probe
  <2>1. /\ phase = "freed" /\ phase' = "live"
        /\ refcount' = 1 /\ completed' = FALSE
        /\ references' = 0 /\ lockedBy' = None /\ file' = file
    BY <1>4 DEF Probe
  <2>2. OpenFiles' = {} /\ OpenRegs' = {}
    BY <2>1, NoFiles DEF OpenFiles, OpenRegs
  <2>3. Cardinality({}) = 0
    BY FS_EmptySet
  <2>4. LifeTypeOK' /\ WaitExact'
    BY <2>1 DEF LifeTypeOK, WaitExact, Phases
  <2>5. RefcountExact' /\ ReferencesExact' /\ ExclusiveLock'
    BY <2>1, <2>2, <2>3 DEF RefcountExact, ReferencesExact, ExclusiveLock
  <2>6. QED BY <2>4, <2>5
<1>5. QED BY <1>1, <1>2, <1>3, <1>4 DEF Remove

LEMMA LifeStep ==
  ASSUME LifeInv, [Next]_vars
  PROVE  LifeInv'
<1> file \in [Files -> FileState]
  BY DEF LifeInv, LifeTypeOK
<1>1. ASSUME NEW f \in Files, OpenFails(f)
      PROVE  LifeInv'
  <2>1. /\ Becomes(f, "opening", "closing")
        /\ UNCHANGED <<phase, refcount, completed, references, lockedBy>>
    BY <1>1 DEF OpenFails
  <2>2. OpenFiles' = OpenFiles /\ OpenRegs' = OpenRegs
    BY <2>1, SameFiles, SameRegs
  <2>3. QED BY <2>1, <2>2, LifeFileStep DEF Becomes, FileState
<1>2. ASSUME NEW f \in MemFiles, MemFile(f)
      PROVE  LifeInv'
  <2> f \in Files
    BY DEF Files
  <2>1. CASE OpenMem(f) \/ CloseMem(f)
    <3>1. /\ Becomes(f, "opening", "open") \/ Becomes(f, "open", "closing")
          /\ UNCHANGED <<phase, refcount, completed, references, lockedBy>>
      BY <2>1 DEF OpenMem, CloseMem
    <3>2. OpenFiles' = OpenFiles
      BY <3>1, SameFiles
    <3>3. OpenRegs' = OpenRegs
      BY <3>1, FilesAssumption DEF Becomes, OpenRegs, Files
    <3>4. QED BY <3>1, <3>2, <3>3, LifeFileStep DEF Becomes, FileState
  <2>2. CASE UNCHANGED <<phase, fileVars>>
    BY <2>2, LifeUnchanged
  <2>3. QED BY <1>2, <2>1, <2>2 DEF MemFile, ReadMem
<1>3. CASE Hardware \/ UNCHANGED vars
  BY <1>3, LifeUnchanged DEF Hardware, vars
<1>4. QED
  BY <1>1, <1>2, <1>3, LifeOpenDevice, LifeReleaseDevice, LifeRegFile,
     LifeBoard
  DEF Next

-----------------------------------------------------------------------------
(* DmaInv.                                                                 *)

\* Steps of files that start or end no read leave all of it alone.
LEMMA DmaFileStep ==
  ASSUME DmaInv, NEW f \in Files, NEW from, NEW to,
         file \in [Files -> FileState],
         Becomes(f, from, to), UNCHANGED <<dmaVars, phase>>,
         f \in MemFiles => from # "open" \/ read[f] = "none"
  PROVE  DmaInv'
<1>1. DmaTypeOK' /\ HandlerStopped'
  BY DEF DmaInv, DmaTypeOK, HandlerStopped, dmaVars, readerVars, irqVars
<1>2. OneCompletion'
  BY DEF DmaInv, OneCompletion, InTransfer, Pending, dmaVars, readerVars,
         irqVars
<1>3. MutexHeld'
  BY DEF DmaInv, MutexHeld, Becomes, Files, dmaVars, readerVars
<1>4. QED BY <1>1, <1>2, <1>3 DEF DmaInv

LEMMA DmaRead ==
  ASSUME DmaInv, NEW f \in MemFiles, LockDma(f) \/ Proceed(f) \/ Kill(f),
         UNCHANGED <<phase, fileVars>>
  PROVE  DmaInv'
<1> USE DEF DmaInv, DmaTypeOK, Goes, irqVars
<1>1. /\ UNCHANGED <<latched, isr, saw, phase, file>>
      /\ irqStatus' = irqStatus \/ irqStatus' = FALSE
  BY DEF Proceed, LockDma, CheckStatus, ResetEngine, Reinit, StartTransfer,
         Completed, Kill, ReleaseDma, fileVars
<1>2. /\ read' \in [MemFiles -> {"none", "queued", "locked", "reset", "reinit",
                                "start", "wait", "copy"}]
      /\ owner' \in MemFiles \cup {None} /\ done' \in Nat /\ kills' \in Nat
      /\ engine' \in {"idle", "running", "error"}
  BY DEF Proceed, LockDma, CheckStatus, ResetEngine, Reinit, StartTransfer,
         Completed, Kill, ReleaseDma
<1>3. irqStatus' \in BOOLEAN
  BY <1>1
<1>4. DmaTypeOK' /\ HandlerStopped'
  BY <1>1, <1>2, <1>3 DEF HandlerStopped
<1>5. MutexHeld'
  BY NoneAssumption
  DEF Proceed, LockDma, CheckStatus, ResetEngine, Reinit, StartTransfer,
      Completed, Kill, ReleaseDma, MutexHeld, fileVars
<1>6. OneCompletion'
  <2>1. CASE LockDma(f) \/ CheckStatus(f) \/ ReleaseDma(f)
    BY <2>1 DEF LockDma, CheckStatus, ReleaseDma, OneCompletion, InTransfer,
                Pending, MutexHeld
  <2>2. CASE ResetEngine(f) \/ Reinit(f) \/ StartTransfer(f)
    <3>1. kills = 0 => ~Pending
      BY <2>2 DEF ResetEngine, Reinit, StartTransfer, OneCompletion, MutexHeld
    <3>2. QED
      BY <2>2, <3>1
      DEF ResetEngine, Reinit, StartTransfer, OneCompletion, InTransfer,
          Pending, MutexHeld
  <2>3. CASE Completed(f)
    BY <2>3 DEF Completed, OneCompletion, InTransfer, Pending
  <2>4. CASE Kill(f)
    BY <2>4 DEF Kill, OneCompletion
  <2>5. QED BY <2>1, <2>2, <2>3, <2>4 DEF Proceed
<1>7. QED BY <1>4, <1>5, <1>6

LEMMA DmaHardware ==
  ASSUME DmaInv, Hardware
  PROVE  DmaInv'
<1> USE DEF DmaInv, DmaTypeOK, readerVars, fileVars
<1>1. /\ UNCHANGED <<read, owner, kills, phase, file>>
      /\ isr' \in {"idle", "acknowledge", "status", "clear", "complete"}
      /\ done' \in Nat
      /\ engine' \in {"idle", "running", "error"}
      /\ phase \in {"stopped", "unmapped", "freed"} => isr' = isr
  BY DEF Hardware, DmaIsr, EngineDone, FetchDmaIsr, AcknowledgeDma,
         ReadStatus, ClearStatus, Complete, InterruptsEnabled
<1>2. irqStatus' \in BOOLEAN /\ latched' \in BOOLEAN /\ saw' \in BOOLEAN
  BY ZenonT(30)
  DEF Hardware, DmaIsr, EngineDone, FetchDmaIsr, AcknowledgeDma,
      ReadStatus, ClearStatus, Complete
<1>3. DmaTypeOK' /\ HandlerStopped' /\ MutexHeld'
  BY <1>1, <1>2 DEF HandlerStopped, MutexHeld
<1>4. OneCompletion'
  <2>1. CASE EngineDone
    <3>1. /\ engine = "running" /\ engine' # "running"
          /\ irqStatus' = TRUE /\ latched' = (latched \/ ~irqStatus)
          /\ UNCHANGED <<read, kills, done, isr, saw>>
      BY <2>1 DEF EngineDone
    <3>2. SUFFICES ASSUME kills = 0
                   PROVE  InTransfer' /\ \E f \in MemFiles : read'[f] = "wait"
      BY <3>1 DEF OneCompletion
    <3>3. /\ ~irqStatus /\ ~latched /\ isr = "idle" /\ done = 0
          /\ \E f \in MemFiles : read[f] = "wait"
      BY <3>1, <3>2 DEF OneCompletion, InTransfer, Pending
    <3>4. irqStatus' /\ latched'
      BY <3>1, <3>3
    <3>5. QED BY <3>1, <3>3, <3>4 DEF InTransfer
  <2>2. CASE FetchDmaIsr \/ AcknowledgeDma
    BY <2>2 DEF FetchDmaIsr, AcknowledgeDma, OneCompletion, InTransfer, Pending
  <2>3. CASE ReadStatus \/ ClearStatus \/ Complete
    BY <2>3 DEF ReadStatus, ClearStatus, Complete, OneCompletion, InTransfer,
                Pending
  <2>4. QED BY <2>1, <2>2, <2>3 DEF Hardware, DmaIsr
<1>5. QED BY <1>3, <1>4

LEMMA DmaStep ==
  ASSUME LifeInv, DmaInv, [Next]_vars
  PROVE  DmaInv'
<1> file \in [Files -> FileState]
  BY DEF LifeInv, LifeTypeOK
<1>1. ASSUME NEW f \in Files, OpenDevice(f) \/ OpenFails(f) \/ ReleaseDevice(f)
      PROVE  DmaInv'
  BY <1>1, DmaFileStep DEF OpenDevice, OpenFails, ReleaseDevice
<1>2. ASSUME NEW f \in MemFiles, MemFile(f)
      PROVE  DmaInv'
  <2> f \in Files
    BY DEF Files
  <2>1. CASE OpenMem(f)
    BY <2>1, DmaFileStep DEF OpenMem
  <2>2. CASE CloseMem(f)
    BY <2>2, DmaFileStep DEF CloseMem
  <2>3. CASE ReadMem(f)
    <3>1. /\ read[f] = "none" /\ read' = [read EXCEPT ![f] = "queued"]
          /\ file[f] = "open"
          /\ UNCHANGED <<owner, kills, done, engine, irqStatus, irqVars, file,
                         phase>>
      BY <2>3 DEF ReadMem, CallRead, Goes, fileVars
    <3>2. DmaTypeOK' /\ MutexHeld' /\ HandlerStopped'
      BY <3>1 DEF DmaInv, DmaTypeOK, MutexHeld, HandlerStopped, irqVars
    <3>3. OneCompletion'
      BY <3>1 DEF DmaInv, DmaTypeOK, OneCompletion, InTransfer, Pending, irqVars
    <3>4. QED BY <3>2, <3>3 DEF DmaInv
  <2>4. CASE /\ LockDma(f) \/ Proceed(f) \/ Kill(f)
             /\ UNCHANGED <<phase, fileVars>>
    BY <2>4, DmaRead
  <2>5. QED BY <1>2, <2>1, <2>2, <2>3, <2>4 DEF MemFile
<1>3. ASSUME NEW f \in RegFiles, RegFile(f)
      PROVE  DmaInv'
  <2> f \in Files /\ f \notin MemFiles
    BY FilesAssumption DEF Files
  <2>1. CASE OpenReg(f) \/ CloseReg(f)
    BY <2>1, DmaFileStep DEF OpenReg, CloseReg
  <2>2. CASE LockReg(f) \/ UnlockReg(f)
    <3>1. UNCHANGED <<dmaVars, phase, file>>
      BY <2>2 DEF LockReg, UnlockReg
    <3>2. QED
      BY <3>1 DEF DmaInv, DmaTypeOK, MutexHeld, OneCompletion, InTransfer,
                  Pending, HandlerStopped, dmaVars, readerVars, irqVars
  <2>3. QED BY <1>3, <2>1, <2>2 DEF RegFile
<1>4. CASE Detach \/ Remove
  <2>1. /\ UNCHANGED <<dmaVars, file>>
        /\ phase' \in {"stopped", "unmapped", "freed"} =>
             isr = "idle" \/ phase \in {"stopped", "unmapped", "freed"}
    BY <1>4 DEF Detach, Remove, StartWait, ClientsReleased, StopInterrupts,
                FreeBuffer, FreeBoard, Enter, fileVars
  <2>2. QED
    BY <2>1 DEF DmaInv, DmaTypeOK, MutexHeld, OneCompletion, InTransfer,
                Pending, HandlerStopped, dmaVars, readerVars, irqVars
<1>5. CASE Probe
  <2>1. /\ read' = [f \in MemFiles |-> "none"] /\ owner' = None /\ done' = 0
        /\ engine' = "idle" /\ isr' = "idle" /\ kills' = 0
    BY <1>5 DEF Probe
  <2>2. ~irqStatus' /\ ~latched' /\ ~saw'
    BY <1>5 DEF Probe
  <2>3. irqStatus' \in BOOLEAN /\ latched' \in BOOLEAN /\ saw' \in BOOLEAN
    BY <1>5, Zenon DEF Probe
  <2>4. DmaTypeOK' /\ HandlerStopped'
    BY <2>1, <2>3 DEF DmaTypeOK, HandlerStopped
  <2>5. MutexHeld'
    BY <2>1, NoneAssumption DEF MutexHeld
  <2>6. OneCompletion'
    BY <2>1, <2>2 DEF OneCompletion, InTransfer, Pending
  <2>7. QED BY <2>4, <2>5, <2>6 DEF DmaInv
<1>6. CASE Hardware
  BY <1>6, DmaHardware
<1>7. CASE UNCHANGED vars
  BY <1>7 DEF DmaInv, DmaTypeOK, MutexHeld, OneCompletion, InTransfer, Pending,
              HandlerStopped, vars, dmaVars, readerVars, irqVars, fileVars
<1>8. QED BY <1>1, <1>2, <1>3, <1>4, <1>5, <1>6, <1>7 DEF Next

-----------------------------------------------------------------------------
(* The theorems.                                                           *)

LEMMA InitInv ==
  ASSUME Init
  PROVE  IInv
<1>1. OpenFiles = {} /\ OpenRegs = {} /\ Cardinality({}) = 0
  BY FS_EmptySet DEF Init, OpenFiles, OpenRegs, Files
<1>2. LifeInv
  <2>1. LifeTypeOK
    BY DEF Init, LifeTypeOK, FileState, Phases
  <2>2. RefcountExact /\ WaitExact /\ ReferencesExact /\ ExclusiveLock
    BY <1>1 DEF Init, RefcountExact, WaitExact, ReferencesExact, ExclusiveLock
  <2>3. QED BY <2>1, <2>2 DEF LifeInv
<1>3. DmaInv
  <2>1. irqStatus \in BOOLEAN /\ latched \in BOOLEAN /\ saw \in BOOLEAN
    BY Zenon DEF Init, DmaInit
  <2>2. DmaTypeOK /\ HandlerStopped
    BY <2>1 DEF Init, DmaInit, DmaTypeOK, HandlerStopped
  <2>3. MutexHeld
    BY NoneAssumption DEF Init, DmaInit, MutexHeld
  <2>4. OneCompletion
    BY DEF Init, DmaInit, OneCompletion, InTransfer, Pending
  <2>5. QED BY <2>2, <2>3, <2>4 DEF DmaInv
<1>4. QED BY <1>2, <1>3 DEF IInv

LEMMA Invariance == Spec => []IInv
<1>1. IInv /\ [Next]_vars => IInv'
  BY LifeStep, DmaStep DEF IInv
<1>2. QED BY InitInv, <1>1, PTL DEF Spec

(***************************************************************************)
(* The types, in particular that no count is taken below zero by a         *)
(* release, a failed open or a close.                                      *)
(***************************************************************************)
THEOREM TypeCorrect == Spec => []TypeOK
<1>1. IInv => TypeOK
  BY DEF IInv, LifeInv, LifeTypeOK, DmaInv, TypeOK, FileState
<1>2. QED BY <1>1, Invariance, PTL

(***************************************************************************)
(* wait_for_clients() returns only when every file is closed, and none is  *)
(* opened after it.                                                        *)
(***************************************************************************)
THEOREM RemovalWaits == Spec => []ClientsGone
<1>1. IInv => ClientsGone
  BY NoFiles DEF IInv, ClientsGone
<1>2. QED BY <1>1, Invariance, PTL

(***************************************************************************)
(* lock_register() gives the registers to the only file that has them open *)
(* and mbf_reg_open() keeps the others out.                                *)
(***************************************************************************)
THEOREM LockExclusive == Spec => []ExclusiveLock
<1>1. IInv => ExclusiveLock
  BY DEF IInv, LifeInv
<1>2. QED BY <1>1, Invariance, PTL

(***************************************************************************)
(* Without kills read_dma_memory() returns a buffer the engine is done     *)
(* with.                                                                   *)
(***************************************************************************)
THEOREM OwnTransfer == Spec => []TransferComplete
<1>1. IInv => TransferComplete
  <2>1. SUFFICES ASSUME IInv, NEW f \in MemFiles, read[f] = "copy", kills = 0
                 PROVE  engine # "running"
    BY DEF TransferComplete
  <2>2. \A g \in MemFiles : read[g] # "wait"
    BY <2>1 DEF IInv, DmaInv, MutexHeld
  <2>3. QED BY <2>1, <2>2 DEF IInv, DmaInv, OneCompletion, Pending
<1>2. QED BY <1>1, Invariance, PTL

(***************************************************************************)
(* Without kills amc525_mbf_remove() frees a buffer nothing is transferred *)
(* to, and in any case after the last run of the interrupt handler.        *)
(***************************************************************************)
THEOREM RemovalAtRest == Spec => []BoardAtRest
<1>1. IInv => BoardAtRest
  <2>1. SUFFICES ASSUME IInv, phase \in {"stopped", "unmapped", "freed"}
                 PROVE  isr = "idle" /\ (engine = "running" => kills > 0)
    BY DEF BoardAtRest
  <2>2. isr = "idle"
    BY <2>1 DEF IInv, DmaInv, HandlerStopped
  <2>3. \A f \in MemFiles : read[f] = "none"
    BY <2>1, NoFiles DEF IInv, DmaInv, MutexHeld, Files
  <2>4. engine = "running" => kills # 0
    BY <2>1, <2>3 DEF IInv, DmaInv, OneCompletion, Pending
  <2>5. QED BY <2>1, <2>2, <2>4 DEF IInv, DmaInv, DmaTypeOK
<1>2. QED BY <1>1, Invariance, PTL

(***************************************************************************)
(* The two counts of the driver, references and open register files, keep  *)
(* removal and exclusive access safe, for any number of files.             *)
(***************************************************************************)
THEOREM FilesCounted == Spec => []FilesSafe
<1>1. FilesSafe <=> ClientsGone /\ ExclusiveLock
  BY DEF FilesSafe
<1>2. QED BY <1>1, RemovalWaits, LockExclusive, PTL

(***************************************************************************)
(* Without kills nobody touches the DMA buffer while read_dma_memory() has *)
(* the engine write to it, for any number of readers.                      *)
(***************************************************************************)
THEOREM BufferOwned == Spec => []DmaSafe
<1>1. DmaSafe <=> TransferComplete /\ BoardAtRest
  BY DEF DmaSafe
<1>2. QED BY <1>1, OwnTransfer, RemovalAtRest, PTL

-----------------------------------------------------------------------------
(* The event stream: no wake up is missed, and the driver implements       *)
(* EventLatch.                                                             *)

(***************************************************************************)
(* The inductive invariant.  Between the fetch and the acknowledge the     *)
(* interrupts seen are still latched, so that acknowledging them takes     *)
(* nothing away; and only a read that is done holds a mask.                *)
(***************************************************************************)
SeenLatched == handler = "acknowledge" => seen \subseteq raised
TakenDone == \A r \in Readers : taken[r] # {} => readStep[r] = "done"
EventInv == EventTypeOK /\ SeenLatched /\ TakenDone /\ NoMissedWakeUp

LEMMA EventInvInit == EventInit => EventInv
BY DEF EventInit, EventInv, EventTypeOK, SeenLatched, TakenDone, NoMissedWakeUp

LEMMA IsrStep ==
  ASSUME EventInv, Isr
  PROVE  EventInv'
<1>1. CASE FetchIsr
  BY <1>1 DEF FetchIsr, readVars, EventInv, EventTypeOK, SeenLatched,
    TakenDone, NoMissedWakeUp
<1>2. CASE Acknowledge
  BY <1>2 DEF Acknowledge, readVars, EventInv, EventTypeOK, SeenLatched,
    TakenDone, NoMissedWakeUp
<1>3. CASE LoadEvents
  BY <1>3 DEF LoadEvents, readVars, EventInv, EventTypeOK, SeenLatched,
    TakenDone, NoMissedWakeUp
<1>4. CASE ExchangeEvents
  BY <1>4 DEF ExchangeEvents, readVars, EventInv, EventTypeOK, SeenLatched,
    TakenDone, NoMissedWakeUp
<1>5. CASE WakeUp
  BY <1>5 DEF WakeUp, EventInv, EventTypeOK, SeenLatched, TakenDone,
              NoMissedWakeUp
<1>6. QED BY <1>1, <1>2, <1>3, <1>4, <1>5 DEF Isr

LEMMA ReadStep ==
  ASSUME EventInv, NEW r \in Readers, StartRead(r) \/ Reading(r)
  PROVE  EventInv'
<1>1. CASE StartRead(r)
  BY <1>1 DEF StartRead, isrVars, EventInv, EventTypeOK, SeenLatched,
    TakenDone, NoMissedWakeUp
<1>2. CASE TakeNoWait(r)
  BY <1>2 DEF TakeNoWait, isrVars, EventInv, EventTypeOK, SeenLatched,
    TakenDone, NoMissedWakeUp
<1>3. CASE Queue(r)
  BY <1>3 DEF Queue, isrVars, EventInv, EventTypeOK, SeenLatched,
    TakenDone, NoMissedWakeUp
<1>4. CASE TakeOrSleep(r)
  BY <1>4 DEF TakeOrSleep, isrVars, EventInv, EventTypeOK, SeenLatched,
    TakenDone, NoMissedWakeUp
<1>5. CASE Awake(r)
  BY <1>5 DEF Awake, isrVars, EventInv, EventTypeOK, SeenLatched,
    TakenDone, NoMissedWakeUp
<1>6. CASE EndRead(r)
  BY <1>6 DEF EndRead, isrVars, EventInv, EventTypeOK, SeenLatched,
    TakenDone, NoMissedWakeUp
<1>7. QED BY <1>1, <1>2, <1>3, <1>4, <1>5, <1>6 DEF Reading

LEMMA EventInvStep ==
  ASSUME EventInv, [EventNext]_eventVars
  PROVE  EventInv'
<1>1. ASSUME NEW e \in Events, RaiseEvent(e)
      PROVE  EventInv'
  BY <1>1 DEF RaiseEvent, readVars, EventInv, EventTypeOK, SeenLatched,
    TakenDone, NoMissedWakeUp
<1>2. CASE UNCHANGED eventVars
  BY <1>2 DEF eventVars, EventInv, EventTypeOK, SeenLatched, TakenDone,
              NoMissedWakeUp
<1>3. QED BY <1>1, <1>2, IsrStep, ReadStep DEF EventNext

LEMMA EventInvHolds == EventSpec => []EventInv
BY EventInvInit, EventInvStep, PTL DEF EventSpec

\* The handler is at one of its steps, and what it has latched, taken and
\* woken are events and readers (interrupts.c).
THEOREM EventTypeCorrect == EventSpec => []EventTypeOK
<1>1. EventInv => EventTypeOK
  BY DEF EventInv
<1>2. QED BY <1>1, EventInvHolds, PTL

(***************************************************************************)
(* wake_up_interruptible() after the exchange, and the queueing before the *)
(* condition, are enough: no reader sleeps on while events are pending.    *)
(***************************************************************************)
THEOREM WakeUpCorrect == EventSpec => []NoMissedWakeUp
<1>1. EventInv => NoMissedWakeUp
  BY DEF EventInv
<1>2. QED BY <1>1, EventInvHolds, PTL

-----------------------------------------------------------------------------
(* The refinement of EventLatch.                                           *)

LEMMA LatchIsr ==
  ASSUME EventInv, Isr
  PROVE  [Latch!Next]_(Latch!vars)
<1>1. ASSUME Owed' = Owed, taken' = taken
      PROVE  [Latch!Next]_(Latch!vars)
  BY <1>1 DEF Latch!vars
<1>2. CASE FetchIsr
  BY <1>1, <1>2 DEF FetchIsr, readVars, Owed, InHandler
<1>3. CASE Acknowledge
  <2>1. \A e \in Events : Owed[e]' = Owed[e]
    BY <1>3 DEF Acknowledge, EventInv, EventTypeOK, SeenLatched, Owed, InHandler,
                One
  <2>2. Owed' = Owed
    BY <2>1 DEF Owed
  <2>3. QED BY <1>1, <1>3, <2>2 DEF Acknowledge, readVars
<1>4. CASE LoadEvents
  BY <1>1, <1>4 DEF LoadEvents, readVars, Owed, InHandler
<1>5. CASE ExchangeEvents /\ events # old
  BY <1>1, <1>5 DEF ExchangeEvents, readVars, Owed, InHandler
<1>6. CASE ExchangeEvents /\ events = old
  <2> DEFINE M == seen \cap events
  <2>1. taken' = taken /\ handler = "exchange" /\ handler' = "wake"
        /\ events' = events \cup seen /\ raised' = raised
    BY <1>6 DEF ExchangeEvents, readVars
  <2>2. \A e \in M : Owed[e] > 1
    BY <2>1 DEF Owed, InHandler, One, EventInv, EventTypeOK
  <2>3. Owed' = [e \in Events |-> IF e \in M THEN Owed[e] - 1 ELSE Owed[e]]
    <3>1. \A e \in Events : Owed'[e] = IF e \in M THEN Owed[e] - 1 ELSE Owed[e]
      BY <2>1 DEF Owed, InHandler, One
    <3>2. QED BY <3>1 DEF Owed
  <2>4. M \in SUBSET Events
    BY DEF EventInv, EventTypeOK
  <2>5. Latch!Merge(M)
    BY <2>1, <2>2, <2>3 DEF Latch!Merge
  <2>6. QED BY <2>4, <2>5 DEF Latch!Next
<1>7. CASE WakeUp
  BY <1>1, <1>7 DEF WakeUp, Owed, InHandler
<1>8. QED BY <1>2, <1>3, <1>4, <1>5, <1>6, <1>7 DEF Isr

LEMMA LatchRead ==
  ASSUME EventInv, NEW r \in Readers, StartRead(r) \/ Reading(r)
  PROVE  [Latch!Next]_(Latch!vars)
<1>1. ASSUME Owed' = Owed, taken' = taken
      PROVE  [Latch!Next]_(Latch!vars)
  BY <1>1 DEF Latch!vars
<1>2. CASE StartRead(r) \/ Queue(r) \/ Awake(r)
  BY <1>1, <1>2 DEF StartRead, Queue, Awake, isrVars, Owed, InHandler
<1>3. CASE TakeNoWait(r) \/ TakeOrSleep(r)
  <2>1. /\ taken' = [taken EXCEPT ![r] = events] /\ events' = {}
        /\ readStep[r] # "done" /\ UNCHANGED <<handler, seen, raised>>
    BY <1>3 DEF TakeNoWait, TakeOrSleep, isrVars
  <2>2. taken[r] = {}
    BY <2>1 DEF EventInv, TakenDone
  <2>3. \A e \in events : Owed[e] > 0
    BY DEF Owed, One, EventInv, EventTypeOK
  <2>4. Owed' = [e \in Events |-> IF e \in events THEN Owed[e] - 1 ELSE Owed[e]]
    <3>1. \A e \in Events :
            Owed'[e] = IF e \in events THEN Owed[e] - 1 ELSE Owed[e]
      BY <2>1 DEF Owed, InHandler, One
    <3>2. QED BY <3>1 DEF Owed
  <2>5. Latch!Take(r, events)
    BY <2>1, <2>2, <2>3, <2>4 DEF Latch!Take
  <2>6. events \in SUBSET Events
    BY DEF EventInv, EventTypeOK
  <2>7. QED BY <2>5, <2>6 DEF Latch!Next
<1>4. CASE EndRead(r)
  <2>1. Owed' = Owed
    BY <1>4 DEF EndRead, isrVars, Owed, InHandler
  <2>2. Latch!Return(r)
    BY <1>4, <2>1 DEF EndRead, Latch!Return
  <2>3. QED BY <2>2 DEF Latch!Next
<1>5. QED BY <1>2, <1>3, <1>4 DEF Reading

LEMMA LatchRaise ==
  ASSUME EventInv, NEW e \in Events, RaiseEvent(e)
  PROVE  Latch!Next
<1>1. taken' = taken
  BY DEF RaiseEvent, readVars
<1>2. \A f \in Events :
        Owed'[f] = IF f = e /\ e \notin raised THEN Owed[f] + 1 ELSE Owed[f]
  BY DEF RaiseEvent, Owed, InHandler, One
<1>3. CASE e \notin raised
  <2>1. Owed' = [Owed EXCEPT ![e] = @ + 1]
    BY <1>2, <1>3 DEF Owed
  <2>2. QED BY <1>1, <2>1 DEF Latch!Raise, Latch!Next
<1>4. CASE e \in raised
  <2>1. Owed' = Owed /\ Owed[e] > 0
    BY <1>2, <1>4 DEF Owed, One
  <2>2. QED BY <1>1, <2>1 DEF Latch!Raise, Latch!Next
<1>5. QED BY <1>3, <1>4

(***************************************************************************)
(* mbf_isr(), event_interrupt() and the competing reads, none of which     *)
(* takes a lock, together lose no event.                                   *)
(***************************************************************************)
THEOREM LatchImplemented == EventSpec => LatchSpec
<1>1. EventInit => Latch!Init
  BY DEF EventInit, Latch!Init, Owed, InHandler, One
<1>2. EventInv /\ [EventNext]_eventVars => [Latch!Next]_(Latch!vars)
  <2>1. CASE UNCHANGED eventVars
    BY <2>1 DEF eventVars, Latch!vars, Owed, InHandler
  <2>2. QED BY <2>1, LatchIsr, LatchRead, LatchRaise DEF EventNext
<1>3. QED
  BY <1>1, <1>2, EventInvHolds, PTL DEF EventSpec, LatchSpec, Latch!Spec

-----------------------------------------------------------------------------
(* Nothing is delivered twice.                                             *)

Invented(e) == Owed'[e] > Owed[e] /\ e \notin raised' \ raised

LEMMA StepInventsNothing ==
  ASSUME EventInv, [EventNext]_eventVars, NEW e \in Events
  PROVE  ~Invented(e)
<1>1. ASSUME NEW f \in Events, RaiseEvent(f)
      PROVE  ~Invented(e)
  BY <1>1 DEF RaiseEvent, readVars, Invented, Owed, InHandler, One
<1>2. CASE FetchIsr \/ LoadEvents \/ WakeUp
  BY <1>2 DEF FetchIsr, LoadEvents, WakeUp, readVars,
     Invented, Owed, InHandler, One
<1>3. CASE Acknowledge
  BY <1>3 DEF Acknowledge, readVars, EventInv, SeenLatched,
     Invented, Owed, InHandler, One
<1>4. CASE ExchangeEvents
  BY <1>4 DEF ExchangeEvents, readVars, Invented, Owed, InHandler, One
<1>5. ASSUME NEW r \in Readers, StartRead(r) \/ Reading(r)
      PROVE  ~Invented(e)
  BY <1>5 DEF StartRead, Reading, TakeNoWait, Queue, TakeOrSleep, Awake,
     EndRead, isrVars, Invented, Owed, InHandler, One
<1>6. CASE UNCHANGED eventVars
  BY <1>6 DEF eventVars, Invented, Owed, InHandler, One
<1>7. QED BY <1>1, <1>2, <1>3, <1>4, <1>5, <1>6 DEF EventNext, Isr

(***************************************************************************)
(* event_interrupt() never puts back an event that a read has taken.       *)
(***************************************************************************)
THEOREM NoneDeliveredTwice == EventSpec => NothingInvented
<1>1. EventInv /\ [EventNext]_eventVars =>
        [\A e \in Events : Owed'[e] > Owed[e] => e \in raised' \ raised]_eventVars
  BY StepInventsNothing DEF Invented
<1>2. QED BY <1>1, EventInvHolds, PTL DEF EventSpec, NothingInvented

(***************************************************************************)
(* mbf_isr() and read_interrupt_events() pass on what was raised, all of   *)
(* it and nothing else, for any number of events and readers.              *)
(***************************************************************************)
THEOREM EventsPassedOn == EventSpec => EventsExact
BY LatchImplemented, NoneDeliveredTwice DEF EventsExact

-----------------------------------------------------------------------------
(***************************************************************************)
(* The socket server: SocketServer.                                        *)
(***************************************************************************)

(***************************************************************************)
(* Sequences.                                                              *)
(***************************************************************************)
LEMMA FunctionIsSeq ==
  ASSUME NEW n \in Nat, NEW S, NEW f \in [1 .. n -> S]
  PROVE  f \in Seq(S) /\ Len(f) = n
BY SeqDef

\* What is cut in two and put together again is the same.
LEMMA CutJoin ==
  ASSUME NEW S, NEW s \in Seq(S), NEW k \in 0 .. Len(s)
  PROVE  /\ SubSeq(s, 1, k) \in Seq(S) /\ SubSeq(s, k + 1, Len(s)) \in Seq(S)
         /\ SubSeq(s, 1, k) \o SubSeq(s, k + 1, Len(s)) = s
<1>1. Len(s) \in Nat /\ \A i \in 1 .. Len(s) : s[i] \in S
  BY LenProperties, ElementOfSeq
<1>2. SubSeq(s, 1, k) \in Seq(S)
  BY <1>1, SubSeqProperties
<1>3. SubSeq(s, k + 1, Len(s)) \in Seq(S)
  BY <1>1, SubSeqProperties
<1>4. SubSeq(s, 1, k) \o SubSeq(s, k + 1, Len(s)) = SubSeq(s, 1, Len(s))
  <2>1. 1 \in 1 .. Len(s) + 1 /\ k \in 1 - 1 .. Len(s) /\ Len(s) \in k .. Len(s)
    BY <1>1
  <2>2. QED BY <2>1, ConcatAdjacentSubSeq
<1>5. QED BY <1>2, <1>3, <1>4, SubSeqFull

\* Sequences of numbers put together.
LEMMA Assoc ==
  ASSUME NEW s \in Seq(Nat), NEW t \in Seq(Nat), NEW u \in Seq(Nat)
  PROVE  (s \o t) \o u = s \o (t \o u)
BY ConcatAssociative, SMTT(30)

LEMMA Joined ==
  ASSUME NEW S, NEW s \in Seq(S), NEW t \in Seq(S)
  PROVE  /\ s \o t \in Seq(S) /\ Len(s \o t) = Len(s) + Len(t)
         /\ \A i \in 1 .. Len(s) : (s \o t)[i] = s[i]
         /\ \A i \in 1 .. Len(t) : (s \o t)[Len(s) + i] = t[i]
<1>1. Len(s) \in Nat /\ Len(t) \in Nat
  BY LenProperties
<1>2. /\ s \o t \in Seq(S) /\ Len(s \o t) = Len(s) + Len(t)
      /\ \A i \in 1 .. Len(s) + Len(t) :
           (s \o t)[i] = IF i <= Len(s) THEN s[i] ELSE t[i - Len(s)]
  BY ConcatProperties
<1>3. ASSUME NEW i \in 1 .. Len(t) PROVE (s \o t)[Len(s) + i] = t[i]
  <2>1. /\ Len(s) + i \in 1 .. Len(s) + Len(t) /\ ~(Len(s) + i <= Len(s))
        /\ (Len(s) + i) - Len(s) = i
    BY <1>1
  <2>2. QED BY <1>2, <2>1
<1>4. QED BY <1>1, <1>2, <1>3

\* Counting goes on where it was.
UpTo(n) == [i \in 1 .. n |-> i]
After(m, n) == [i \in 1 .. n |-> m + i]

LEMMA CountOn ==
  ASSUME NEW m \in Nat, NEW n \in Nat
  PROVE  /\ UpTo(m) \in Seq(Nat) /\ After(m, n) \in Seq(1 .. m + n)
         /\ After(m, n) \in Seq(Nat) /\ Len(After(m, n)) = n
         /\ UpTo(m) \o After(m, n) = UpTo(m + n)
<1>1. UpTo(m) \in Seq(Nat) /\ Len(UpTo(m)) = m
  BY FunctionIsSeq DEF UpTo
<1>2. After(m, n) \in Seq(1 .. m + n) /\ Len(After(m, n)) = n
  BY FunctionIsSeq DEF After
<1>3. After(m, n) \in Seq(Nat)
  BY <1>2, SeqMonotonic
<1>4. UpTo(m + n) \in Seq(Nat) /\ Len(UpTo(m + n)) = m + n
  BY FunctionIsSeq DEF UpTo
<1>5. UpTo(m) \o After(m, n) \in Seq(Nat) /\ Len(UpTo(m) \o After(m, n)) = m + n
  BY <1>1, <1>2, <1>3, ConcatProperties
<1>6. ASSUME NEW i \in 1 .. m + n
      PROVE  (UpTo(m) \o After(m, n))[i] = UpTo(m + n)[i]
  <2>1. (UpTo(m) \o After(m, n))[i] =
          IF i <= m THEN UpTo(m)[i] ELSE After(m, n)[i - m]
    <3>1. \A j \in 1 .. Len(UpTo(m)) + Len(After(m, n)) :
            (UpTo(m) \o After(m, n))[j] =
              IF j <= Len(UpTo(m)) THEN UpTo(m)[j]
              ELSE After(m, n)[j - Len(UpTo(m))]
      BY <1>1, <1>3, ConcatProperties
    <3>2. QED BY <1>1, <1>2, <3>1
  <2>2. CASE i <= m
    BY <2>1, <2>2 DEF UpTo
  <2>3. CASE ~(i <= m)
    <3>1. i - m \in 1 .. n
      BY <2>3
    <3>2. QED BY <2>1, <2>3, <3>1 DEF UpTo, After
  <2>4. QED BY <2>2, <2>3
<1>7. UpTo(m) \o After(m, n) = UpTo(m + n)
  BY <1>4, <1>5, <1>6, SeqEqual
<1>8. QED BY <1>1, <1>2, <1>3, <1>7

(***************************************************************************)
(* The invariant.                                                          *)
(***************************************************************************)
Char == 0 .. MaxLines

ControlInv ==
  /\ client \in {"reading", "stalled", "gone"} /\ ended \in BOOLEAN
  /\ place \in {"none", "orphan", "parse", "read", "command", "lock", "work",
                "delete", "close", "done"}
  /\ locked \in BOOLEAN /\ sndtimeo \in BOOLEAN
  /\ server \in {"accepting", "stopped"}
  /\ main \in {"running", "joining", "joined"}
  /\ todo \in Seq(Op)

\* What has been read and what has still to be read.
InputInv ==
  /\ asked \in Seq(Lengths) /\ Len(asked) <= MaxLines /\ wire \in Seq(Char)
  /\ line \in [text : Seq(Char), flushed : BOOLEAN] /\ Len(line.text) < LineSize
  /\ conn.in \in Seq(Char) /\ Len(conn.in) <= InSize
  /\ handled \in Seq(Seq(Char))

OutputInv ==
  /\ said \in Nat /\ sent \in Seq(Nat) /\ sending \in Seq(Nat)
  /\ conn.out \in Seq(1 .. said) /\ Len(conn.out) < OutSize

ConnInv ==
  \E in, out, eof, error :
    /\ conn = [in |-> in, out |-> out, eof |-> eof, error |-> error]
    /\ eof \in BOOLEAN /\ error \in BOOLEAN

\* Where nothing is being sent, where no part of a line has been set aside,
\* and where there is nothing in the input buffer.
PlaceInv ==
  /\ place \in {"none", "orphan", "parse", "command", "lock", "delete"} =>
       sending = <<>>
  /\ line.flushed => place \notin {"none", "orphan", "command", "lock", "work"}
  /\ place = "read" => conn.in = <<>>

ReplyInv ==
  ~conn.error =>
    /\ (sent \o sending) \o conn.out = UpTo(said)
    /\ place \in {"read", "close", "done"} \/ line.flushed => conn.out = <<>>

ReplySide == ControlInv /\ OutputInv /\ ConnInv /\ PlaceInv /\ ReplyInv

\* Steps that leave both buffers, and what is sent, alone.
dataVars == <<conn, wire, line, handled, asked, sending, sent, said>>

LEMMA OpSequences ==
  /\ \A raw \in BOOLEAN : ErrorReply(raw) \in Seq(Op)
  /\ \A lock \in BOOLEAN, ok \in BOOLEAN : Unlock(lock, ok) \in Seq(Op)
  /\ \A raw \in BOOLEAN, framed \in BOOLEAN : Reply(raw, framed) \in Seq(Op)
<1>1. \A op \in Op : <<op>> \in Seq(Op)
  OBVIOUS
<1>2. <<>> \in Seq(Op)
  OBVIOUS
<1>3. {"char", "text", "block", "unlock", "close"} = Op
  BY DEF Op
<1>4. \A raw \in BOOLEAN : ErrorReply(raw) \in Seq(Op)
  BY <1>1, <1>3 DEF ErrorReply
<1>5. \A lock \in BOOLEAN, ok \in BOOLEAN : Unlock(lock, ok) \in Seq(Op)
  BY <1>1, <1>2, <1>3 DEF Unlock
<1>6. \A raw \in BOOLEAN, framed \in BOOLEAN : Reply(raw, framed) \in Seq(Op)
  <2>1. SUFFICES ASSUME NEW raw \in BOOLEAN, NEW framed \in BOOLEAN
                 PROVE  Reply(raw, framed) \in Seq(Op)
    OBVIOUS
  <2>2. (IF raw THEN <<>> ELSE <<"char">>) \in Seq(Op)
    BY <1>1, <1>2, <1>3
  <2>3. (IF framed THEN <<"block">> ELSE <<>>) \in Seq(Op)
    BY <1>1, <1>2, <1>3
  <2>4. <<"block">> \in Seq(Op)
    BY <1>1, <1>3
  <2>5. QED BY <2>2, <2>3, <2>4, ConcatProperties DEF Reply
<1>7. QED BY <1>4, <1>5, <1>6

LEMMA WorkTodo ==
  ASSUME NEW raw \in BOOLEAN, NEW lock \in BOOLEAN, Work(raw, lock)
  PROVE  todo' \in Seq(Op)
<1>1. CASE \E framed \in BOOLEAN : todo' = Reply(raw, framed) \o Unlock(lock, TRUE)
  <2>1. PICK framed \in BOOLEAN : todo' = Reply(raw, framed) \o Unlock(lock, TRUE)
    BY <1>1
  <2>2. Reply(raw, framed) \in Seq(Op) /\ Unlock(lock, TRUE) \in Seq(Op)
    BY OpSequences
  <2>3. QED BY <2>1, <2>2, ConcatProperties
<1>2. CASE todo' = Unlock(lock, FALSE) \o ErrorReply(raw)
  <2>1. Unlock(lock, FALSE) \in Seq(Op) /\ ErrorReply(raw) \in Seq(Op)
    BY OpSequences
  <2>2. QED BY <1>2, <2>1, ConcatProperties
<1>3. QED BY <1>1, <1>2 DEF Work

LEMMA RefusedTodo ==
  ASSUME NEW raw \in BOOLEAN, Refused(raw)
  PROVE  /\ todo' \in Seq(Op) /\ place' = "work"
         /\ UNCHANGED <<dataVars, client, ended, server, main, locked, sndtimeo>>
BY OpSequences DEF Refused, dataVars, keptVars, clientVars, lineVars, serverVars

LEMMA QuietControl ==
  ASSUME ReplySide,
         \/ ClientTurns \/ Command \/ WaitForLock \/ ClientLost \/ ReleaseLock
         \/ CommandDone \/ CloseSocket \/ Granted \/ LockTimeout \/ Accept
         \/ AcceptFails \/ Join \/ Terminate
  PROVE  /\ ControlInv' /\ UNCHANGED dataVars /\ PlaceInv'
         /\ place' \in {"read", "close", "done"} =>
              place \in {"read", "close", "done"}
<1> USE DEF ReplySide, ControlInv, PlaceInv, dataVars, clientVars, lineVars,
            serverVars, keptVars, connectionVars
<1>1. CASE ClientTurns BY <1>1, ZenonT(60) DEF ClientTurns
<1>2. CASE Command
  <2>1. todo' \in Seq(Op)
    BY <1>2, OpSequences, WorkTodo DEF Command
  <2>2. QED BY <1>2, <2>1 DEF Command
<1>3. CASE WaitForLock BY <1>3 DEF WaitForLock
<1>4. CASE ClientLost
  <2>1. PICK raw \in BOOLEAN : Refused(raw)
    BY <1>4 DEF ClientLost
  <2>2. place = "lock"
    BY <1>4 DEF ClientLost
  <2>3. QED BY <2>1, <2>2, RefusedTodo
<1>5. CASE ReleaseLock
  <2>1. todo' \in Seq(Op)
    BY <1>5, HeadTailProperties DEF ReleaseLock, Step
  <2>2. QED BY <1>5, <2>1 DEF ReleaseLock, Step
<1>6. CASE CommandDone
  <2>1. todo' \in Seq(Op)
    BY <1>6, HeadTailProperties DEF CommandDone, Step
  <2>2. QED BY <1>6, <2>1 DEF CommandDone, Step, Blocked
<1>7. CASE CloseSocket BY <1>7 DEF CloseSocket
<1>8. CASE Granted
  <2>1. todo' \in Seq(Op)
    BY <1>8, WorkTodo DEF Granted
  <2>2. QED BY <1>8, <2>1 DEF Granted
<1>9. CASE LockTimeout
  <2>1. PICK raw \in BOOLEAN : Refused(raw)
    BY <1>9 DEF LockTimeout
  <2>2. place = "lock"
    BY <1>9 DEF LockTimeout
  <2>3. QED BY <2>1, <2>2, RefusedTodo
<1>10. CASE Accept BY <1>10 DEF Accept
<1>11. CASE AcceptFails BY <1>11 DEF AcceptFails
<1>12. CASE Join BY <1>12 DEF Join
<1>13. CASE Terminate BY <1>13 DEF Terminate
<1>14. QED
  BY <1>1, <1>2, <1>3, <1>4, <1>5, <1>6, <1>7, <1>8, <1>9, <1>10, <1>11, <1>12,
     <1>13

LEMMA QuietStep ==
  ASSUME ReplySide,
         \/ ClientTurns \/ Command \/ WaitForLock \/ ClientLost \/ ReleaseLock
         \/ CommandDone \/ CloseSocket \/ Granted \/ LockTimeout \/ Accept
         \/ AcceptFails \/ Join \/ Terminate
  PROVE  ReplySide' /\ UNCHANGED dataVars
<1>1. /\ ControlInv' /\ UNCHANGED dataVars /\ PlaceInv'
      /\ place' \in {"read", "close", "done"} => place \in {"read", "close", "done"}
  BY QuietControl
<1>2. OutputInv' /\ ConnInv'
  BY <1>1 DEF ReplySide, OutputInv, ConnInv, dataVars
<1>3. ReplyInv'
  BY <1>1 DEF ReplySide, ReplyInv, dataVars
<1>4. QED BY <1>1, <1>2, <1>3 DEF ReplySide

\* The fields of the buffered file after one of them is set.
LEMMA SetConn ==
  ASSUME ConnInv
  PROVE  /\ \A v : /\ [conn EXCEPT !.in = v].in = v
                   /\ [conn EXCEPT !.in = v].out = conn.out
                   /\ [conn EXCEPT !.in = v].eof = conn.eof
                   /\ [conn EXCEPT !.in = v].error = conn.error
         /\ \A v : /\ [conn EXCEPT !.out = v].in = conn.in
                   /\ [conn EXCEPT !.out = v].out = v
                   /\ [conn EXCEPT !.out = v].eof = conn.eof
                   /\ [conn EXCEPT !.out = v].error = conn.error
         /\ /\ [conn EXCEPT !.error = TRUE].in = conn.in
            /\ [conn EXCEPT !.error = TRUE].out = conn.out
            /\ [conn EXCEPT !.error = TRUE].eof = conn.eof
            /\ [conn EXCEPT !.error = TRUE].error = TRUE
         /\ /\ [conn EXCEPT !.eof = TRUE].in = conn.in
            /\ [conn EXCEPT !.eof = TRUE].out = conn.out
            /\ [conn EXCEPT !.eof = TRUE].eof = TRUE
            /\ [conn EXCEPT !.eof = TRUE].error = conn.error
         /\ conn.eof \in BOOLEAN /\ conn.error \in BOOLEAN
BY DEF ConnInv

LEMMA ConnKept ==
  ASSUME ConnInv,
         \/ conn' = conn
         \/ \E v : conn' = [conn EXCEPT !.in = v]
         \/ \E v : conn' = [conn EXCEPT !.out = v]
         \/ \E v, w : conn' = [conn EXCEPT !.in = v, !.out = w]
         \/ conn' = [conn EXCEPT !.error = TRUE]
         \/ conn' = [conn EXCEPT !.eof = TRUE]
  PROVE  ConnInv'
<1>1. PICK in, out, eof, error :
        /\ conn = [in |-> in, out |-> out, eof |-> eof, error |-> error]
        /\ eof \in BOOLEAN /\ error \in BOOLEAN
  BY DEF ConnInv
<1>2. CASE conn' = conn BY <1>2 DEF ConnInv
<1>3. ASSUME NEW v, conn' = [conn EXCEPT !.in = v] PROVE ConnInv'
  <2>1. conn' = [in |-> v, out |-> out, eof |-> eof, error |-> error]
    BY <1>1, <1>3
  <2>2. QED BY <1>1, <2>1 DEF ConnInv
<1>4. ASSUME NEW v, conn' = [conn EXCEPT !.out = v] PROVE ConnInv'
  <2>1. conn' = [in |-> in, out |-> v, eof |-> eof, error |-> error]
    BY <1>1, <1>4
  <2>2. QED BY <1>1, <2>1 DEF ConnInv
<1>5. ASSUME NEW v, NEW w, conn' = [conn EXCEPT !.in = v, !.out = w] PROVE ConnInv'
  <2>1. conn' = [in |-> v, out |-> w, eof |-> eof, error |-> error]
    BY <1>1, <1>5
  <2>2. QED BY <1>1, <2>1 DEF ConnInv
<1>6. CASE conn' = [conn EXCEPT !.error = TRUE]
  <2>1. conn' = [in |-> in, out |-> out, eof |-> eof, error |-> TRUE]
    BY <1>1, <1>6
  <2>2. QED BY <1>1, <2>1 DEF ConnInv
<1>7. CASE conn' = [conn EXCEPT !.eof = TRUE]
  <2>1. conn' = [in |-> in, out |-> out, eof |-> TRUE, error |-> error]
    BY <1>1, <1>7
  <2>2. QED BY <1>1, <2>1 DEF ConnInv
<1>8. QED BY <1>2, <1>3, <1>4, <1>5, <1>6, <1>7

LEMMA SendStep ==
  ASSUME ReplySide, Send
  PROVE  ReplySide'
<1> USE DEF ReplySide
<1>1. /\ UNCHANGED <<client, ended, asked, line, handled, wire, place, todo,
                     locked, sndtimeo, said, server, main>>
      /\ sending # <<>>
  BY DEF Send, clientVars, lineVars, serverVars
<1>2. ControlInv'
  BY <1>1 DEF ControlInv
<1>3. CASE \E k \in 1 .. Len(sending) :
             /\ sent' = sent \o SubSeq(sending, 1, k)
             /\ sending' = SubSeq(sending, k + 1, Len(sending))
             /\ UNCHANGED conn
  <2>1. PICK k \in 1 .. Len(sending) :
             /\ sent' = sent \o SubSeq(sending, 1, k)
             /\ sending' = SubSeq(sending, k + 1, Len(sending))
             /\ UNCHANGED conn
    BY <1>3
  <2>2. sent \in Seq(Nat) /\ sending \in Seq(Nat) /\ k \in 0 .. Len(sending)
    BY LenProperties DEF OutputInv
  <2>3. /\ SubSeq(sending, 1, k) \in Seq(Nat) /\ sending' \in Seq(Nat)
        /\ SubSeq(sending, 1, k) \o sending' = sending
    BY <2>1, <2>2, CutJoin
  <2>4. sent' \in Seq(Nat) /\ sent' \o sending' = sent \o sending
    <3>1. PICK a : a = SubSeq(sending, 1, k)
      OBVIOUS
    <3>2. PICK b : b = sending'
      OBVIOUS
    <3>3. (sent \o a) \o b = sent \o (a \o b)
      <4>1. a \in Seq(Nat) /\ b \in Seq(Nat)
        BY <2>3, <3>1, <3>2
      <4>2. QED BY ONLY <2>2, <4>1, Assoc
    <3>4. sent \o a \in Seq(Nat)
      BY <2>2, <2>3, <3>1, ConcatProperties
    <3>5. QED BY <2>1, <2>3, <3>1, <3>2, <3>3, <3>4
  <2>5. OutputInv' /\ ConnInv'
    BY <1>1, <2>1, <2>3, <2>4 DEF OutputInv, ConnInv
  <2>6. PlaceInv'
    BY <1>1, <2>1 DEF PlaceInv
  <2>7. ReplyInv'
    BY <1>1, <2>1, <2>4 DEF ReplyInv
  <2>8. QED BY <1>2, <2>5, <2>6, <2>7
<1>4. CASE /\ conn' = [conn EXCEPT !.error = TRUE]
           /\ sending' = <<>> /\ UNCHANGED sent
  <2>1. conn'.out = conn.out /\ conn'.in = conn.in /\ conn'.error = TRUE
    BY <1>4, SetConn
  <2>2. ConnInv'
    BY <1>4, ConnKept
  <2>3. OutputInv' /\ PlaceInv' /\ ReplyInv'
    BY <1>1, <1>4, <2>1 DEF OutputInv, PlaceInv, ReplyInv
  <2>4. QED BY <1>2, <2>2, <2>3
<1>5. QED BY <1>3, <1>4 DEF Send

\* The buffer is handed to write() whole.
LEMMA FlushOut ==
  ASSUME ReplySide, sending = <<>>
  PROVE  /\ conn.out \in Seq(Nat) /\ sent \in Seq(Nat)
         /\ ~conn.error => (sent \o conn.out) \o <<>> = UpTo(said)
<1> USE DEF ReplySide
<1>1. conn.out \in Seq(Nat) /\ sent \in Seq(Nat)
  <2>1. \A n \in Nat : 1 .. n \subseteq Nat
    OBVIOUS
  <2>2. QED BY <2>1, SeqMonotonic DEF OutputInv
<1>2. ASSUME ~conn.error
      PROVE  (sent \o conn.out) \o <<>> = UpTo(said)
  <2>1. sent \o sending = sent
    BY <1>1, ConcatEmptySeq
  <2>2. sent \o conn.out = UpTo(said)
    BY <1>2, <2>1 DEF ReplyInv
  <2>3. sent \o conn.out \in Seq(Nat)
    BY <1>1, ConcatProperties
  <2>4. QED BY <2>2, <2>3, ConcatEmptySeq
<1>3. QED BY <1>1, <1>2

LEMMA DeleteStep ==
  ASSUME ReplySide, DeleteConnection
  PROVE  ReplySide'
<1> USE DEF ReplySide
<1>1. /\ place = "delete" /\ place' = "close"
      /\ sending' = IF conn.error THEN <<>> ELSE conn.out
      /\ conn' = [conn EXCEPT !.out = <<>>]
      /\ UNCHANGED <<client, ended, asked, line, handled, wire, todo,
                     locked, sndtimeo, sent, said, server, main>>
  BY DEF DeleteConnection, keptVars, clientVars, lineVars, serverVars
<1>2. ControlInv'
  BY <1>1 DEF ControlInv
<1>3. conn'.out = <<>> /\ conn'.in = conn.in /\ conn'.error = conn.error
  BY <1>1, SetConn
<1>4. ConnInv'
  BY <1>1, ConnKept
<1>5. sending = <<>> /\ conn.out \in Seq(Nat) /\ sent \in Seq(Nat)
  BY <1>1, FlushOut DEF PlaceInv
<1>6. OutputInv'
  <2>1. sending' \in Seq(Nat)
    BY <1>1, <1>5, EmptySeq
  <2>2. Len(conn'.out) = 0 /\ conn'.out \in Seq(1 .. said)
    BY <1>3
  <2>3. QED BY <1>1, <2>1, <2>2, SocketAssumption DEF OutputInv
<1>7. PlaceInv'
  BY <1>1, <1>3 DEF PlaceInv
<1>8. ReplyInv'
  BY <1>1, <1>3, <1>5, FlushOut DEF ReplyInv
<1>9. QED BY <1>2, <1>4, <1>6, <1>7, <1>8

\* A write moves the front of the buffer and the new characters on.
LEMMA WriteReply ==
  ASSUME ReplySide, place = "work", place' = "work", sending = <<>>,
         NEW n \in Nat, NEW first \in Seq(Nat), NEW rest \in Seq(1 .. said + n),
         Len(rest) < OutSize, first \o rest = conn.out \o Numbers(n),
         Write(first, rest, n), ControlInv',
         UNCHANGED <<line, sent>>
  PROVE  ReplySide' /\ conn'.in = conn.in
<1> USE DEF ReplySide
<1>1. CASE conn.error
  <2>1. UNCHANGED <<conn, sending, said>>
    BY <1>1 DEF Write
  <2>2. QED BY <1>1, <2>1 DEF OutputInv, ConnInv, PlaceInv, ReplyInv
<1>2. CASE ~conn.error
  <2>1. sending' = first /\ conn' = [conn EXCEPT !.out = rest] /\ said' = said + n
    BY <1>2 DEF Write
  <2>2. conn'.out = rest /\ conn'.in = conn.in /\ conn'.error = conn.error
    BY <2>1, SetConn
  <2>3. ConnInv'
    BY <2>1, ConnKept
  <2>4. said \in Nat /\ said + n \in Nat /\ sent \in Seq(Nat)
    BY DEF OutputInv
  <2>5. OutputInv'
    BY <2>1, <2>2, <2>4 DEF OutputInv
  <2>6. PlaceInv'
    BY <2>2 DEF PlaceInv
  <2>7. conn.out \in Seq(Nat) /\ rest \in Seq(Nat)
    <3>1. \A m \in Nat : 1 .. m \subseteq Nat
      OBVIOUS
    <3>2. QED BY <2>4, <3>1, SeqMonotonic DEF OutputInv
  <2>8. /\ UpTo(said) \in Seq(Nat) /\ Numbers(n) \in Seq(Nat)
        /\ UpTo(said) \o Numbers(n) = UpTo(said + n)
    BY <2>4, CountOn DEF Numbers, After
  <2>9. (sent \o first) \o rest = UpTo(said + n)
    <3>1. (sent \o first) \o rest = sent \o (first \o rest)
      BY ONLY <2>4, <2>7, first \in Seq(Nat), Assoc
    <3>2. sent \o (conn.out \o Numbers(n)) = (sent \o conn.out) \o Numbers(n)
      BY ONLY <2>4, <2>7, <2>8, Assoc
    <3>3. sent \o sending = sent
      BY <2>4, ConcatEmptySeq
    <3>4. sent \o conn.out = UpTo(said)
      BY <1>2, <3>3 DEF ReplyInv
    <3>5. QED BY <2>8, <3>1, <3>2, <3>4
  <2>10. ~line.flushed
    BY DEF PlaceInv
  <2>11. ReplyInv'
    BY <2>1, <2>2, <2>9, <2>10 DEF ReplyInv
  <2>12. QED BY <2>2, <2>3, <2>5, <2>6, <2>11
<1>3. QED BY <1>1, <1>2

\* What a write has in common: the place, the command and the rest.
LEMMA WriteContext ==
  ASSUME ReplySide, WriteStep
  PROVE  /\ place = "work" /\ place' = "work" /\ sending = <<>> /\ ControlInv'
         /\ UNCHANGED <<line, sent, handled, wire, asked>>
         /\ said \in Nat /\ conn.out \in Seq(1 .. said) /\ Len(conn.out) \in Nat
         /\ conn.out \in Seq(Nat) /\ Len(conn.out) < OutSize
<1> USE DEF ReplySide
<1>1. /\ \E op : Step(op)
      /\ UNCHANGED <<keptVars, place, locked, sndtimeo>>
  BY DEF WriteStep, WriteChar, WriteFormatted, WriteBlock
<1>2. /\ place = "work" /\ sending = <<>> /\ todo # <<>> /\ todo' = Tail(todo)
  BY <1>1 DEF Step, Blocked
<1>3. todo' \in Seq(Op)
  BY <1>2, HeadTailProperties DEF ControlInv
<1>4. UNCHANGED <<client, ended, asked, line, handled, wire, sent, server, main>>
  BY <1>1 DEF keptVars, clientVars, lineVars, serverVars
<1>5. ControlInv'
  BY <1>1, <1>3, <1>4 DEF ControlInv
<1>6. said \in Nat /\ conn.out \in Seq(1 .. said) /\ Len(conn.out) < OutSize
  BY DEF OutputInv
<1>7. conn.out \in Seq(Nat) /\ Len(conn.out) \in Nat
  BY <1>6, SeqMonotonic, LenProperties
<1>8. QED BY <1>1, <1>2, <1>4, <1>5, <1>6, <1>7

LEMMA NumbersAfter ==
  ASSUME NEW n \in Nat, said \in Nat, conn.out \in Seq(1 .. said)
  PROVE  /\ Numbers(n) \in Seq(1 .. said + n) /\ Numbers(n) \in Seq(Nat)
         /\ Len(Numbers(n)) = n
         /\ conn.out \o Numbers(n) \in Seq(1 .. said + n)
         /\ conn.out \o Numbers(n) \in Seq(Nat)
         /\ Len(conn.out \o Numbers(n)) = Len(conn.out) + n
<1>1. /\ Numbers(n) \in Seq(1 .. said + n) /\ Numbers(n) \in Seq(Nat)
      /\ Len(Numbers(n)) = n
  BY CountOn DEF Numbers, After
<1>2. 1 .. said \subseteq 1 .. said + n /\ 1 .. said + n \subseteq Nat
  OBVIOUS
<1>3. conn.out \in Seq(1 .. said + n)
  BY <1>2, SeqMonotonic
<1>4. /\ conn.out \o Numbers(n) \in Seq(1 .. said + n)
      /\ Len(conn.out \o Numbers(n)) = Len(conn.out) + n
  <2>1. PICK S : S = 1 .. said + n
    OBVIOUS
  <2>2. conn.out \in Seq(S) /\ Numbers(n) \in Seq(S)
    BY <1>1, <1>3, <2>1
  <2>3. /\ conn.out \o Numbers(n) \in Seq(S)
        /\ Len(conn.out \o Numbers(n)) = Len(conn.out) + Len(Numbers(n))
    BY ONLY <2>2, Joined
  <2>4. QED BY <1>1, <2>1, <2>3
<1>5. conn.out \o Numbers(n) \in Seq(Nat)
  BY <1>2, <1>4, SeqMonotonic
<1>6. QED BY <1>1, <1>4, <1>5

LEMMA WriteStepReply ==
  ASSUME ReplySide, WriteStep
  PROVE  ReplySide' /\ conn'.in = conn.in
<1>1. /\ place = "work" /\ place' = "work" /\ sending = <<>> /\ ControlInv'
      /\ UNCHANGED <<line, sent>>
      /\ said \in Nat /\ conn.out \in Seq(1 .. said) /\ Len(conn.out) \in Nat
      /\ conn.out \in Seq(Nat) /\ Len(conn.out) < OutSize
  BY WriteContext
<1>2. /\ OutSize \in Nat \ {0} /\ ErrorLength \in Nat /\ BlockLength \in Nat
      /\ ErrorLength < OutSize
  BY SocketAssumption
<1>3. ASSUME NEW n \in Nat
      PROVE  /\ Write(conn.out \o Numbers(n), <<>>, n) =>
                  ReplySide' /\ conn'.in = conn.in
             /\ Len(conn.out) + n < OutSize /\ Write(<<>>, conn.out \o Numbers(n), n) =>
                  ReplySide' /\ conn'.in = conn.in
             /\ n < OutSize /\ Write(conn.out, Numbers(n), n) =>
                  ReplySide' /\ conn'.in = conn.in
  <2>1. /\ Numbers(n) \in Seq(1 .. said + n) /\ Numbers(n) \in Seq(Nat)
        /\ Len(Numbers(n)) = n
        /\ conn.out \o Numbers(n) \in Seq(1 .. said + n)
        /\ conn.out \o Numbers(n) \in Seq(Nat)
        /\ Len(conn.out \o Numbers(n)) = Len(conn.out) + n
    BY <1>1, NumbersAfter
  <2>2. /\ (conn.out \o Numbers(n)) \o <<>> = conn.out \o Numbers(n)
        /\ <<>> \o (conn.out \o Numbers(n)) = conn.out \o Numbers(n)
    BY <2>1, ConcatEmptySeq
  <2>3. <<>> \in Seq(1 .. said + n) /\ <<>> \in Seq(Nat) /\ Len(<<>>) = 0
    BY EmptySeq
  <2>4. ASSUME Write(conn.out \o Numbers(n), <<>>, n)
        PROVE  ReplySide' /\ conn'.in = conn.in
    <3>1. PICK first : first = conn.out \o Numbers(n)
      OBVIOUS
    <3>2. PICK rest : rest = <<>>
      OBVIOUS
    <3>3. /\ first \in Seq(Nat) /\ rest \in Seq(1 .. said + n)
          /\ first \o rest = conn.out \o Numbers(n) /\ Write(first, rest, n)
      BY <2>1, <2>2, <2>3, <2>4, <3>1, <3>2
    <3>4. Len(rest) < OutSize
      BY <1>2, <2>3, <3>2
    <3>5. QED BY <1>1, <3>3, <3>4, WriteReply
  <2>5. ASSUME Len(conn.out) + n < OutSize, Write(<<>>, conn.out \o Numbers(n), n)
        PROVE  ReplySide' /\ conn'.in = conn.in
    BY <1>1, <1>2, <2>1, <2>2, <2>3, <2>5, WriteReply
  <2>6. ASSUME n < OutSize, Write(conn.out, Numbers(n), n)
        PROVE  ReplySide' /\ conn'.in = conn.in
    BY <1>1, <1>2, <2>1, <2>6, WriteReply
  <2>7. QED BY <2>4, <2>5, <2>6
<1>4. CASE WriteChar
  <2>1. Len(conn.out \o Numbers(1)) = Len(conn.out) + 1
    BY <1>1, NumbersAfter
  <2>2. \/ Write(conn.out \o Numbers(1), <<>>, 1)
        \/ Len(conn.out) + 1 < OutSize /\ Write(<<>>, conn.out \o Numbers(1), 1)
    BY <1>1, <1>2, <1>4, <2>1 DEF WriteChar
  <2>3. QED BY <1>3, <2>2
<1>5. CASE WriteFormatted
  <2>1. \/ /\ Len(conn.out) + ErrorLength < OutSize
           /\ Write(<<>>, conn.out \o Numbers(ErrorLength), ErrorLength)
        \/ Write(conn.out, Numbers(ErrorLength), ErrorLength)
    BY <1>1, <1>2, <1>5 DEF WriteFormatted
  <2>2. QED BY <1>2, <1>3, <2>1
<1>6. CASE WriteBlock
  <2>1. Write(conn.out \o Numbers(BlockLength), <<>>, BlockLength)
    BY <1>6 DEF WriteBlock
  <2>2. QED BY <1>2, <1>3, <2>1
<1>7. QED BY <1>4, <1>5, <1>6 DEF WriteStep

-----------------------------------------------------------------------------
\* What a step of read_line() does with a line or its overrun.
LEMMA ReadLineCases ==
  ASSUME ReadLine
  PROVE  /\ place = "parse"
         /\ UNCHANGED <<client, ended, asked, todo, locked, sndtimeo, sent, said,
                        server, main>>
         /\ \/ /\ place' = "delete"
               /\ UNCHANGED <<line, handled, wire, conn, sending>>
            \/ Overrun
            \/ /\ ~conn.error
               /\ \E n \in 0 .. Len(conn.in) : NewlineAfter(n) /\ Fits(n) /\ TakeLine(n)
            \/ /\ ~conn.error /\ \A i \in DOMAIN conn.in : conn.in[i] # 0
               /\ Fits(Len(conn.in)) /\ SetAside
<1>1. /\ place = "parse"
      /\ UNCHANGED <<client, ended, asked, todo, locked, sndtimeo, sent, said,
                     server, main>>
  BY DEF ReadLine, commandVars, clientVars, serverVars
<1>2. CASE conn.eof \/ conn.error
  BY <1>1, <1>2 DEF ReadLine, lineVars
<1>3. CASE ~(conn.eof \/ conn.error)
  <2>1. CASE \E n \in 0 .. Len(conn.in) :
               NewlineAfter(n) /\ IF Fits(n) THEN TakeLine(n) ELSE Overrun
    BY <1>1, <1>3, <2>1
  <2>2. CASE /\ \A i \in DOMAIN conn.in : conn.in[i] # 0
             /\ IF Fits(Len(conn.in)) THEN SetAside ELSE Overrun
    BY <1>1, <1>3, <2>2
  <2>3. QED BY <1>3, <2>1, <2>2 DEF ReadLine
<1>4. QED BY <1>2, <1>3

LEMMA ReadLineReply ==
  ASSUME ReplySide, ReadLine
  PROVE  ReplySide'
<1> USE DEF ReplySide
<1>1. /\ place = "parse" /\ sending = <<>>
      /\ UNCHANGED <<client, ended, asked, todo, locked, sndtimeo, sent, said,
                     server, main>>
  BY ReadLineCases DEF PlaceInv
<1>2. ASSUME place' = "delete", UNCHANGED <<line, handled, wire, conn, sending>>
      PROVE  ReplySide'
  BY <1>1, <1>2, ZenonT(60) DEF ControlInv, OutputInv, ConnInv, PlaceInv, ReplyInv
<1>3. CASE Overrun
  <2>1. /\ conn' = [conn EXCEPT !.error = TRUE] /\ place' = "delete"
        /\ UNCHANGED <<line, handled, wire, sending>>
    BY <1>3 DEF Overrun, lineVars
  <2>2. conn'.out = conn.out /\ conn'.error = TRUE
    BY <2>1, SetConn
  <2>3. ConnInv'
    BY <2>1, ConnKept
  <2>4. QED BY <1>1, <2>1, <2>2, <2>3
            DEF ControlInv, OutputInv, PlaceInv, ReplyInv
<1>4. ASSUME NEW n \in 0 .. Len(conn.in), TakeLine(n)
      PROVE  ReplySide'
  <2>1. PICK v : conn' = [conn EXCEPT !.in = v]
    BY <1>4 DEF TakeLine
  <2>2. place' = "command" /\ line'.flushed = FALSE /\ sending' = sending
    BY <1>4 DEF TakeLine
  <2>3. conn'.out = conn.out /\ conn'.error = conn.error
    BY <2>1, SetConn
  <2>4. ConnInv'
    BY <2>1, ConnKept
  <2>5. QED BY <1>1, <2>2, <2>3, <2>4
            DEF ControlInv, OutputInv, PlaceInv, ReplyInv
<1>5. ASSUME ~conn.error, SetAside
      PROVE  ReplySide'
  <2>1. PICK v, w : conn' = [conn EXCEPT !.in = v, !.out = w]
    BY <1>5 DEF SetAside
  <2>2. ConnInv'
    BY <2>1, ConnKept
  <2>3. /\ place' = "read" /\ line'.flushed = TRUE
        /\ sending' = IF line.flushed THEN <<>> ELSE conn.out
        /\ conn'.in = <<>> /\ conn'.error = conn.error
        /\ conn'.out = IF line.flushed THEN conn.out ELSE <<>>
    BY <1>5 DEF SetAside, ConnInv
  <2>4. line.flushed => conn.out = <<>>
    BY <1>5 DEF ReplyInv
  <2>5. conn'.out = <<>> /\ sending' = conn.out
    BY <2>3, <2>4
  <2>6. /\ conn.out \in Seq(Nat) /\ sent \in Seq(Nat)
        /\ (sent \o conn.out) \o <<>> = UpTo(said)
    BY <1>1, <1>5, FlushOut
  <2>7. ReplyInv'
    BY <1>1, <2>3, <2>5, <2>6 DEF ReplyInv
  <2>8. OutputInv'
    <3>1. Len(conn'.out) = 0 /\ conn'.out \in Seq(1 .. said)
      BY <2>5
    <3>2. QED BY <1>1, <2>5, <2>6, <3>1, SocketAssumption DEF OutputInv
  <2>9. ControlInv' /\ PlaceInv'
    BY <1>1, <2>3 DEF ControlInv, PlaceInv
  <2>10. QED BY <2>2, <2>7, <2>8, <2>9
<1>6. QED BY <1>2, <1>3, <1>4, <1>5, ReadLineCases

LEMMA FillReply ==
  ASSUME ReplySide, FillInBuf
  PROVE  ReplySide'
<1> USE DEF ReplySide
<1>1. /\ place = "read" /\ place' = "parse" /\ sending = <<>>
      /\ UNCHANGED <<client, ended, asked, todo, locked, sndtimeo, sent, said,
                     server, main, line, handled, sending>>
  BY DEF FillInBuf, commandVars, clientVars, serverVars, Blocked
<1>2. \/ conn' = conn
      \/ \E v : conn' = [conn EXCEPT !.in = v]
      \/ conn' = [conn EXCEPT !.error = TRUE]
      \/ conn' = [conn EXCEPT !.eof = TRUE]
  BY DEF FillInBuf
<1>3. ConnInv'
  BY <1>2, ConnKept
<1>4. conn'.out = conn.out /\ (conn'.error = conn.error \/ conn'.error = TRUE)
  <2>1. CASE conn' = conn BY <2>1
  <2>2. ASSUME NEW v, conn' = [conn EXCEPT !.in = v]
        PROVE  conn'.out = conn.out /\ conn'.error = conn.error
    BY <2>2, SetConn
  <2>3. CASE conn' = [conn EXCEPT !.error = TRUE] BY <2>3, SetConn
  <2>4. CASE conn' = [conn EXCEPT !.eof = TRUE] BY <2>4, SetConn
  <2>5. QED BY <1>2, <2>1, <2>2, <2>3, <2>4
<1>5. OutputInv' /\ ReplyInv'
  BY <1>1, <1>4 DEF OutputInv, ReplyInv
<1>6. ControlInv' /\ PlaceInv'
  BY <1>1 DEF ControlInv, PlaceInv
<1>7. QED BY <1>3, <1>5, <1>6

LEMMA ReplyStutter ==
  ASSUME ReplySide,
         UNCHANGED <<client, ended, conn, line, handled, place, todo, locked,
                     sndtimeo, sending, sent, said, server, main>>
  PROVE  ReplySide'
<1>1. ControlInv'
  BY DEF ReplySide, ControlInv
<1>2. OutputInv' /\ ConnInv'
  BY DEF ReplySide, OutputInv, ConnInv
<1>3. PlaceInv' /\ ReplyInv'
  BY DEF ReplySide, PlaceInv, ReplyInv
<1>4. QED BY <1>1, <1>2, <1>3 DEF ReplySide

LEMMA SendLineReply ==
  ASSUME ReplySide, SendLine
  PROVE  ReplySide'
<1>1. UNCHANGED <<client, ended, conn, line, handled, place, todo, locked,
                  sndtimeo, sending, sent, said, server, main>>
  BY DEF SendLine, serverVars
<1>2. QED BY <1>1, ReplyStutter

LEMMA ReplyNext ==
  ASSUME ReplySide, [ServerNext]_srvVars
  PROVE  ReplySide'
<1>1. CASE UNCHANGED srvVars
  BY <1>1, ReplyStutter DEF srvVars, clientVars, lineVars, serverVars
<1>2. CASE ServerNext
  BY <1>2, SendLineReply, SendStep, ReadLineReply, FillReply, WriteStepReply,
     DeleteStep, QuietStep DEF ServerNext, Connection, Server
<1>3. QED BY <1>1, <1>2

LEMMA ReplyInit ==
  ASSUME ServerInit
  PROVE  ReplySide
<1>1. ControlInv
  <2>1. todo \in Seq(Op)
    BY EmptySeq DEF ServerInit
  <2>2. QED BY <2>1 DEF ServerInit, ControlInv
<1>2. ConnInv /\ PlaceInv
  BY DEF ServerInit, ConnInv, PlaceInv
<1>3. conn.out = <<>> /\ Len(<<>>) = 0 /\ said = 0
  BY DEF ServerInit
<1>4. OutputInv
  BY <1>3, SocketAssumption DEF ServerInit, OutputInv
<1>5. ReplyInv
  <2>1. UpTo(0) = <<>>
    BY DEF UpTo
  <2>2. (<<>> \o <<>>) \o <<>> = <<>>
    BY ConcatEmptySeq
  <2>3. QED BY <1>3, <2>1, <2>2 DEF ServerInit, ReplyInv
<1>6. QED BY <1>1, <1>2, <1>4, <1>5 DEF ReplySide

(***************************************************************************)
(* The lines.  Everything sent and not yet handled, in one sequence: what  *)
(* has been set aside, the input buffer and what is on the wire.  The nth  *)
(* line starts start[n] characters into all that is sent.                  *)
(***************************************************************************)
Layout(start, lens, h, rest) ==
  /\ start \in [1 .. Len(lens) + 1 -> Nat]
  /\ \A n \in 1 .. Len(lens) : start[n + 1] = start[n] + lens[n] + 1
  /\ \A m, n \in 1 .. Len(lens) + 1 : m <= n => start[m] <= start[n]
  /\ h \in 0 .. Len(lens)
  /\ Len(rest) + start[h + 1] = start[Len(lens) + 1]
  /\ \A n \in h + 1 .. Len(lens) :
       /\ \A i \in 1 .. lens[n] : rest[(start[n] - start[h + 1]) + i] = n
       /\ rest[(start[n] - start[h + 1]) + lens[n] + 1] = 0

\* The characters up to the first newline are the next line.
LEMMA TakeOne ==
  ASSUME NEW lens \in Seq(Nat), NEW start, NEW h,
         NEW u \in Seq(Nat), NEW v \in Seq(Nat), Layout(start, lens, h, u \o v),
         Len(u) # 0, u[Len(u)] = 0, \A i \in 1 .. Len(u) - 1 : u[i] # 0
  PROVE  /\ h + 1 \in 1 .. Len(lens) /\ Len(u) = lens[h + 1] + 1
         /\ \A i \in 1 .. lens[h + 1] : u[i] = h + 1
         /\ Layout(start, lens, h + 1, v)
<1> DEFINE L == Len(lens)
<1>0. PICK rest : rest = u \o v /\ Layout(start, lens, h, rest)
  OBVIOUS
<1>1. L \in Nat /\ Len(u) \in Nat /\ Len(v) \in Nat /\ \A n \in 1 .. L : lens[n] \in Nat
  BY LenProperties, ElementOfSeq
<1>2. /\ Len(rest) = Len(u) + Len(v)
      /\ \A i \in 1 .. Len(u) : rest[i] = u[i]
      /\ \A i \in 1 .. Len(v) : rest[Len(u) + i] = v[i]
  BY <1>0, Joined
<1>3. /\ start \in [1 .. L + 1 -> Nat] /\ h \in 0 .. L
      /\ \A n \in 1 .. L : start[n + 1] = start[n] + lens[n] + 1
      /\ \A m, n \in 1 .. L + 1 : m <= n => start[m] <= start[n]
      /\ Len(rest) + start[h + 1] = start[L + 1]
  BY <1>0 DEF Layout
<1>4. \A n \in h + 1 .. L :
        /\ \A i \in 1 .. lens[n] : rest[(start[n] - start[h + 1]) + i] = n
        /\ rest[(start[n] - start[h + 1]) + lens[n] + 1] = 0
  BY <1>0 DEF Layout
<1> HIDE DEF L
<1>5. \A n \in 1 .. L + 1 : start[n] \in Nat
  BY <1>3
<1>6. h + 1 \in 1 .. L
  <2>1. h # L
    BY <1>1, <1>2, <1>3, <1>5
  <2>2. QED BY <1>1, <1>3, <2>1
<1>7. h + 1 \in 1 .. L + 1 /\ h + 2 \in 1 .. L + 1 /\ L + 1 \in 1 .. L + 1
  <2>1. h \in Nat /\ h + 1 <= L
    BY <1>1, <1>3, <1>6
  <2>2. QED BY <1>1, <2>1
<1>8. PICK a \in Nat : a = lens[h + 1]
  BY <1>1, <1>6
<1>9. start[h + 2] = start[h + 1] + a + 1
  <2>1. (h + 1) + 1 = h + 2
    BY <1>3
  <2>2. QED BY <1>3, <1>6, <1>8, <2>1
<1>10. start[h + 2] <= start[L + 1]
  <2>1. h + 2 <= L + 1
    BY <1>1, <1>7
  <2>2. QED BY <1>3, <1>7, <2>1
<1>11. a + 1 <= Len(rest)
  BY <1>1, <1>2, <1>3, <1>5, <1>7, <1>9, <1>10, SMTT(30)
<1>12. (\A i \in 1 .. a : rest[i] = h + 1) /\ rest[a + 1] = 0
  <2>1. h + 1 \in h + 1 .. L
    BY <1>1, <1>3, <1>6
  <2>2. \A i \in 1 .. a : rest[(start[h + 1] - start[h + 1]) + i] = h + 1
    BY <1>4, <1>8, <2>1
  <2>3. rest[(start[h + 1] - start[h + 1]) + a + 1] = 0
    BY <1>4, <1>8, <2>1
  <2>4. start[h + 1] - start[h + 1] = 0
    BY <1>5, <1>7
  <2>5. \A i \in 1 .. a : (start[h + 1] - start[h + 1]) + i = i
    BY <2>4
  <2>6. (start[h + 1] - start[h + 1]) + a + 1 = a + 1
    BY <2>4
  <2>7. QED BY <2>2, <2>3, <2>5, <2>6
<1>13. Len(u) = a + 1
  <2>1. CASE Len(u) < a + 1
    <3>1. Len(u) \in 1 .. a /\ Len(u) \in 1 .. Len(u)
      BY <1>1, <2>1
    <3>2. rest[Len(u)] = h + 1 /\ rest[Len(u)] = 0
      BY <1>2, <1>12, <3>1
    <3>3. QED BY <1>3, <1>1, <3>2
  <2>2. CASE Len(u) > a + 1
    <3>1. a + 1 \in 1 .. Len(u) - 1 /\ a + 1 \in 1 .. Len(u)
      BY <1>1, <2>2
    <3>2. QED BY <1>2, <1>12, <3>1
  <2>3. QED BY <1>1, <2>1, <2>2
<1>14. \A i \in 1 .. a : u[i] = h + 1
  BY <1>2, <1>12, <1>13
<1>15. Len(v) + start[h + 2] = start[L + 1]
  <2>1. PICK p, q, e \in Nat : p = start[h + 1] /\ q = start[h + 2] /\ e = start[L + 1]
    BY <1>5, <1>7
  <2>2. q = p + a + 1 /\ (Len(u) + Len(v)) + p = e
    BY <1>2, <1>3, <1>9, <2>1
  <2>3. QED BY <1>1, <1>13, <2>1, <2>2, SMTT(30)
<1>16. ASSUME NEW n \in h + 2 .. L, NEW i \in 1 .. lens[n] + 1
       PROVE  v[(start[n] - start[h + 2]) + i] = rest[(start[n] - start[h + 1]) + i]
  <2>1. n \in 1 .. L + 1 /\ n \in 1 .. L /\ n + 1 \in 1 .. L + 1 /\ h + 2 <= n
    BY <1>1, <1>3
  <2>2. start[h + 2] <= start[n]
    BY <1>3, <1>7, <2>1
  <2>3. start[n + 1] = start[n] + lens[n] + 1
    BY <1>3, <2>1
  <2>4. start[n + 1] <= start[L + 1]
    BY <1>1, <1>3, <1>7, <2>1
  <2>5. lens[n] \in Nat /\ i \in Nat
    BY <1>1, <2>1
  <2>6. PICK p, q, e, x, y \in Nat :
          /\ p = start[h + 1] /\ q = start[h + 2] /\ e = start[L + 1]
          /\ x = start[n] /\ y = lens[n]
    BY <1>5, <1>7, <2>1, <2>5
  <2>7. /\ q = p + a + 1 /\ Len(v) + q = e /\ q <= x /\ x + y + 1 <= e
    BY <1>9, <1>15, <2>2, <2>3, <2>4, <2>6
  <2>8. (x - q) + i \in 1 .. Len(v)
    <3>1. i \in Nat /\ 1 <= i /\ i <= y + 1
      BY <2>6
    <3>2. QED BY <1>1, <2>7, <3>1
  <2>9. Len(u) + ((x - q) + i) = (x - p) + i
    BY <1>1, <1>13, <2>5, <2>7
  <2>10. QED BY <1>2, <2>6, <2>8, <2>9
<1>17. \A n \in h + 2 .. L :
         /\ \A i \in 1 .. lens[n] : v[(start[n] - start[h + 2]) + i] = n
         /\ v[(start[n] - start[h + 2]) + lens[n] + 1] = 0
  <2>1. SUFFICES ASSUME NEW n \in h + 2 .. L
                 PROVE  /\ \A i \in 1 .. lens[n] : v[(start[n] - start[h + 2]) + i] = n
                        /\ v[(start[n] - start[h + 2]) + lens[n] + 1] = 0
    OBVIOUS
  <2>2. n \in h + 1 .. L /\ n \in 1 .. L
    BY <1>1, <1>3
  <2>3. lens[n] \in Nat
    BY <1>1, <2>2
  <2>4. \A i \in 1 .. lens[n] : i \in 1 .. lens[n] + 1
    BY <2>3
  <2>5. ASSUME NEW i \in 1 .. lens[n]
        PROVE  v[(start[n] - start[h + 2]) + i] = n
    <3>1. v[(start[n] - start[h + 2]) + i] = rest[(start[n] - start[h + 1]) + i]
      BY <1>16, <2>4
    <3>2. rest[(start[n] - start[h + 1]) + i] = n
      BY <1>4, <2>2
    <3>3. QED BY <3>1, <3>2
  <2>6. PICK k : k = lens[n] + 1
    OBVIOUS
  <2>7. k \in 1 .. lens[n] + 1
    BY <2>3, <2>6, SMTT(30)
  <2>8. v[(start[n] - start[h + 2]) + k] = rest[(start[n] - start[h + 1]) + k]
    BY <1>16, <2>7
  <2>9. /\ (start[n] - start[h + 2]) + k = (start[n] - start[h + 2]) + lens[n] + 1
        /\ (start[n] - start[h + 1]) + k = (start[n] - start[h + 1]) + lens[n] + 1
    <3>1. n \in 1 .. L + 1
      BY <1>1, <2>2
    <3>2. PICK p, q, x, y \in Nat :
            /\ p = start[h + 1] /\ q = start[h + 2]
            /\ x = start[n] /\ y = lens[n]
      BY <1>5, <1>7, <2>3, <3>1
    <3>3. /\ (x - q) + (y + 1) = (x - q) + y + 1
          /\ (x - p) + (y + 1) = (x - p) + y + 1
      OBVIOUS
    <3>4. QED BY <2>6, <3>2, <3>3
  <2>10. rest[(start[n] - start[h + 1]) + lens[n] + 1] = 0
    BY <1>4, <2>2
  <2>11. QED BY <2>5, <2>8, <2>9, <2>10
<1>18. Layout(start, lens, h + 1, v)
  <2>1. (h + 1) + 1 = h + 2 /\ h + 1 \in 0 .. L
    BY <1>1, <1>3, <1>6
  <2>2. QED BY <1>3, <1>15, <1>17, <2>1 DEF Layout, L
<1>19. QED BY <1>6, <1>8, <1>13, <1>14, <1>18 DEF L

\* One line more is sent.
LEMMA ExtendOne ==
  ASSUME NEW lens \in Seq(Nat), NEW start, NEW h, NEW rest \in Seq(Nat),
         Layout(start, lens, h, rest),
         NEW n \in Nat, NEW x \in Seq(Nat), Len(x) = n + 1,
         \A i \in 1 .. n : x[i] = Len(lens) + 1, x[n + 1] = 0
  PROVE  \E longer : Layout(longer, Append(lens, n), h, rest \o x)
<1> DEFINE L == Len(lens)
<1> DEFINE more == Append(lens, n)
<1> DEFINE s == [k \in 1 .. L + 2 |-> IF k = L + 2 THEN start[L + 1] + n + 1
                                     ELSE start[k]]
<1>1. L \in Nat /\ Len(rest) \in Nat /\ \A m \in 1 .. L : lens[m] \in Nat
  BY LenProperties, ElementOfSeq
<1>2. /\ start \in [1 .. L + 1 -> Nat] /\ h \in 0 .. L
      /\ \A m \in 1 .. L : start[m + 1] = start[m] + lens[m] + 1
      /\ \A k, m \in 1 .. L + 1 : k <= m => start[k] <= start[m]
      /\ Len(rest) + start[h + 1] = start[L + 1]
  BY DEF Layout
<1>3. \A m \in h + 1 .. L :
        /\ \A i \in 1 .. lens[m] : rest[(start[m] - start[h + 1]) + i] = m
        /\ rest[(start[m] - start[h + 1]) + lens[m] + 1] = 0
  BY DEF Layout
<1>4. /\ Len(rest \o x) = Len(rest) + n + 1
      /\ \A i \in 1 .. Len(rest) : (rest \o x)[i] = rest[i]
      /\ \A i \in 1 .. n + 1 : (rest \o x)[Len(rest) + i] = x[i]
  <2>1. /\ Len(rest \o x) = Len(rest) + Len(x)
        /\ \A i \in 1 .. Len(rest) : (rest \o x)[i] = rest[i]
        /\ \A i \in 1 .. Len(x) : (rest \o x)[Len(rest) + i] = x[i]
    BY ONLY rest \in Seq(Nat), x \in Seq(Nat), Joined
  <2>2. Len(rest) + (n + 1) = Len(rest) + n + 1
    BY <1>1
  <2>3. QED BY <2>1, <2>2
<1>5. /\ more \in Seq(Nat) /\ Len(more) = L + 1 /\ more[L + 1] = n
      /\ \A m \in 1 .. L : more[m] = lens[m]
  BY AppendProperties
<1>6. /\ \A k \in 1 .. L + 1 : s[k] = start[k] /\ start[k] \in Nat
      /\ s[L + 2] = start[L + 1] + n + 1
  <2>1. \A k \in 1 .. L + 1 : k \in 1 .. L + 2 /\ k # L + 2
    BY <1>1
  <2>2. L + 2 \in 1 .. L + 2
    BY <1>1
  <2>3. QED BY <1>2, <2>1, <2>2
<1> HIDE DEF L, more
<1>7. L + 1 \in 1 .. L + 1 /\ h + 1 \in 1 .. L + 1 /\ h \in Nat /\ h <= L
  BY <1>1, <1>2
<1>8. PICK e, p \in Nat : e = start[L + 1] /\ p = start[h + 1]
  BY <1>6, <1>7
<1>9. s \in [1 .. L + 2 -> Nat]
  <2>1. ASSUME NEW k \in 1 .. L + 2 PROVE s[k] \in Nat
    <3>1. CASE k = L + 2 BY <1>6, <1>8, <3>1
    <3>2. CASE k # L + 2
      <4>1. k \in 1 .. L + 1
        BY <1>1, <3>2
      <4>2. QED BY <1>6, <4>1
    <3>3. QED BY <3>1, <3>2
  <2>2. QED BY <2>1
<1>10. s[h + 1] = p /\ s[L + 1] = e /\ s[L + 2] = e + n + 1
  BY <1>6, <1>7, <1>8
<1> HIDE DEF s
<1>11. ASSUME NEW m \in 1 .. L + 1
       PROVE  s[m + 1] = s[m] + more[m] + 1
  <2>1. CASE m = L + 1
    <3>1. (L + 1) + 1 = L + 2
      BY <1>1
    <3>2. QED BY <1>5, <1>10, <2>1, <3>1
  <2>2. CASE m # L + 1
    <3>1. m \in 1 .. L /\ m + 1 \in 1 .. L + 1 /\ m \in 1 .. L + 1
      BY <1>1, <2>2
    <3>2. QED BY <1>2, <1>5, <1>6, <3>1
  <2>3. QED BY <2>1, <2>2
<1>12. ASSUME NEW k \in 1 .. L + 2, NEW m \in 1 .. L + 2, k <= m
       PROVE  s[k] <= s[m]
  <2>1. CASE m = L + 2 /\ k = L + 2
    BY <1>8, <1>10, <2>1
  <2>2. CASE m = L + 2 /\ k # L + 2
    <3>1. k \in 1 .. L + 1 /\ k <= L + 1
      BY <1>1, <2>2
    <3>2. s[k] <= e /\ s[k] \in Nat
      BY <1>2, <1>6, <1>7, <1>8, <3>1
    <3>3. QED BY <1>8, <1>10, <2>2, <3>2
  <2>3. CASE m # L + 2
    <3>1. k \in 1 .. L + 1 /\ m \in 1 .. L + 1
      BY <1>1, <1>12, <2>3
    <3>2. QED BY <1>2, <1>6, <1>12, <3>1
  <2>4. QED BY <2>1, <2>2, <2>3
<1>13. Len(rest \o x) + s[h + 1] = s[L + 2] /\ Len(rest) + p = e
  <2>1. Len(rest) + p = e
    BY <1>2, <1>8
  <2>2. (Len(rest) + n + 1) + p = e + n + 1
    <3>1. PICK r \in Nat : r = Len(rest)
      BY <1>1
    <3>2. r + p = e
      BY <2>1, <3>1
    <3>3. (r + n + 1) + p = e + n + 1
      BY ONLY <3>2, r \in Nat, p \in Nat, e \in Nat, n \in Nat
    <3>4. QED BY <3>1, <3>3
  <2>3. QED BY <1>4, <1>10, <2>1, <2>2
<1>14. ASSUME NEW m \in h + 1 .. L + 1
       PROVE  /\ \A i \in 1 .. more[m] : (rest \o x)[(s[m] - p) + i] = m
              /\ (rest \o x)[(s[m] - p) + more[m] + 1] = 0
  <2>1. CASE m = L + 1
    <3>1. s[m] - p = Len(rest) /\ more[m] = n
      <4>1. e - p = Len(rest)
        BY <1>1, <1>8, <1>13, SMTT(30)
      <4>2. QED BY <1>5, <1>10, <2>1, <4>1
    <3>2. \A i \in 1 .. n : i \in 1 .. n + 1
      OBVIOUS
    <3>3. \A i \in 1 .. n : (rest \o x)[Len(rest) + i] = L + 1
      BY <1>4, <3>2 DEF L
    <3>4. (rest \o x)[Len(rest) + n + 1] = 0
      <4>1. n + 1 \in 1 .. n + 1 /\ Len(rest) + (n + 1) = Len(rest) + n + 1
        BY <1>1
      <4>2. QED BY <1>4, <4>1
    <3>5. QED BY <2>1, <3>1, <3>3, <3>4
  <2>2. CASE m # L + 1
    <3>1. m \in h + 1 .. L /\ m \in 1 .. L /\ m \in 1 .. L + 1 /\ m + 1 \in 1 .. L + 1
          /\ h + 1 <= m /\ m + 1 <= L + 1
      BY <1>1, <1>7, <2>2
    <3>2. PICK z, y \in Nat : z = start[m] /\ y = lens[m]
      BY <1>1, <1>6, <3>1
    <3>3. s[m] = z /\ more[m] = y
      BY <1>5, <1>6, <3>1, <3>2
    <3>4. p <= z
      BY <1>2, <1>7, <1>8, <3>1, <3>2
    <3>5. z + y + 1 <= e
      <4>1. start[m + 1] = z + y + 1
        BY <1>2, <3>1, <3>2
      <4>2. start[m + 1] <= start[L + 1]
        BY <1>2, <1>7, <3>1
      <4>3. QED BY <1>8, <4>1, <4>2
    <3>6. Len(rest) + p = e
      BY <1>2, <1>8
    <3>7. /\ \A i \in 1 .. y : rest[(z - p) + i] = m
          /\ rest[(z - p) + y + 1] = 0
      BY <1>3, <1>8, <3>1, <3>2
    <3>8. /\ \A i \in 1 .. y : (z - p) + i \in 1 .. Len(rest)
          /\ (z - p) + y + 1 \in 1 .. Len(rest)
      <4>1. PICK r \in Nat : r = Len(rest)
        BY <1>1
      <4>2. r + p = e
        BY <3>6, <4>1
      <4>3. \A i \in 1 .. y : (z - p) + i \in 1 .. r
        BY ONLY <3>4, <3>5, <4>2, r \in Nat, p \in Nat, e \in Nat, z \in Nat, y \in Nat
      <4>4. (z - p) + y + 1 \in 1 .. r
        BY ONLY <3>4, <3>5, <4>2, r \in Nat, p \in Nat, e \in Nat, z \in Nat, y \in Nat
      <4>5. QED BY <4>1, <4>3, <4>4
    <3>9. QED BY <1>4, <3>3, <3>7, <3>8
  <2>3. QED BY <2>1, <2>2
<1>15. h \in 0 .. L + 1
  BY <1>1, <1>7
<1>16. (L + 1) + 1 = L + 2
  BY <1>1
<1>17. Layout(s, more, h, rest \o x)
  BY <1>5, <1>9, <1>10, <1>11, <1>12, <1>13, <1>14, <1>15, <1>16 DEF Layout
<1>18. QED BY <1>17 DEF more

-----------------------------------------------------------------------------
Rest == line.text \o (conn.in \o wire)

LineInv ==
  /\ \A i \in 1 .. Len(line.text) : line.text[i] # 0
  /\ \E start : Layout(start, asked, Len(handled), Rest)
  /\ LinesFaithful

LineSide == InputInv /\ LineInv

LEMMA CutLength ==
  ASSUME NEW S, NEW s \in Seq(S), NEW k \in 0 .. Len(s)
  PROVE  /\ Len(SubSeq(s, 1, k)) = k
         /\ Len(SubSeq(s, k + 1, Len(s))) = Len(s) - k
         /\ \A i \in 1 .. k : SubSeq(s, 1, k)[i] = s[i]
<1>1. Len(s) \in Nat
  BY LenProperties
<1>2. QED BY <1>1, SubSeqProperties

\* What is sent and not yet handled, as numbers.
LEMMA Plain ==
  ASSUME InputInv
  PROVE  /\ asked \in Seq(Nat) /\ wire \in Seq(Nat) /\ line.text \in Seq(Nat)
         /\ conn.in \in Seq(Nat) /\ conn.in \o wire \in Seq(Nat) /\ Rest \in Seq(Nat)
         /\ MaxLines \in Nat /\ Char \subseteq Nat
<1>1. Lengths \subseteq Nat /\ MaxLines \in Nat
  BY SocketAssumption
<1>2. Char \subseteq Nat
  BY <1>1 DEF Char
<1>3. /\ asked \in Seq(Lengths) /\ wire \in Seq(Char) /\ line.text \in Seq(Char)
      /\ conn.in \in Seq(Char)
  BY DEF InputInv
<1>4. /\ asked \in Seq(Nat) /\ wire \in Seq(Nat) /\ line.text \in Seq(Nat)
      /\ conn.in \in Seq(Nat)
  BY <1>1, <1>2, <1>3, SeqMonotonic
<1>5. conn.in \o wire \in Seq(Nat)
  BY <1>4, ConcatProperties
<1>6. Rest \in Seq(Nat)
  BY <1>4, <1>5, ConcatProperties DEF Rest
<1>7. QED BY <1>1, <1>2, <1>4, <1>5, <1>6

\* Moving the front of the buffer to the line keeps the whole.
LEMMA Advance ==
  ASSUME NEW t \in Seq(Nat), NEW c \in Seq(Nat), NEW w \in Seq(Nat),
         NEW k \in 0 .. Len(c)
  PROVE  /\ t \o SubSeq(c, 1, k) \in Seq(Nat)
         /\ SubSeq(c, k + 1, Len(c)) \o w \in Seq(Nat)
         /\ (t \o SubSeq(c, 1, k)) \o (SubSeq(c, k + 1, Len(c)) \o w)
              = t \o (c \o w)
<1>1. PICK a, b : a = SubSeq(c, 1, k) /\ b = SubSeq(c, k + 1, Len(c))
  OBVIOUS
<1>2. a \in Seq(Nat) /\ b \in Seq(Nat) /\ a \o b = c
  BY <1>1, CutJoin
<1>3. b \o w \in Seq(Nat) /\ t \o a \in Seq(Nat)
  BY <1>2, ConcatProperties
<1>4. (t \o a) \o (b \o w) = t \o (a \o (b \o w))
  <2>1. PICK d : d = b \o w
    OBVIOUS
  <2>2. t \in Seq(Nat) /\ a \in Seq(Nat) /\ d \in Seq(Nat)
    BY <1>2, <1>3, <2>1
  <2>3. (t \o a) \o d = t \o (a \o d)
    BY ONLY <2>2, Assoc
  <2>4. QED BY <2>1, <2>3
<1>5. (a \o b) \o w = a \o (b \o w)
  <2>1. a \in Seq(Nat) /\ b \in Seq(Nat) /\ w \in Seq(Nat)
    BY <1>2
  <2>2. QED BY ONLY <2>1, Assoc, ZenonT(60)
<1>6. QED BY <1>1, <1>2, <1>3, <1>4, <1>5

LEMMA LineStutter ==
  ASSUME LineSide, UNCHANGED <<asked, wire, line, handled>>, conn'.in = conn.in
  PROVE  LineSide'
<1>1. InputInv'
  BY DEF LineSide, InputInv
<1>2. Rest' = Rest
  BY DEF Rest
<1>3. LinesFaithful'
  BY DEF LineSide, LineInv, LinesFaithful
<1>4. QED BY <1>1, <1>2, <1>3 DEF LineSide, LineInv

\* The part of the line set aside and the front of the buffer are the next
\* line that was sent.
LEMMA TakeLineStep ==
  ASSUME LineSide, ConnInv, NEW n \in 0 .. Len(conn.in), NewlineAfter(n), TakeLine(n),
         UNCHANGED asked
  PROVE  LineSide'
<1> DEFINE t == line.text
<1> DEFINE c == conn.in
<1> DEFINE h == Len(handled)
<1> USE DEF LineSide
<1>1. /\ asked \in Seq(Nat) /\ wire \in Seq(Nat) /\ t \in Seq(Nat) /\ c \in Seq(Nat)
      /\ t \in Seq(Char) /\ c \in Seq(Char) /\ Len(c) <= InSize
      /\ handled \in Seq(Seq(Char)) /\ Char \subseteq Nat
  BY Plain DEF InputInv
<1>2. Len(c) \in Nat /\ Len(t) \in Nat /\ h \in Nat /\ n \in Nat /\ Len(asked) \in Nat
  BY <1>1, LenProperties
<1>3. n + 1 \in 1 .. Len(c) /\ c[n + 1] = 0 /\ \A i \in 1 .. n : c[i] # 0
  BY <1>1, LenProperties DEF NewlineAfter
<1>4. /\ handled' = Append(handled, t \o SubSeq(c, 1, n))
      /\ line' = [text |-> <<>>, flushed |-> FALSE] /\ wire' = wire
      /\ conn'.in = SubSeq(c, n + 2, Len(c))
  BY SetConn DEF TakeLine
<1> HIDE DEF t, c, h
<1>5. PICK k : k = n + 1 /\ k \in 0 .. Len(c) /\ k + 1 = n + 2
  BY <1>2, <1>3
<1>6. PICK u, v, b : /\ u = t \o SubSeq(c, 1, k) /\ b = SubSeq(c, k + 1, Len(c))
                     /\ v = b \o wire
  OBVIOUS
<1>7. u \in Seq(Nat) /\ v \in Seq(Nat) /\ u \o v = Rest
  BY <1>1, <1>5, <1>6, Advance, ZenonT(60) DEF Rest, t, c
<1>8. PICK a : a = SubSeq(c, 1, k)
  OBVIOUS
<1>9. a \in Seq(Nat) /\ Len(a) = k /\ \A i \in 1 .. k : a[i] = c[i]
  BY <1>1, <1>5, <1>8, CutJoin, CutLength
<1>10. /\ Len(u) = Len(t) + k
       /\ \A i \in 1 .. Len(t) : u[i] = t[i]
       /\ \A i \in 1 .. k : u[Len(t) + i] = a[i]
  <2>1. t \in Seq(Nat) /\ a \in Seq(Nat)
    BY <1>1, <1>9
  <2>2. /\ Len(t \o a) = Len(t) + Len(a)
        /\ \A i \in 1 .. Len(t) : (t \o a)[i] = t[i]
        /\ \A i \in 1 .. Len(a) : (t \o a)[Len(t) + i] = a[i]
    BY ONLY <2>1, Joined
  <2>3. QED BY <1>6, <1>8, <1>9, <2>2
<1>11. Len(u) # 0 /\ u[Len(u)] = 0
  BY <1>2, <1>3, <1>5, <1>9, <1>10
<1>12. ASSUME NEW i \in 1 .. Len(u) - 1 PROVE u[i] # 0
  <2>1. CASE i <= Len(t)
    <3>1. i \in 1 .. Len(t)
      BY <1>2, <2>1
    <3>2. t[i] # 0
      BY <3>1 DEF LineInv, t
    <3>3. QED BY <1>10, <3>1, <3>2
  <2>2. CASE ~(i <= Len(t))
    <3>1. PICK j : j = i - Len(t) /\ j \in 1 .. n /\ j \in 1 .. k /\ Len(t) + j = i
      BY <1>2, <1>5, <1>10, <2>2
    <3>2. QED BY <1>3, <1>9, <1>10, <3>1, ZenonT(60)
  <2>3. QED BY <2>1, <2>2
<1>13. PICK start : Layout(start, asked, h, Rest)
  BY DEF LineInv, h
<1>14. /\ h + 1 \in 1 .. Len(asked) /\ Len(u) = asked[h + 1] + 1
       /\ \A i \in 1 .. asked[h + 1] : u[i] = h + 1
       /\ Layout(start, asked, h + 1, v)
  <2>1. PICK g, q : g = h /\ q = asked
    OBVIOUS
  <2>2. Layout(start, q, g, u \o v)
    BY <1>7, <1>13, <2>1
  <2>3. q \in Seq(Nat) /\ u \in Seq(Nat) /\ v \in Seq(Nat)
    BY <1>1, <1>7, <2>1
  <2>4. \A i \in 1 .. Len(u) - 1 : u[i] # 0
    BY <1>12
  <2>5. /\ g + 1 \in 1 .. Len(q) /\ Len(u) = q[g + 1] + 1
        /\ \A i \in 1 .. q[g + 1] : u[i] = g + 1
        /\ Layout(start, q, g + 1, v)
    BY ONLY <1>11, <2>2, <2>3, <2>4, TakeOne
  <2>6. QED BY <2>1, <2>5
<1>15. PICK whole : whole = t \o SubSeq(c, 1, n)
  OBVIOUS
<1>16. /\ whole \in Seq(Char) /\ Len(whole) = Len(t) + n
       /\ \A i \in 1 .. Len(t) : whole[i] = t[i]
       /\ \A i \in 1 .. n : whole[Len(t) + i] = c[i]
  <2>1. PICK f : f = SubSeq(c, 1, n)
    OBVIOUS
  <2>2. n \in 0 .. Len(c)
    BY <1>2, <1>3
  <2>3. f \in Seq(Char) /\ Len(f) = n /\ \A i \in 1 .. n : f[i] = c[i]
    BY <1>1, <2>1, <2>2, CutJoin, CutLength
  <2>4. t \in Seq(Char) /\ f \in Seq(Char)
    BY <1>1, <2>3
  <2>5. /\ t \o f \in Seq(Char) /\ Len(t \o f) = Len(t) + Len(f)
        /\ \A i \in 1 .. Len(t) : (t \o f)[i] = t[i]
        /\ \A i \in 1 .. Len(f) : (t \o f)[Len(t) + i] = f[i]
    BY ONLY <2>4, Joined
  <2>6. QED BY <1>15, <2>1, <2>3, <2>5
<1>17. Len(whole) = asked[h + 1] /\ \A i \in 1 .. Len(whole) : whole[i] = h + 1
  <2>1. Len(whole) = asked[h + 1]
    <3>1. PICK m \in Nat : m = asked[h + 1]
      BY <1>1, <1>14, ElementOfSeq
    <3>2. Len(t) + (n + 1) = m + 1
      BY <1>5, <1>10, <1>14, <3>1
    <3>3. Len(t) + n = m
      BY <1>2, <3>1, <3>2
    <3>4. QED BY <1>16, <3>1, <3>3
  <2>2. ASSUME NEW i \in 1 .. Len(whole) PROVE whole[i] = u[i]
    <3>1. CASE i <= Len(t)
      <4>1. i \in 1 .. Len(t)
        BY <1>2, <3>1
      <4>2. QED BY <1>10, <1>16, <4>1
    <3>2. CASE ~(i <= Len(t))
      <4>1. PICK j : j \in 1 .. n /\ j \in 1 .. k /\ Len(t) + j = i
        <5>1. i - Len(t) \in 1 .. n /\ Len(t) + (i - Len(t)) = i
          BY <1>2, <1>16, <3>2
        <5>2. 1 .. n \subseteq 1 .. k
          BY <1>2, <1>5
        <5>3. QED BY <5>1, <5>2
      <4>2. QED BY <1>9, <1>10, <1>16, <4>1
    <3>3. QED BY <3>1, <3>2
  <2>3. QED BY <1>14, <2>1, <2>2
<1>18. whole = [i \in 1 .. asked[h + 1] |-> h + 1]
  <2>1. PICK m \in Nat : m = asked[h + 1]
    BY <1>1, <1>14, ElementOfSeq
  <2>2. [i \in 1 .. m |-> h + 1] \in Seq(Nat) /\ Len([i \in 1 .. m |-> h + 1]) = m
    BY <1>2, FunctionIsSeq
  <2>3. whole \in Seq(Nat)
    BY <1>1, <1>16, SeqMonotonic
  <2>4. QED BY <1>17, <2>1, <2>2, <2>3, SeqEqual
<1>19. /\ handled' \in Seq(Seq(Char)) /\ Len(handled') = h + 1
       /\ handled'[h + 1] = whole /\ \A i \in 1 .. h : handled'[i] = handled[i]
  BY <1>1, <1>4, <1>15, <1>16, AppendProperties DEF h
<1>20. LinesFaithful'
  <2>1. \A i \in 1 .. h : handled[i] = [j \in 1 .. asked[i] |-> i]
    BY <1>1, LenProperties DEF LineInv, LinesFaithful, h
  <2>2. ASSUME NEW i \in 1 .. h + 1
        PROVE  handled'[i] = [j \in 1 .. asked[i] |-> i]
    <3>1. CASE i = h + 1 BY <1>18, <1>19, <3>1
    <3>2. CASE i # h + 1
      <4>1. i \in 1 .. h
        BY <1>2, <3>2
      <4>2. QED BY <1>19, <2>1, <4>1
    <3>3. QED BY <3>1, <3>2
  <2>3. DOMAIN handled' = 1 .. h + 1
    BY <1>19, LenProperties
  <2>4. h + 1 <= Len(asked)
    BY <1>2, <1>14
  <2>5. QED BY <1>19, <2>2, <2>3, <2>4 DEF LinesFaithful
<1>21. /\ b \in Seq(Char) /\ Len(b) <= InSize /\ conn'.in = b
  <2>1. b \in Seq(Char) /\ Len(b) = Len(c) - k
    BY <1>1, <1>5, <1>6, CutJoin, CutLength
  <2>2. InSize \in Nat
    BY SocketAssumption
  <2>3. Len(b) <= InSize
    <3>1. k \in Nat /\ Len(c) - k <= Len(c)
      BY <1>2, <1>5
    <3>2. Len(c) - k \in Int
      BY <1>2, <3>1
    <3>3. QED BY <1>1, <1>2, <2>1, <2>2, <3>1, <3>2
  <2>4. QED BY <1>4, <1>5, <1>6, <2>1, <2>3
<1>22. InputInv'
  <2>1. line' \in [text : Seq(Char), flushed : BOOLEAN] /\ Len(line'.text) = 0
    BY <1>4, EmptySeq
  <2>2. LineSize \in Nat \ {0}
    BY SocketAssumption
  <2>3. /\ asked' \in Seq(Lengths) /\ Len(asked') <= MaxLines /\ wire' \in Seq(Char)
    BY <1>4 DEF InputInv
  <2>4. Len(line'.text) < LineSize
    BY <2>1, <2>2
  <2>5. QED BY <1>19, <1>21, <2>1, <2>3, <2>4 DEF InputInv
<1>23. Rest' = v
  <2>1. line'.text = <<>>
    BY <1>4
  <2>2. Rest' = <<>> \o v
    BY <1>4, <1>6, <1>21, <2>1 DEF Rest
  <2>3. QED BY <1>7, <2>2, ConcatEmptySeq
<1>24. LineInv'
  <2>1. \A i \in 1 .. Len(line'.text) : line'.text[i] # 0
    BY <1>4
  <2>2. Layout(start, asked', Len(handled'), Rest')
    BY <1>14, <1>19, <1>23
  <2>3. QED BY <1>20, <2>1, <2>2 DEF LineInv
<1>25. QED BY <1>22, <1>24

\* The buffer without a newline goes to the line that is being assembled.
LEMMA SetAsideStep ==
  ASSUME LineSide, ConnInv, \A i \in DOMAIN conn.in : conn.in[i] # 0,
         Fits(Len(conn.in)), SetAside, UNCHANGED asked
  PROVE  LineSide'
<1> DEFINE t == line.text
<1> DEFINE c == conn.in
<1> USE DEF LineSide
<1>1. /\ wire \in Seq(Nat) /\ t \in Seq(Nat) /\ c \in Seq(Nat)
      /\ t \in Seq(Char) /\ c \in Seq(Char)
  BY Plain DEF InputInv
<1>2. Len(c) \in Nat /\ Len(t) \in Nat
  BY <1>1, LenProperties
<1>3. /\ line'.text = t \o c /\ line'.flushed = TRUE
      /\ line' = [text |-> t \o c, flushed |-> TRUE]
      /\ wire' = wire /\ handled' = handled /\ conn'.in = <<>>
  BY DEF SetAside, ConnInv
<1>4. /\ \A i \in 1 .. Len(c) : c[i] # 0
      /\ \A i \in 1 .. Len(t) : t[i] # 0
  BY <1>1, LenProperties DEF LineInv
<1>5. Len(t) + Len(c) + 1 < LineSize /\ LineSize \in Nat
  BY SocketAssumption DEF Fits
<1> HIDE DEF t, c
<1>6. /\ t \o c \in Seq(Char) /\ Len(t \o c) = Len(t) + Len(c)
      /\ \A i \in 1 .. Len(t) : (t \o c)[i] = t[i]
      /\ \A i \in 1 .. Len(c) : (t \o c)[Len(t) + i] = c[i]
  BY <1>1, Joined
<1>7. ASSUME NEW i \in 1 .. Len(t \o c) PROVE (t \o c)[i] # 0
  <2>1. CASE i <= Len(t)
    <3>1. i \in 1 .. Len(t)
      BY <1>2, <2>1
    <3>2. QED BY <1>4, <1>6, <3>1
  <2>2. CASE ~(i <= Len(t))
    <3>1. i - Len(t) \in 1 .. Len(c) /\ Len(t) + (i - Len(t)) = i
      BY <1>2, <1>6, <2>2
    <3>2. PICK j : j = i - Len(t)
      OBVIOUS
    <3>3. (t \o c)[Len(t) + j] = c[j] /\ c[j] # 0
      BY <1>4, <1>6, <3>1, <3>2
    <3>4. QED BY <3>1, <3>2, <3>3
  <2>3. QED BY <2>1, <2>2
<1>8. Rest' = Rest
  <2>1. (t \o c) \o wire = t \o (c \o wire)
    BY ONLY <1>1, Assoc
  <2>2. <<>> \o wire = wire
    BY <1>1, ConcatEmptySeq
  <2>3. Rest' = (t \o c) \o (<<>> \o wire)
    BY <1>3 DEF Rest
  <2>4. Rest = t \o (c \o wire)
    BY DEF Rest, t, c
  <2>5. QED BY <2>1, <2>2, <2>3, <2>4
<1>9. InputInv'
  <2>1. line' \in [text : Seq(Char), flushed : BOOLEAN]
    BY <1>3, <1>6
  <2>2. Len(line'.text) < LineSize
    BY <1>2, <1>3, <1>5, <1>6
  <2>3. conn'.in \in Seq(Char) /\ Len(conn'.in) <= InSize
    <3>1. InSize \in Nat
      BY SocketAssumption
    <3>2. conn'.in \in Seq(Char) /\ Len(conn'.in) = 0
      BY <1>3, EmptySeq
    <3>3. QED BY <3>1, <3>2
  <2>4. QED BY <1>3, <2>1, <2>2, <2>3 DEF InputInv
<1>10. LinesFaithful'
  BY <1>3 DEF LineInv, LinesFaithful
<1>11. LineInv'
  <2>1. \A i \in 1 .. Len(line'.text) : line'.text[i] # 0
    BY <1>3, <1>7
  <2>2. PICK start : Layout(start, asked, Len(handled), Rest)
    BY DEF LineInv
  <2>3. Layout(start, asked', Len(handled'), Rest')
    BY <1>3, <1>8, <2>2
  <2>4. QED BY <1>10, <2>1, <2>3 DEF LineInv
<1>12. QED BY <1>9, <1>11

LEMMA FillStep ==
  ASSUME LineSide, ConnInv, PlaceInv, FillInBuf
  PROVE  LineSide'
<1> USE DEF LineSide
<1>1. /\ place = "read" /\ conn.in = <<>>
      /\ UNCHANGED <<asked, line, handled>>
  BY DEF FillInBuf, PlaceInv, commandVars, clientVars
<1>2. CASE wire' = wire /\ conn'.in = conn.in
  BY <1>1, <1>2, LineStutter
<1>3. ASSUME NEW k \in 1 .. InSize, k <= Len(wire),
             conn'.in = SubSeq(wire, 1, k), wire' = SubSeq(wire, k + 1, Len(wire))
      PROVE  LineSide'
  <2>1. wire \in Seq(Char) /\ wire \in Seq(Nat) /\ line.text \in Seq(Nat)
    BY Plain DEF InputInv
  <2>2. k \in 0 .. Len(wire) /\ k <= InSize /\ InSize \in Nat
    BY <1>3, <2>1, LenProperties, SocketAssumption
  <2>3. /\ conn'.in \in Seq(Char) /\ wire' \in Seq(Char) /\ Len(conn'.in) = k
        /\ conn'.in \o wire' = wire
    BY <1>3, <2>1, <2>2, CutJoin, CutLength
  <2>4. InputInv'
    BY <1>1, <2>2, <2>3 DEF InputInv
  <2>5. Rest' = Rest
    <3>1. <<>> \o wire = wire
      BY <2>1, ConcatEmptySeq
    <3>2. QED BY <1>1, <2>3, <3>1 DEF Rest
  <2>6. LinesFaithful'
    BY <1>1 DEF LineInv, LinesFaithful
  <2>7. LineInv'
    <3>1. PICK start : Layout(start, asked, Len(handled), Rest)
      BY DEF LineInv
    <3>2. Layout(start, asked', Len(handled'), Rest')
      BY <1>1, <2>5, <3>1
    <3>3. \A i \in 1 .. Len(line'.text) : line'.text[i] # 0
      BY <1>1 DEF LineInv
    <3>4. QED BY <2>6, <3>2, <3>3 DEF LineInv
  <2>8. QED BY <2>4, <2>7
<1>4. \/ wire' = wire /\ conn'.in = conn.in
      \/ \E k \in 1 .. InSize :
           /\ k <= Len(wire) /\ conn'.in = SubSeq(wire, 1, k)
           /\ wire' = SubSeq(wire, k + 1, Len(wire))
  <2>1. CASE UNCHANGED <<conn, wire>> BY <2>1
  <2>2. ASSUME NEW k \in 1 .. InSize, k <= Len(wire),
               conn' = [conn EXCEPT !.in = SubSeq(wire, 1, k)],
               wire' = SubSeq(wire, k + 1, Len(wire))
        PROVE  /\ k <= Len(wire) /\ conn'.in = SubSeq(wire, 1, k)
               /\ wire' = SubSeq(wire, k + 1, Len(wire))
    BY <2>2, SetConn
  <2>3. CASE conn' = [conn EXCEPT !.eof = TRUE] /\ UNCHANGED wire
    BY <2>3, SetConn
  <2>4. CASE conn' = [conn EXCEPT !.error = TRUE] /\ UNCHANGED wire
    BY <2>4, SetConn
  <2>5. QED BY <2>1, <2>2, <2>3, <2>4 DEF FillInBuf
<1>5. QED BY <1>2, <1>3, <1>4

LEMMA SendLineStep ==
  ASSUME LineSide, SendLine
  PROVE  LineSide'
<1> USE DEF LineSide
<1>1. PICK n \in Lengths :
        /\ asked' = Append(asked, n)
        /\ wire' = wire \o [i \in 1 .. n |-> Len(asked')] \o <<0>>
  BY DEF SendLine
<1>2. UNCHANGED <<conn, line, handled>> /\ Len(asked) < MaxLines
  BY DEF SendLine
<1>3. /\ asked \in Seq(Lengths) /\ asked \in Seq(Nat) /\ n \in Nat
      /\ wire \in Seq(Char) /\ wire \in Seq(Nat) /\ line.text \in Seq(Nat)
      /\ conn.in \in Seq(Nat) /\ conn.in \o wire \in Seq(Nat) /\ Rest \in Seq(Nat)
      /\ MaxLines \in Nat /\ Char \subseteq Nat /\ Len(asked) \in Nat
  BY Plain, SocketAssumption, LenProperties DEF InputInv
<1>4. /\ asked' \in Seq(Lengths) /\ Len(asked') = Len(asked) + 1
      /\ \A i \in 1 .. Len(asked) : asked'[i] = asked[i]
  BY <1>1, <1>3, AppendProperties
<1>5. PICK l : l = [i \in 1 .. n |-> Len(asked')]
  OBVIOUS
<1>6. /\ Len(asked') \in Char /\ 0 \in Char
  BY <1>2, <1>3, <1>4 DEF Char
<1>7. l \in Seq(Char) /\ Len(l) = n /\ \A i \in 1 .. n : l[i] = Len(asked')
  BY <1>3, <1>5, <1>6, FunctionIsSeq
<1>8. PICK z : z = <<0>>
  OBVIOUS
<1>9. z \in Seq(Char) /\ Len(z) = 1 /\ z[1] = 0
  BY <1>6, <1>8
<1>10. PICK x : x = l \o z
  OBVIOUS
<1>11. x \in Seq(Char) /\ Len(x) = n + 1 /\ \A i \in 1 .. n : x[i] = l[i]
  <2>1. l \in Seq(Char) /\ z \in Seq(Char)
    BY <1>7, <1>9
  <2>2. /\ l \o z \in Seq(Char) /\ Len(l \o z) = Len(l) + Len(z)
        /\ \A i \in 1 .. Len(l) : (l \o z)[i] = l[i]
    BY ONLY <2>1, Joined
  <2>3. QED BY <1>7, <1>9, <1>10, <2>2
<1>12. x[n + 1] = 0
  <2>1. \A i \in 1 .. Len(z) : (l \o z)[Len(l) + i] = z[i]
    <3>1. l \in Seq(Char) /\ z \in Seq(Char)
      BY <1>7, <1>9
    <3>2. QED BY ONLY <3>1, Joined
  <2>2. 1 \in 1 .. Len(z) /\ Len(l) = n
    BY <1>7, <1>9
  <2>3. QED BY <1>9, <1>10, <2>1, <2>2
<1>13. l \in Seq(Nat) /\ z \in Seq(Nat) /\ x \in Seq(Nat)
  BY <1>3, <1>7, <1>9, <1>11, SeqMonotonic
<1>14. wire' = wire \o x
  <2>1. (wire \o l) \o z = wire \o (l \o z)
    <3>1. wire \in Seq(Nat) /\ l \in Seq(Nat) /\ z \in Seq(Nat)
      BY <1>3, <1>13
    <3>2. QED BY ONLY <3>1, Assoc
  <2>2. wire' = (wire \o l) \o z
    BY <1>1, <1>5, <1>8
  <2>3. QED BY <1>10, <2>1, <2>2
<1>15. wire' \in Seq(Char)
  BY <1>3, <1>11, <1>14, ConcatProperties
<1>16. Rest' = Rest \o x
  <2>1. PICK r : r = conn.in \o wire
    OBVIOUS
  <2>2. (conn.in \o wire) \o x = conn.in \o (wire \o x)
    <3>1. PICK c : c = conn.in
      OBVIOUS
    <3>2. c \in Seq(Nat) /\ wire \in Seq(Nat) /\ x \in Seq(Nat)
      BY <1>3, <1>13, <3>1
    <3>3. (c \o wire) \o x = c \o (wire \o x)
      BY ONLY <3>2, Assoc
    <3>4. QED BY <3>1, <3>3
  <2>3. (line.text \o r) \o x = line.text \o (r \o x)
    <3>1. PICK t : t = line.text
      OBVIOUS
    <3>2. t \in Seq(Nat) /\ r \in Seq(Nat) /\ x \in Seq(Nat)
      BY <1>3, <1>13, <2>1, <3>1
    <3>3. (t \o r) \o x = t \o (r \o x)
      BY ONLY <3>2, Assoc
    <3>4. QED BY <3>1, <3>3
  <2>4. QED BY <1>2, <1>14, <2>1, <2>2, <2>3 DEF Rest
<1>17. InputInv'
  BY <1>2, <1>3, <1>4, <1>15 DEF InputInv
<1>18. LinesFaithful'
  <2>1. /\ Len(handled) <= Len(asked) /\ handled \in Seq(Seq(Char))
        /\ \A i \in DOMAIN handled : handled[i] = [j \in 1 .. asked[i] |-> i]
    BY DEF LineInv, LinesFaithful, InputInv
  <2>2. DOMAIN handled = 1 .. Len(handled) /\ Len(handled) \in Nat
    BY <2>1, LenProperties
  <2>3. ASSUME NEW i \in DOMAIN handled PROVE asked'[i] = asked[i]
    <3>1. i \in 1 .. Len(asked)
      BY <1>3, <2>1, <2>2
    <3>2. QED BY <1>4, <3>1
  <2>4. Len(handled) <= Len(asked')
    BY <1>3, <1>4, <2>1, <2>2
  <2>5. QED BY <1>2, <2>1, <2>3, <2>4 DEF LinesFaithful
<1>19. LineInv'
  <2>1. PICK start : Layout(start, asked, Len(handled), Rest)
    BY DEF LineInv
  <2>2. PICK r, h : r = Rest /\ h = Len(handled)
    OBVIOUS
  <2>3. \A i \in 1 .. n : x[i] = Len(asked) + 1
    BY <1>4, <1>7, <1>11
  <2>4. \E longer : Layout(longer, Append(asked, n), h, r \o x)
    <3>1. Layout(start, asked, h, r) /\ r \in Seq(Nat)
      BY <1>3, <2>1, <2>2
    <3>2. QED BY <1>3, <1>11, <1>12, <1>13, <2>3, <3>1, ExtendOne
  <2>5. PICK longer : Layout(longer, Append(asked, n), h, r \o x)
    BY <2>4
  <2>6. Layout(longer, asked', Len(handled'), Rest')
    BY <1>1, <1>2, <1>16, <2>2, <2>5
  <2>7. \A i \in 1 .. Len(line'.text) : line'.text[i] # 0
    BY <1>2 DEF LineInv
  <2>8. QED BY <1>18, <2>6, <2>7 DEF LineInv
<1>20. QED BY <1>17, <1>19

LEMMA LineInit ==
  ASSUME ServerInit
  PROVE  LineSide
<1>1. /\ asked = <<>> /\ wire = <<>> /\ conn.in = <<>> /\ handled = <<>>
      /\ line = [text |-> <<>>, flushed |-> FALSE] /\ line.text = <<>>
  BY DEF ServerInit
<1>2. InputInv
  <2>1. \A S : <<>> \in Seq(S)
    BY EmptySeq
  <2>2. Len(<<>>) = 0
    OBVIOUS
  <2>3. line \in [text : Seq(Char), flushed : BOOLEAN]
    BY <1>1, <2>1
  <2>4. QED BY <1>1, <2>1, <2>2, <2>3, SocketAssumption DEF InputInv
<1>3. Rest = <<>>
  <2>1. <<>> \in Seq(Nat)
    OBVIOUS
  <2>2. QED BY <1>1, <2>1, ConcatEmptySeq DEF Rest
<1>4. Layout([n \in 1 .. 1 |-> 0], <<>>, 0, <<>>)
  BY DEF Layout
<1>5. LinesFaithful
  BY <1>1 DEF LinesFaithful
<1>6. LineInv
  <2>1. Layout([n \in 1 .. 1 |-> 0], asked, Len(handled), Rest)
    BY <1>1, <1>3, <1>4
  <2>2. QED BY <1>1, <1>5, <2>1 DEF LineInv
<1>7. QED BY <1>2, <1>6 DEF LineSide

LEMMA LineNext ==
  ASSUME ReplySide, LineSide, [ServerNext]_srvVars
  PROVE  LineSide'
<1>1. CASE UNCHANGED srvVars
  BY <1>1, LineStutter DEF srvVars, clientVars, lineVars
<1>2. CASE SendLine
  BY <1>2, SendLineStep
<1>3. CASE Send
  <2>1. UNCHANGED <<asked, wire, line, handled>>
    BY <1>3 DEF Send, clientVars, lineVars
  <2>2. conn' = conn \/ conn' = [conn EXCEPT !.error = TRUE]
    BY <1>3 DEF Send
  <2>3. conn'.in = conn.in
    BY <2>2, SetConn DEF ReplySide
  <2>4. QED BY <2>1, <2>3, LineStutter
<1>4. CASE ReadLine
  <2>1. UNCHANGED asked /\ ConnInv
    BY <1>4, ReadLineCases DEF ReplySide
  <2>2. CASE UNCHANGED <<line, handled, wire, conn, sending>>
    BY <2>1, <2>2, LineStutter
  <2>3. CASE Overrun
    <3>1. conn'.in = conn.in /\ UNCHANGED <<line, handled, wire>>
      BY <2>1, <2>3, SetConn DEF Overrun, lineVars
    <3>2. QED BY <2>1, <3>1, LineStutter
  <2>4. CASE \E n \in 0 .. Len(conn.in) : NewlineAfter(n) /\ Fits(n) /\ TakeLine(n)
    BY <2>1, <2>4, TakeLineStep
  <2>5. CASE /\ \A i \in DOMAIN conn.in : conn.in[i] # 0
             /\ Fits(Len(conn.in)) /\ SetAside
    BY <2>1, <2>5, SetAsideStep
  <2>6. QED BY <1>4, <2>2, <2>3, <2>4, <2>5, ReadLineCases
<1>5. CASE FillInBuf
  BY <1>5, FillStep DEF ReplySide
<1>6. CASE WriteStep
  <2>1. UNCHANGED <<asked, wire, line, handled>>
    BY <1>6, WriteContext
  <2>2. conn'.in = conn.in
    BY <1>6, WriteStepReply
  <2>3. QED BY <2>1, <2>2, LineStutter
<1>7. CASE DeleteConnection
  <2>1. conn' = [conn EXCEPT !.out = <<>>] /\ UNCHANGED <<asked, wire, line, handled>>
    BY <1>7 DEF DeleteConnection, keptVars, clientVars, lineVars
  <2>2. conn'.in = conn.in
    BY <2>1, SetConn DEF ReplySide
  <2>3. QED BY <2>1, <2>2, LineStutter
<1>8. CASE \/ ClientTurns \/ Command \/ WaitForLock \/ ClientLost \/ ReleaseLock
           \/ CommandDone \/ CloseSocket \/ Granted \/ LockTimeout \/ Accept
           \/ AcceptFails \/ Join \/ Terminate
  <2>1. UNCHANGED dataVars
    BY <1>8, QuietStep
  <2>2. QED BY <2>1, LineStutter DEF dataVars
<1>9. QED
  BY <1>1, <1>2, <1>3, <1>4, <1>5, <1>6, <1>7, <1>8
     DEF ServerNext, Connection, Server

LEMMA ServerInvariant == ServerSpec => [](ReplySide /\ LineSide)
<1>1. ServerInit => ReplySide /\ LineSide
  BY ReplyInit, LineInit
<1>2. ReplySide /\ LineSide /\ [ServerNext]_srvVars => (ReplySide /\ LineSide)'
  BY ReplyNext, LineNext
<1>3. QED BY <1>1, <1>2, PTL DEF ServerSpec

\* The server's variables keep their types, and the buffers and the line being
\* assembled stay within their sizes whatever is read and written: fill_in_buf,
\* read_line, write_char, write_formatted_string and write_block never run past
\* the end of a buffer.
THEOREM ServerTypeCorrect == ServerSpec => []ServerTypeOK
<1>1. ReplySide /\ LineSide => ServerTypeOK
  BY DEF ReplySide, LineSide, ControlInv, OutputInv, ConnInv, InputInv, Char,
         ServerTypeOK
<1>2. QED BY <1>1, ServerInvariant, PTL

\* Whatever the sizes of the buffers and however the input is split into reads
\* and the output into writes, every line handled is the line that was sent
\* (read_line, fill_in_buf), and short of an error what the commands write
\* reaches the client once, whole and in order (buffered_file.c).
THEOREM TrafficHolds == ServerSpec => []TrafficFaithful
<1>1. ReplySide /\ LineSide => TrafficFaithful
  <2>1. SUFFICES ASSUME ReplySide, LineSide PROVE TrafficFaithful
    OBVIOUS
  <2>2. LinesFaithful
    BY <2>1 DEF LineSide, LineInv
  <2>3. RepliesInOrder
    BY <2>1 DEF ReplySide, ReplyInv, RepliesInOrder, UpTo
  <2>4. QED BY <2>2, <2>3 DEF TrafficFaithful
<1>2. QED BY <1>1, ServerInvariant, PTL

-----------------------------------------------------------------------------
(***************************************************************************)
(* The driver, its events and the server, see MCInterfaces.                *)
(***************************************************************************)
\* A behaviour of all three is one of each part: files, mask and connections
\* keep their types (the driver's files, its event mask, socket_server.c).
THEOREM InterfaceTypesCorrect == MCSpec => []TypesOK
<1>1. MCSpec => Spec
  <2>1. MCInit => Init
    BY DEF MCInit
  <2>2. [MCDriver \/ MCEvents \/ MCServer]_mcVars => [Next]_vars
    BY DEF MCDriver, MCEvents, MCServer, mcVars, eventVars, srvVars
  <2>3. QED BY <2>1, <2>2, PTL DEF MCSpec, Spec
<1>2. MCSpec => EventSpec
  <2>1. MCInit => EventInit
    BY DEF MCInit
  <2>2. [MCDriver \/ MCEvents \/ MCServer]_mcVars => [EventNext]_eventVars
    BY DEF MCDriver, MCEvents, MCServer, mcVars, vars, srvVars
  <2>3. QED BY <2>1, <2>2, PTL DEF MCSpec, EventSpec
<1>3. MCSpec => ServerSpec
  <2>1. MCInit => ServerInit
    BY DEF MCInit
  <2>2. [MCDriver \/ MCEvents \/ MCServer]_mcVars => [ServerNext]_srvVars
    BY DEF MCDriver, MCEvents, MCServer, mcVars, vars, eventVars
  <2>3. QED BY <2>1, <2>2, PTL DEF MCSpec, ServerSpec
<1>4. TypeOK /\ EventTypeOK /\ ServerTypeOK => TypesOK
  BY DEF TypesOK
<1>5. QED BY <1>1, <1>2, <1>3, <1>4, TypeCorrect, EventTypeCorrect, ServerTypeCorrect, PTL


=============================================================================
