------------------------------ MODULE BunchFir ------------------------------
(***************************************************************************)
(* The taps of a bank of the bunch by bunch filter, epics/src/bunch_fir.c: *)
(* computed from LENGTH, CYCLES and PHASE, or taken from the waveform      *)
(* TAPS_S, as USEWF says.  These are records that nothing links (but the   *)
(* settings, which process RELOAD), so that EPICS processes them side by   *)
(* side on one struct fir_bank without a lock.  In LMBF mode settings and  *)
(* USEWF act on both axes, each of which has a waveform of its own.        *)
(*                                                                         *)
(* The taps are one value: they are looked up, and stored, in one step     *)
(* each.  Without LMBF mode the axes are independent, and only the first   *)
(* has all its records here.  Left out: gain, decimation and overflow.     *)
(***************************************************************************)
EXTENDS Naturals

CONSTANTS
  PhaseOffset,   \* lmbf_fir_offset, as a number added to the settings
  MaxFirWrites   \* bound: writes of records

ASSUME BunchFirAssumption == PhaseOffset \in Nat /\ MaxFirWrites \in Nat

VARIABLES
  lmbf,          \* lmbf_mode
  useWaveform,   \* of each axis
  settings,      \* of each axis: length, cycles and phase
  setTaps,       \* of each axis: what TAPS_S was given
  currentTaps,   \* of each axis
  firTaps,       \* of each axis: the taps in hardware
  firStep,       \* what each record is doing, and to which axis
  firHeld,       \* the taps it has looked up
  behind,        \* history: other taps have been chosen since
  outdated,      \* history: such taps were the last stored, of each axis
  firWrites      \* bound

firVars == <<lmbf, useWaveform, settings, setTaps, currentTaps, firTaps,
             firStep, firHeld, behind, outdated, firWrites>>

FirAxis == {0, 1}
FirRecord == {"USEWF", "SETTINGS", "TAPS_S 0", "TAPS_S 1"}
Taps == [by : {"settings", "waveform"}, of : Nat]
TapsOf(axis) == IF axis = 0 THEN "TAPS_S 0" ELSE "TAPS_S 1"
Other(setting) == setting + PhaseOffset

FirTypeOK ==
  /\ lmbf \in BOOLEAN /\ useWaveform \in [FirAxis -> BOOLEAN]
  /\ settings \in [FirAxis -> Nat] /\ setTaps \in [FirAxis -> Nat]
  /\ currentTaps \in [FirAxis -> Taps] /\ firTaps \in [FirAxis -> Taps]
  /\ firStep \in [FirRecord ->
       [step : {"idle", "reload", "taps", "other", "look", "store", "write"},
        axis : FirAxis]]
  /\ firHeld \in [FirRecord -> Taps]
  /\ behind \in [FirRecord -> BOOLEAN] /\ outdated \in [FirAxis -> BOOLEAN]
  /\ firWrites \in 0 .. MaxFirWrites

\* update_bank_taps() takes the taps from what USEWF says.
Chosen(axis) ==
  IF useWaveform[axis] THEN [by |-> "waveform", of |-> setTaps[axis]]
  ELSE [by |-> "settings", of |-> settings[axis]]

\* Each record has been processed once with what was saved.
FirInit ==
  /\ lmbf \in BOOLEAN /\ useWaveform \in [FirAxis -> BOOLEAN]
  /\ lmbf => useWaveform[0] = useWaveform[1]
  /\ settings = [a \in FirAxis |-> IF a = 1 /\ lmbf THEN Other(0) ELSE 0]
  /\ setTaps = [a \in FirAxis |-> 0]
  /\ currentTaps = [a \in FirAxis |-> Chosen(a)] /\ firTaps = currentTaps
  /\ firStep = [r \in FirRecord |-> [step |-> "idle", axis |-> 0]]
  /\ firHeld = [r \in FirRecord |-> Chosen(0)]
  /\ behind = [r \in FirRecord |-> FALSE]
  /\ outdated = [a \in FirAxis |-> FALSE] /\ firWrites = 0

-----------------------------------------------------------------------------

FirGoes(r, step, axis) ==
  firStep' = [firStep EXCEPT ![r] = [step |-> step, axis |-> axis]]
FirAt(r, step) == firStep[r].step = step

\* What a record has in hand may no longer be what is to be loaded.
LeavesBehind ==
  behind' = [r \in FirRecord |->
    LET a == firStep[r].axis
    IN  behind[r] \/ (FirAt(r, "store") /\ Chosen(a)' # Chosen(a))]

FirBegins(r) ==
  /\ FirAt(r, "idle") /\ firWrites < MaxFirWrites
  /\ firWrites' = firWrites + 1

\* LENGTH, CYCLES or PHASE, which forward to reload_fir(); it copies them.
WriteSettings ==
  /\ FirBegins("SETTINGS")
  /\ settings' = [settings EXCEPT
       ![0] = firWrites + 1, ![1] = IF lmbf THEN Other(firWrites + 1) ELSE @]
  /\ FirGoes("SETTINGS", "reload", 0)
  /\ UNCHANGED <<lmbf, useWaveform, setTaps, currentTaps, firTaps, firHeld,
                 outdated>>
  /\ LeavesBehind

\* reload_fir() has nothing to do if the waveform is used.
Reload ==
  /\ FirAt("SETTINGS", "reload")
  /\ FirGoes("SETTINGS", IF useWaveform[0] THEN "idle" ELSE "look", 0)
  /\ UNCHANGED <<lmbf, useWaveform, settings, setTaps, currentTaps, firTaps,
                 firHeld, behind, outdated, firWrites>>

SetUseWaveform(axis, use) ==
  /\ useWaveform' = [useWaveform EXCEPT ![axis] = use]
  /\ FirGoes("USEWF", "look", axis)
  /\ UNCHANGED <<lmbf, settings, setTaps, currentTaps, firTaps, firHeld,
                 outdated>>
  /\ LeavesBehind

\* set_use_waveform(), if that is a change
SwitchWaveform ==
  /\ FirBegins("USEWF")
  /\ SetUseWaveform(0, ~useWaveform[0])

\* The other axis follows after the taps of the first have been written.
SwitchOther ==
  /\ FirAt("USEWF", "other")
  /\ SetUseWaveform(1, useWaveform[0])
  /\ UNCHANGED firWrites

\* set_fir_taps()
WriteTapsWaveform(axis) ==
  LET r == TapsOf(axis)
  IN  /\ FirBegins(r)
      /\ setTaps' = [setTaps EXCEPT ![axis] = firWrites + 1]
      /\ FirGoes(r, "taps", axis)
      /\ UNCHANGED <<lmbf, useWaveform, settings, currentTaps, firTaps, firHeld,
                     outdated>>
      /\ LeavesBehind

\* Mutant of UseTaps: the waveform is only loaded by USEWF.
UseTapsNever(axis) == FALSE

\* Otherwise it is kept for when it is used.
UseTaps(axis) == useWaveform[axis]

TestTaps(r) ==
  /\ FirAt(r, "taps")
  /\ LET axis == firStep[r].axis
     IN  FirGoes(r, IF UseTaps(axis) THEN "look" ELSE "idle", axis)
  /\ UNCHANGED <<lmbf, useWaveform, settings, setTaps, currentTaps, firTaps,
                 firHeld, behind, outdated, firWrites>>

-----------------------------------------------------------------------------
(* update_bank_taps() of one axis, and after it of the other if need be.   *)

LookUp(r) ==
  /\ FirAt(r, "look")
  /\ firHeld' = [firHeld EXCEPT ![r] = Chosen(firStep[r].axis)]
  /\ behind' = [behind EXCEPT ![r] = FALSE]
  /\ FirGoes(r, "store", firStep[r].axis)
  /\ UNCHANGED <<lmbf, useWaveform, settings, setTaps, currentTaps, firTaps,
                 outdated, firWrites>>

\* memcpy() or compute_fir_taps()
StoreTaps(r) ==
  /\ FirAt(r, "store")
  /\ currentTaps' = [currentTaps EXCEPT ![firStep[r].axis] = firHeld[r]]
  /\ outdated' = [outdated EXCEPT ![firStep[r].axis] = behind[r]]
  /\ FirGoes(r, "write", firStep[r].axis)
  /\ UNCHANGED <<lmbf, useWaveform, settings, setTaps, firTaps, firHeld,
                 behind, firWrites>>

\* Only records of both axes go on to the second.
AndOther(r, axis) == lmbf /\ axis = 0 /\ r \in {"USEWF", "SETTINGS"}

\* update_taps()
WriteBankTaps(r) ==
  /\ FirAt(r, "write")
  /\ LET axis == firStep[r].axis
     IN  /\ firTaps' = [firTaps EXCEPT ![axis] = currentTaps[axis]]
         /\ CASE ~AndOther(r, axis) -> FirGoes(r, "idle", axis)
              [] AndOther(r, axis) /\ r = "USEWF" -> FirGoes(r, "other", 1)
              [] OTHER -> FirGoes(r, "look", 1)
  /\ UNCHANGED <<lmbf, useWaveform, settings, setTaps, currentTaps, firHeld,
                 behind, outdated, firWrites>>

FirNext ==
  \/ WriteSettings \/ Reload \/ SwitchWaveform \/ SwitchOther
  \/ \E a \in FirAxis : WriteTapsWaveform(a)
  \/ \E r \in FirRecord :
       TestTaps(r) \/ LookUp(r) \/ StoreTaps(r) \/ WriteBankTaps(r)

FirSpec == FirInit /\ [][FirNext]_firVars

-----------------------------------------------------------------------------
(* Properties.                                                             *)

\* When no record of a bank is being processed, the hardware has the taps that
\* the bank shows, in LMBF mode the axes agree, and the taps of an axis are
\* those that USEWF, the settings and TAPS_S say if they were when they were
\* stored: whoever changes what is to be loaded loads it, however the records
\* meet.  The taps that are wrong are those that were looked up before other
\* taps were chosen and stored after those: they stay until the next load of
\* that axis (update_bank_taps, reload_fir, set_use_waveform, set_fir_taps).
FirFollows ==
  (\A r \in FirRecord : FirAt(r, "idle")) =>
    /\ \A a \in FirAxis :
         /\ firTaps[a] = currentTaps[a]
         /\ ~outdated[a] => currentTaps[a] = Chosen(a)
    /\ lmbf => /\ useWaveform[1] = useWaveform[0]
               /\ settings[1] = Other(settings[0])

=============================================================================
