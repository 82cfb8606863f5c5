---------------------------- MODULE RecordsProofs ----------------------------
(***************************************************************************)
(* Proofs about Converter, BunchFir, HwRegisters and MinMaxSum: what the   *)
(* records of a converter and of a filter bank load into the hardware is   *)
(* what they say, however they are processed side by side, for any number  *)
(* of writes; what any number of threads write to shared registers and     *)
(* memories arrives whole; what SCAN and ARCHIVE publish are the           *)
(* statistics of the turns they claim.  Then the types of all that the     *)
(* records share.                                                          *)
(***************************************************************************)
EXTENDS MCRecords, BunchProofs, TLAPS

(***************************************************************************)
(* Converter.  A source record has still to set a delay; until then that   *)
(* delay may be wrong.                                                     *)
(***************************************************************************)
ToSet(k, d) ==
  \/ sourceStep[k].step = "write"
  \/ /\ sourceStep[k].step \in {"fetch", "set"}
     /\ sourceStep[k].delay \in {"mms", d}

SourceInv ==
  /\ \A k \in Kind : sourceStep[k].step # "write" => inHardware[k] = selected[k]
  /\ \A k \in Kind : sourceStep[k].step = "set" /\ ~replaced[k] =>
       LET d == sourceStep[k].delay
       IN  fetched[k] = DelayOf(d, selected[d])
  /\ \A k \in Kind :
       ~ToSet(k, k) /\ ~stale[k] => delay[k] = DelayOf(k, selected[k])

(***************************************************************************)
(* The first tick goes through the axes; those it has been at, and after   *)
(* the second all, have the output that ENABLE says.                       *)
(***************************************************************************)
OutputInv ==
  /\ ticks = 2 => \A a \in OutputAxis : ~output[a]
  /\ ticks # 1 => scan = AxisCount
  /\ ticks # 0 => \A a \in OutputAxis : enableStep[a] # "write"
  /\ ticks < 2 => \A a \in OutputAxis :
       scan > a /\ enableStep[a] = "idle" /\ ~missed[a] =>
         output[a] = enabled[a]

ConverterInv == ConverterTypeOK /\ SourceInv /\ OutputInv

(***************************************************************************)
(* BunchFir.  Each record keeps to its own steps and axes.                 *)
(***************************************************************************)
CourseInv ==
  /\ \A r \in FirRecord :
       /\ FirAt(r, "reload") => r = "SETTINGS" /\ firStep[r].axis = 0
       /\ FirAt(r, "other") => r = "USEWF" /\ lmbf
       /\ FirAt(r, "taps") => r = TapsOf(firStep[r].axis)
       /\ firStep[r].axis = 1 /\ ~FirAt(r, "idle") => lmbf \/ r = TapsOf(1)
  /\ lmbf => settings[1] = Other(settings[0])

\* A record is on its way to store what is set now on an axis.
WillStore(r, axis) ==
  \/ firStep[r].axis = axis /\ firStep[r].step \in {"look", "store"}
  \/ firStep[r].axis = axis /\ FirAt(r, "taps") /\ useWaveform[axis]
  \/ FirAt(r, "reload") /\ ~useWaveform[0] /\ (axis = 0 \/ lmbf)
  \/ FirAt(r, "other") /\ axis = 1
  \/ /\ AndOther(r, firStep[r].axis) /\ axis = 1
     /\ firStep[r].step \in {"look", "store", "write"}

\* USEWF is between the two axes.
Between ==
  \/ FirAt("USEWF", "other")
  \/ /\ firStep["USEWF"].axis = 0
     /\ firStep["USEWF"].step \in {"look", "store", "write"}

(***************************************************************************)
(* Taps in hand are those that are set, and taps that are not will be      *)
(* replaced.                                                               *)
(***************************************************************************)
LoadedInv ==
  \A a \in FirAxis :
    (\A r \in FirRecord : ~(FirAt(r, "write") /\ firStep[r].axis = a))
      => firTaps[a] = currentTaps[a]

AlikeInv == lmbf /\ ~Between => useWaveform[1] = useWaveform[0]

HeldInv ==
  \A r \in FirRecord :
    FirAt(r, "store") /\ ~behind[r] => firHeld[r] = Chosen(firStep[r].axis)

StoredInv ==
  \A a \in FirAxis :
    ~outdated[a] /\ (\A r \in FirRecord : ~WillStore(r, a)) =>
      currentTaps[a] = Chosen(a)

TapsInv == LoadedInv /\ AlikeInv /\ HeldInv /\ StoredInv

FirInv == FirTypeOK /\ CourseInv /\ TapsInv

-----------------------------------------------------------------------------
(* Converter: the invariant holds at first, and each step preserves it.    *)

LEMMA SourcesAre ==
  /\ \A c \in {"ADC", "DAC"}, k \in Kind :
       /\ SourcesOf(c, k) \subseteq AnySource
       /\ (IF c = "ADC" THEN "RAW" ELSE "BEFORE") \in AnySource
  /\ \A k \in Kind, s \in AnySource : DelayOf(k, s) \in AnyDelay
<1>1. \A c \in {"ADC", "DAC"}, k \in Kind : SourcesOf(c, k) \subseteq AnySource
  <2> TAKE c \in {"ADC", "DAC"}, k \in Kind
  <2>1. SUFFICES ASSUME NEW s \in SourcesOf(c, k) PROVE s \in AnySource
    OBVIOUS
  <2>2. QED BY <2>1 DEF AnySource
<1>2. /\ "RAW" \in SourcesOf("ADC", "mms")
      /\ "BEFORE" \in SourcesOf("DAC", "mms")
  BY DEF SourcesOf
<1>3. "RAW" \in AnySource /\ "BEFORE" \in AnySource
  BY <1>1, <1>2 DEF Kind
<1>4. \A k \in Kind, s \in AnySource : DelayOf(k, s) \in AnyDelay
  BY DEF AnyDelay
<1>5. QED BY <1>1, <1>3, <1>4

LEMMA ConverterStart == ConverterInit => ConverterInv
<1> SUFFICES ASSUME ConverterInit PROVE ConverterInv
  OBVIOUS
<1>1. ConverterTypeOK
  <2>1. selected \in [Kind -> AnySource]
    BY SourcesAre DEF ConverterInit
  <2>2. delay \in [Kind -> AnyDelay]
    BY <2>1, SourcesAre DEF ConverterInit
  <2>3. sourceStep \in [Kind -> [step : {"idle", "write", "fetch", "set"},
                                 delay : Kind]]
    BY DEF ConverterInit, Kind
  <2>4. /\ ticks \in 0 .. 2 /\ scan \in 0 .. AxisCount
        /\ selections \in 0 .. MaxSelections
    BY ConverterAssumption DEF ConverterInit, AxisCount
  <2>5. QED BY <2>1, <2>2, <2>3, <2>4 DEF ConverterInit, ConverterTypeOK
<1>2. SourceInv
  BY DEF ConverterInit, SourceInv, ToSet, Kind
<1>3. OutputInv
  BY DEF ConverterInit, OutputInv
<1>4. QED BY <1>1, <1>2, <1>3 DEF ConverterInv

LEMMA SourceTypes ==
  ASSUME ConverterTypeOK, NEW k \in Kind,
         SelectSource(k) \/ WriteSourceRegister(k) \/ FetchDelay(k) \/ SetDelay(k)
  PROVE  ConverterTypeOK'
<1>1. CASE SelectSource(k)
  BY <1>1, SourcesAre, ConverterAssumption
     DEF SelectSource, SourceGoes, ConverterTypeOK, enableVars, Kind
<1>2. CASE WriteSourceRegister(k)
  BY <1>2 DEF WriteSourceRegister, SourceGoes, ConverterTypeOK, enableVars, Kind
<1>3. CASE FetchDelay(k)
  BY <1>3, SourcesAre
     DEF FetchDelay, SourceGoes, ConverterTypeOK, enableVars, Kind
<1>4. CASE SetDelay(k)
  BY <1>4 DEF SetDelay, SourceGoes, ConverterTypeOK, enableVars, Kind
<1>5. QED BY <1>1, <1>2, <1>3, <1>4

LEMMA EnableTypes ==
  ASSUME ConverterTypeOK,
         \/ \E a \in OutputAxis : WriteEnable(a) \/ TestTicks(a) \/ WriteOutput(a)
         \/ Tick \/ TickOutput
  PROVE  ConverterTypeOK'
<1>1. ASSUME NEW a \in OutputAxis, WriteEnable(a) PROVE ConverterTypeOK'
  BY <1>1, ConverterAssumption DEF WriteEnable, ConverterTypeOK, sourceVars
<1>2. ASSUME NEW a \in OutputAxis, TestTicks(a) PROVE ConverterTypeOK'
  BY <1>2 DEF TestTicks, ConverterTypeOK, sourceVars
<1>3. ASSUME NEW a \in OutputAxis, WriteOutput(a) PROVE ConverterTypeOK'
  BY <1>3 DEF WriteOutput, ConverterTypeOK, sourceVars
<1>4. CASE Tick
  BY <1>4 DEF Tick, ConverterTypeOK, sourceVars, AxisCount
<1>5. CASE TickOutput
  BY <1>5 DEF TickOutput, ConverterTypeOK, sourceVars, AxisCount, OutputAxis
<1>6. QED BY <1>1, <1>2, <1>3, <1>4, <1>5

(***************************************************************************)
(* A record that starts again has the delay of its new source to set; the  *)
(* other one is either not about to set that delay, or will look it up, or *)
(* has it in hand already, which is what "replaced" remembers.             *)
(***************************************************************************)
LEMMA SourceSteps ==
  ASSUME ConverterTypeOK, SourceInv, NEW k \in Kind,
         SelectSource(k) \/ WriteSourceRegister(k) \/ FetchDelay(k) \/ SetDelay(k)
  PROVE  SourceInv'
<1>1. CASE SelectSource(k)
  <2> USE <1>1 DEF SelectSource
  <2>1. /\ sourceStep'[k].step = "write"
        /\ \A o \in Kind \ {k} : sourceStep'[o] = sourceStep[o]
        /\ \A o \in Kind \ {k} : selected'[o] = selected[o]
    BY DEF SourceGoes, ConverterTypeOK
  <2>2. ASSUME NEW o \in Kind \ {k}, ~replaced'[o], sourceStep[o].step = "set"
        PROVE  ~replaced[o] /\ sourceStep[o].delay = o
    <3>1. ~replaced[o] /\ sourceStep[o] # [step |-> "set", delay |-> k]
      BY <2>2 DEF ConverterTypeOK
    <3>2. sourceStep[o].delay # k
      BY <2>2, <3>1 DEF ConverterTypeOK
    <3>3. QED BY <3>1, <3>2 DEF ConverterTypeOK, Kind
  <2>3. \A o \in Kind :
          sourceStep'[o].step # "write" => inHardware'[o] = selected'[o]
    BY <2>1 DEF SourceInv
  <2>4. ASSUME NEW o \in Kind, sourceStep'[o].step = "set", ~replaced'[o]
        PROVE  fetched'[o] = DelayOf(sourceStep'[o].delay,
                                     selected'[sourceStep'[o].delay])
    <3>1. o # k /\ sourceStep'[o] = sourceStep[o] /\ selected'[o] = selected[o]
      BY <2>1, <2>4
    <3>2. ~replaced[o] /\ sourceStep[o].delay = o
      BY <2>2, <2>4, <3>1
    <3>3. QED BY <2>4, <3>1, <3>2 DEF SourceInv
  <2>5. ASSUME NEW o \in Kind, ~(ToSet(o, o))', ~stale'[o]
        PROVE  delay'[o] = DelayOf(o, selected'[o])
    <3>1. o # k
      BY <2>1, <2>5 DEF ToSet
    <3>2. sourceStep'[o] = sourceStep[o] /\ selected'[o] = selected[o]
      BY <2>1, <3>1
    <3>3. ~ToSet(o, o)
      BY <2>5, <3>2 DEF ToSet
    <3>4. QED BY <2>5, <3>2, <3>3 DEF SourceInv
  <2>6. QED BY <2>3, <2>4, <2>5 DEF SourceInv
<1>2. CASE WriteSourceRegister(k)
  BY <1>2
     DEF WriteSourceRegister, SourceGoes, SourceInv, ConverterTypeOK, ToSet, Kind
<1>3. CASE FetchDelay(k)
  BY <1>3 DEF FetchDelay, SourceGoes, SourceInv, ConverterTypeOK, ToSet, Kind
<1>4. CASE SetDelay(k)
  BY <1>4 DEF SetDelay, SourceGoes, SourceInv, ConverterTypeOK, ToSet, Kind
<1>5. QED BY <1>1, <1>2, <1>3, <1>4

LEMMA SourceUnchanged ==
  ASSUME SourceInv, UNCHANGED sourceVars
  PROVE  SourceInv'
BY DEF SourceInv, ToSet, sourceVars

(***************************************************************************)
(* No ENABLE record writes an output while the first tick does; each axis  *)
(* is either behind the tick or is not yet what ENABLE says.               *)
(***************************************************************************)
LEMMA OutputSteps ==
  ASSUME ConverterTypeOK, OutputInv,
         \/ \E a \in OutputAxis : WriteEnable(a) \/ TestTicks(a) \/ WriteOutput(a)
         \/ Tick \/ TickOutput
  PROVE  OutputInv'
<1>1. ASSUME NEW a \in OutputAxis, WriteEnable(a) PROVE OutputInv'
  BY <1>1 DEF WriteEnable, OutputInv, ConverterTypeOK, OutputAxis, AxisCount
<1>2. ASSUME NEW a \in OutputAxis, TestTicks(a) PROVE OutputInv'
  BY <1>2 DEF TestTicks, OutputInv, ConverterTypeOK, OutputAxis, AxisCount
<1>3. ASSUME NEW a \in OutputAxis, WriteOutput(a) PROVE OutputInv'
  BY <1>3 DEF WriteOutput, OutputInv, ConverterTypeOK, OutputAxis, AxisCount
<1>4. CASE Tick
  BY <1>4 DEF Tick, OutputInv, ConverterTypeOK, OutputAxis, AxisCount
<1>5. CASE TickOutput
  BY <1>5 DEF TickOutput, OutputInv, ConverterTypeOK, OutputAxis, AxisCount
<1>6. QED BY <1>1, <1>2, <1>3, <1>4, <1>5

LEMMA OutputUnchanged ==
  ASSUME OutputInv, UNCHANGED enableVars
  PROVE  OutputInv'
BY DEF OutputInv, enableVars

LEMMA ConverterStep ==
  ConverterInv /\ [ConverterNext]_converterVars => ConverterInv'
<1> SUFFICES ASSUME ConverterInv, [ConverterNext]_converterVars
             PROVE  ConverterInv'
  OBVIOUS
<1> USE DEF ConverterInv
<1>1. ASSUME NEW k \in Kind,
             \/ SelectSource(k) \/ WriteSourceRegister(k)
             \/ FetchDelay(k) \/ SetDelay(k)
      PROVE  ConverterInv'
  <2>1. UNCHANGED enableVars
    BY <1>1 DEF SelectSource, WriteSourceRegister, FetchDelay, SetDelay
  <2>2. QED BY <1>1, <2>1, SourceTypes, SourceSteps, OutputUnchanged
<1>2. ASSUME \/ \E a \in OutputAxis :
                  WriteEnable(a) \/ TestTicks(a) \/ WriteOutput(a)
             \/ Tick \/ TickOutput
      PROVE  ConverterInv'
  <2>1. UNCHANGED sourceVars
    BY <1>2 DEF WriteEnable, TestTicks, WriteOutput, Tick, TickOutput
  <2>2. QED BY <1>2, <2>1, EnableTypes, OutputSteps, SourceUnchanged
<1>3. CASE UNCHANGED converterVars
  BY <1>3, SourceUnchanged, OutputUnchanged
     DEF converterVars, ConverterTypeOK, sourceVars, enableVars
<1>4. QED BY <1>1, <1>2, <1>3 DEF ConverterNext

\* The steps of every source and ENABLE record, and of the scan, are well
\* typed (dac.c, adc.c).
THEOREM ConverterTypeCorrect == ConverterSpec => []ConverterTypeOK
<1>1. ConverterInv => ConverterTypeOK
  BY DEF ConverterInv
<1>2. QED BY <1>1, ConverterStart, ConverterStep, PTL DEF ConverterSpec

\* Delays and outputs are what the records of a converter say, for any number
\* of writes, but for a delay that was set after the other record had replaced
\* its source, and an output whose ENABLE was last written between the ticks
\* (update_delays, write_dac_output_enable, tick_output_enable_delay).
THEOREM SourcesFollowed == ConverterSpec => []ConverterCorrect
<1>1. ConverterInv => ConverterCorrect
  <2> SUFFICES ASSUME ConverterInv PROVE ConverterCorrect
    OBVIOUS
  <2>1. OffsetsFollow
    BY DEF ConverterInv, ConverterTypeOK, SourceInv, ToSet, OffsetsFollow
  <2>2. OutputFollows
    BY DEF ConverterInv, ConverterTypeOK, OutputInv, OutputFollows, OutputAxis,
           AxisCount
  <2>3. QED BY <2>1, <2>2 DEF ConverterCorrect
<1>2. QED BY <1>1, ConverterStart, ConverterStep, PTL DEF ConverterSpec

-----------------------------------------------------------------------------
(* BunchFir.                                                               *)

LEMMA FirRecords ==
  /\ "USEWF" \in FirRecord /\ "SETTINGS" \in FirRecord
  /\ \A a \in FirAxis : TapsOf(a) \in FirRecord \ {"USEWF", "SETTINGS"}
  /\ TapsOf(0) # TapsOf(1)
BY DEF FirRecord, FirAxis, TapsOf

LEMMA ChosenTaps ==
  ASSUME useWaveform \in [FirAxis -> BOOLEAN],
         settings \in [FirAxis -> Nat], setTaps \in [FirAxis -> Nat]
  PROVE  \A a \in FirAxis : Chosen(a) \in Taps
BY DEF Chosen, Taps

LEMMA FirStart == FirInit => FirInv
<1> SUFFICES ASSUME FirInit PROVE FirInv
  OBVIOUS
<1>1. /\ useWaveform \in [FirAxis -> BOOLEAN]
      /\ settings \in [FirAxis -> Nat] /\ setTaps \in [FirAxis -> Nat]
  BY BunchFirAssumption DEF FirInit, Other
<1>2. /\ currentTaps \in [FirAxis -> Taps] /\ firTaps \in [FirAxis -> Taps]
      /\ firHeld \in [FirRecord -> Taps]
  BY <1>1, ChosenTaps DEF FirInit, FirAxis
<1>3. FirTypeOK
  <2>1. firStep \in [FirRecord ->
         [step : {"idle", "reload", "taps", "other", "look", "store", "write"},
          axis : FirAxis]]
    BY DEF FirInit, FirAxis
  <2>2. /\ lmbf \in BOOLEAN /\ behind \in [FirRecord -> BOOLEAN]
        /\ outdated \in [FirAxis -> BOOLEAN]
    BY Zenon DEF FirInit
  <2>3. firWrites \in 0 .. MaxFirWrites
    BY BunchFirAssumption DEF FirInit
  <2>4. QED BY <1>1, <1>2, <2>1, <2>2, <2>3 DEF FirTypeOK
<1>4. CourseInv
  BY DEF FirInit, CourseInv, FirAt, FirAxis
<1>5. TapsInv
  BY FirRecords
     DEF FirInit, TapsInv, LoadedInv, AlikeInv, HeldInv, StoredInv, FirAt
<1>6. QED BY <1>3, <1>4, <1>5 DEF FirInv

LEMMA FirTypes ==
  ASSUME FirTypeOK, FirNext
  PROVE  FirTypeOK'
<1> USE BunchFirAssumption, FirRecords DEF FirTypeOK, FirGoes
<1>1. CASE WriteSettings
  BY <1>1 DEF WriteSettings, FirBegins, Other, FirAxis, LeavesBehind
<1>2. CASE Reload
  BY <1>2 DEF Reload, FirAxis
<1>3. CASE SwitchWaveform
  BY <1>3 DEF SwitchWaveform, SetUseWaveform, FirBegins, FirAxis, LeavesBehind
<1>4. CASE SwitchOther
  BY <1>4 DEF SwitchOther, SetUseWaveform, FirAxis, LeavesBehind
<1>5. ASSUME NEW a \in FirAxis, WriteTapsWaveform(a) PROVE FirTypeOK'
  BY <1>5 DEF WriteTapsWaveform, FirBegins, LeavesBehind
<1>6. ASSUME NEW r \in FirRecord, TestTaps(r) PROVE FirTypeOK'
  BY <1>6 DEF TestTaps
<1>7. ASSUME NEW r \in FirRecord, LookUp(r) PROVE FirTypeOK'
  BY <1>7, ChosenTaps DEF LookUp
<1>8. ASSUME NEW r \in FirRecord, StoreTaps(r) PROVE FirTypeOK'
  BY <1>8 DEF StoreTaps
<1>9. ASSUME NEW r \in FirRecord, WriteBankTaps(r) PROVE FirTypeOK'
  BY <1>9 DEF WriteBankTaps, FirAxis
<1>10. QED
  BY <1>1, <1>2, <1>3, <1>4, <1>5, <1>6, <1>7, <1>8, <1>9 DEF FirNext

LEMMA CourseSteps ==
  ASSUME FirTypeOK, CourseInv, FirNext
  PROVE  CourseInv'
<1> USE FirRecords DEF FirTypeOK, FirGoes, FirAt, CourseInv
<1>1. CASE WriteSettings
  BY <1>1 DEF WriteSettings, FirBegins, Other, FirAxis
<1>2. CASE Reload
  BY <1>2 DEF Reload, FirAxis
<1>3. CASE SwitchWaveform
  BY <1>3 DEF SwitchWaveform, SetUseWaveform, FirBegins, FirAxis
<1>4. CASE SwitchOther
  BY <1>4 DEF SwitchOther, SetUseWaveform, FirAxis
<1>5. ASSUME NEW a \in FirAxis, WriteTapsWaveform(a) PROVE CourseInv'
  BY <1>5 DEF WriteTapsWaveform, FirBegins
<1>6. ASSUME NEW r \in FirRecord, TestTaps(r) PROVE CourseInv'
  BY <1>6 DEF TestTaps
<1>7. ASSUME NEW r \in FirRecord, LookUp(r) PROVE CourseInv'
  BY <1>7 DEF LookUp
<1>8. ASSUME NEW r \in FirRecord, StoreTaps(r) PROVE CourseInv'
  BY <1>8 DEF StoreTaps
<1>9. ASSUME NEW r \in FirRecord, WriteBankTaps(r) PROVE CourseInv'
  BY <1>9, SMTT(30) DEF WriteBankTaps, FirAxis, AndOther
<1>10. QED
  BY <1>1, <1>2, <1>3, <1>4, <1>5, <1>6, <1>7, <1>8, <1>9 DEF FirNext

LEMMA LoadedSteps ==
  ASSUME FirTypeOK, CourseInv, TapsInv, FirNext
  PROVE  LoadedInv'
<1> USE FirRecords
    DEF FirTypeOK, FirGoes, FirAt, CourseInv, TapsInv, LoadedInv, AndOther
<1>1. CASE WriteSettings
  BY <1>1 DEF WriteSettings, FirBegins, Other, FirAxis
<1>2. CASE Reload
  BY <1>2 DEF Reload, FirAxis
<1>3. CASE SwitchWaveform
  BY <1>3 DEF SwitchWaveform, SetUseWaveform, FirBegins, FirAxis
<1>4. CASE SwitchOther
  BY <1>4 DEF SwitchOther, SetUseWaveform, FirAxis
<1>5. ASSUME NEW a \in FirAxis, WriteTapsWaveform(a) PROVE LoadedInv'
  BY <1>5 DEF WriteTapsWaveform, FirBegins
<1>6. ASSUME NEW r \in FirRecord, TestTaps(r) PROVE LoadedInv'
  BY <1>6 DEF TestTaps, UseTaps
<1>7. ASSUME NEW r \in FirRecord, LookUp(r) PROVE LoadedInv'
  BY <1>7 DEF LookUp
<1>8. ASSUME NEW r \in FirRecord, StoreTaps(r) PROVE LoadedInv'
  BY <1>8 DEF StoreTaps
<1>9. ASSUME NEW r \in FirRecord, WriteBankTaps(r) PROVE LoadedInv'
  BY <1>9 DEF WriteBankTaps, FirAxis
<1>10. QED
  BY <1>1, <1>2, <1>3, <1>4, <1>5, <1>6, <1>7, <1>8, <1>9 DEF FirNext

LEMMA AlikeSteps ==
  ASSUME FirTypeOK, CourseInv, TapsInv, FirNext
  PROVE  AlikeInv'
<1> USE FirRecords
    DEF FirTypeOK, FirGoes, FirAt, CourseInv, TapsInv, AlikeInv, Between,
        AndOther
<1>1. CASE WriteSettings
  BY <1>1 DEF WriteSettings, FirBegins, Other, FirAxis
<1>2. CASE Reload
  BY <1>2 DEF Reload, FirAxis
<1>3. CASE SwitchWaveform
  BY <1>3 DEF SwitchWaveform, SetUseWaveform, FirBegins, FirAxis
<1>4. CASE SwitchOther
  BY <1>4 DEF SwitchOther, SetUseWaveform, FirAxis
<1>5. ASSUME NEW a \in FirAxis, WriteTapsWaveform(a) PROVE AlikeInv'
  BY <1>5 DEF WriteTapsWaveform, FirBegins
<1>6. ASSUME NEW r \in FirRecord, TestTaps(r) PROVE AlikeInv'
  BY <1>6 DEF TestTaps, UseTaps
<1>7. ASSUME NEW r \in FirRecord, LookUp(r) PROVE AlikeInv'
  BY <1>7 DEF LookUp
<1>8. ASSUME NEW r \in FirRecord, StoreTaps(r) PROVE AlikeInv'
  BY <1>8 DEF StoreTaps
<1>9. ASSUME NEW r \in FirRecord, WriteBankTaps(r) PROVE AlikeInv'
  BY <1>9 DEF WriteBankTaps, FirAxis
<1>10. QED
  BY <1>1, <1>2, <1>3, <1>4, <1>5, <1>6, <1>7, <1>8, <1>9 DEF FirNext

\* Whoever chooses other taps leaves behind those that are in hand.
LEMMA LeftBehind ==
  ASSUME FirTypeOK, HeldInv, LeavesBehind, UNCHANGED firHeld,
         \A r \in FirRecord : FirAt(r, "store")' => firStep'[r] = firStep[r]
  PROVE  HeldInv'
<1> SUFFICES ASSUME NEW r \in FirRecord, FirAt(r, "store")', ~behind'[r]
             PROVE  firHeld'[r] = Chosen(firStep[r].axis)'
  BY DEF HeldInv
<1>1. firStep'[r] = firStep[r] /\ FirAt(r, "store")
  BY DEF FirAt
<1>2. ~behind[r] /\ Chosen(firStep[r].axis)' = Chosen(firStep[r].axis)
  BY <1>1 DEF LeavesBehind
<1>3. QED BY <1>1, <1>2 DEF HeldInv

LEMMA HeldSteps ==
  ASSUME FirTypeOK, CourseInv, TapsInv, FirNext
  PROVE  HeldInv'
<1> USE FirRecords DEF FirTypeOK, FirGoes, FirAt, TapsInv
<1>1. CASE WriteSettings
  BY <1>1, LeftBehind DEF WriteSettings, FirBegins
<1>2. CASE Reload
  BY <1>2 DEF Reload, HeldInv, Chosen
<1>3. CASE SwitchWaveform
  BY <1>3, LeftBehind DEF SwitchWaveform, SetUseWaveform, FirBegins
<1>4. CASE SwitchOther
  BY <1>4, LeftBehind DEF SwitchOther, SetUseWaveform
<1>5. ASSUME NEW a \in FirAxis, WriteTapsWaveform(a) PROVE HeldInv'
  BY <1>5, LeftBehind DEF WriteTapsWaveform, FirBegins
<1> USE DEF HeldInv, Chosen
<1>6. ASSUME NEW r \in FirRecord, TestTaps(r) PROVE HeldInv'
  BY <1>6 DEF TestTaps, UseTaps
<1>7. ASSUME NEW r \in FirRecord, LookUp(r) PROVE HeldInv'
  BY <1>7 DEF LookUp
<1>8. ASSUME NEW r \in FirRecord, StoreTaps(r) PROVE HeldInv'
  BY <1>8 DEF StoreTaps
<1>9. ASSUME NEW r \in FirRecord, WriteBankTaps(r) PROVE HeldInv'
  BY <1>9 DEF WriteBankTaps, FirAxis
<1>10. QED
  BY <1>1, <1>2, <1>3, <1>4, <1>5, <1>6, <1>7, <1>8, <1>9 DEF FirNext

LEMMA StoredSteps ==
  ASSUME FirTypeOK, CourseInv, TapsInv, FirNext
  PROVE  StoredInv'
<1> USE FirRecords
    DEF FirTypeOK, FirGoes, FirAt, CourseInv, TapsInv, HeldInv, AlikeInv,
        StoredInv, WillStore, Between, Chosen, AndOther
<1>1. CASE WriteSettings
  BY <1>1 DEF WriteSettings, FirBegins, Other, FirAxis
<1>2. CASE Reload
  BY <1>2 DEF Reload, FirAxis
<1>3. CASE SwitchWaveform
  BY <1>3 DEF SwitchWaveform, SetUseWaveform, FirBegins, FirAxis
<1>4. CASE SwitchOther
  BY <1>4 DEF SwitchOther, SetUseWaveform, FirAxis
<1>5. ASSUME NEW a \in FirAxis, WriteTapsWaveform(a) PROVE StoredInv'
  <2> SUFFICES ASSUME NEW b \in FirAxis, ~outdated[b],
                      \A o \in FirRecord : ~WillStore(o, b)'
               PROVE  currentTaps[b] = Chosen(b)'
    BY <1>5 DEF WriteTapsWaveform
  <2>1. /\ TapsOf(a) \in FirRecord /\ FirAt(TapsOf(a), "idle")
        /\ firStep'[TapsOf(a)] = [step |-> "taps", axis |-> a]
        /\ \A o \in FirRecord \ {TapsOf(a)} : firStep'[o] = firStep[o]
    BY <1>5 DEF WriteTapsWaveform, FirBegins
  <2>2. Chosen(b)' = Chosen(b)
    <3>1. b # a \/ ~useWaveform[b]
      BY <1>5, <2>1 DEF WriteTapsWaveform
    <3>2. QED BY <1>5, <3>1 DEF WriteTapsWaveform
  <2>3. ASSUME NEW o \in FirRecord PROVE ~WillStore(o, b)
    <3>1. CASE o = TapsOf(a)
      BY <2>1, <3>1
    <3>2. CASE o # TapsOf(a)
      BY <1>5, <2>1, <3>2 DEF WriteTapsWaveform
    <3>3. QED BY <3>1, <3>2
  <2>4. QED BY <2>2, <2>3
<1>6. ASSUME NEW r \in FirRecord, TestTaps(r) PROVE StoredInv'
  BY <1>6, SMTT(30) DEF TestTaps, UseTaps
<1>7. ASSUME NEW r \in FirRecord, LookUp(r) PROVE StoredInv'
  <2> SUFFICES ASSUME NEW a \in FirAxis, ~outdated[a],
                      \A o \in FirRecord : ~WillStore(o, a)'
               PROVE  currentTaps[a] = Chosen(a)
    BY <1>7 DEF LookUp
  <2>1. \A o \in FirRecord : WillStore(o, a) => WillStore(o, a)'
    BY <1>7 DEF LookUp
  <2>2. QED BY <1>7, <2>1 DEF LookUp
<1>8. ASSUME NEW r \in FirRecord, StoreTaps(r) PROVE StoredInv'
  <2> SUFFICES ASSUME NEW a \in FirAxis, ~outdated'[a],
                      \A o \in FirRecord : ~WillStore(o, a)'
               PROVE  currentTaps'[a] = Chosen(a)
    BY <1>8 DEF StoreTaps
  <2>1. CASE firStep[r].axis = a
    <3>1. ~behind[r] /\ firHeld[r] = Chosen(a)
      BY <1>8, <2>1 DEF StoreTaps
    <3>2. QED BY <1>8, <2>1, <3>1 DEF StoreTaps
  <2>2. CASE firStep[r].axis # a
    <3>1. \A o \in FirRecord : WillStore(o, a) => WillStore(o, a)'
      BY <1>8, <2>2 DEF StoreTaps
    <3>2. currentTaps'[a] = currentTaps[a] /\ outdated'[a] = outdated[a]
      BY <1>8, <2>2 DEF StoreTaps
    <3>3. QED BY <3>1, <3>2
  <2>3. QED BY <2>1, <2>2
<1>9. ASSUME NEW r \in FirRecord, WriteBankTaps(r) PROVE StoredInv'
  <2>1. ASSUME NEW a \in FirAxis, NEW o \in FirRecord, WillStore(o, a)
        PROVE  WillStore(o, a)'
    <3>1. CASE o = r
      BY <1>9, <2>1, <3>1 DEF WriteBankTaps, FirAxis
    <3>2. CASE o # r
      BY <1>9, <2>1, <3>2 DEF WriteBankTaps
    <3>3. QED BY <3>1, <3>2
  <2>2. UNCHANGED <<useWaveform, settings, setTaps, currentTaps, outdated>>
    BY <1>9 DEF WriteBankTaps
  <2>3. QED BY <2>1, <2>2
<1>10. QED
  BY <1>1, <1>2, <1>3, <1>4, <1>5, <1>6, <1>7, <1>8, <1>9 DEF FirNext

LEMMA FirStep == FirInv /\ [FirNext]_firVars => FirInv'
<1>1. ASSUME FirInv, FirNext PROVE FirInv'
  BY <1>1, FirTypes, CourseSteps, LoadedSteps, AlikeSteps, HeldSteps,
     StoredSteps DEF FirInv, TapsInv
<1>2. ASSUME FirInv, UNCHANGED firVars PROVE FirInv'
  BY <1>2 DEF firVars, FirInv, FirTypeOK, CourseInv, TapsInv, LoadedInv,
              AlikeInv, HeldInv, StoredInv, WillStore, Between, Chosen,
              AndOther, FirAt
<1>3. QED BY <1>1, <1>2

\* The steps of every record of the filter bank are well typed (bunch_fir.c).
THEOREM FirTypeCorrect == FirSpec => []FirTypeOK
<1>1. FirInv => FirTypeOK
  BY DEF FirInv
<1>2. QED BY <1>1, FirStart, FirStep, PTL DEF FirSpec

\* The taps in hardware are those the bank shows, and those the records say but
\* where taps were stored after others had been chosen, for any number of
\* writes (update_bank_taps, reload_fir, set_use_waveform, set_fir_taps).
THEOREM TapsFollowed == FirSpec => []FirFollows
<1>1. FirInv => FirFollows
  BY FirRecords DEF FirInv, FirTypeOK, CourseInv, TapsInv, LoadedInv,
     AlikeInv, StoredInv, WillStore, Between, FirFollows, FirAt, FirAxis
<1>2. QED BY <1>1, FirStart, FirStep, PTL DEF FirSpec

-----------------------------------------------------------------------------
(***************************************************************************)
(* HwRegisters.  A call is a program: what its steps may be is settled     *)
(* once for each kind of call (CallsSound), and the invariant then follows *)
(* from what the locks keep apart.                                         *)
(***************************************************************************)
CtrlRegs == {"control", "mem_config", "trg_config_turn",
             "trg_config_trig_seq0", "trg_config_trig_dram"}
MirrorRegs == {"adc_limits", "adc_config", "dac_limits", "dac_config",
               "seq_config", "tune_pll_control_config_extra",
               "tune_pll_control_config"}

\* What each kind of call has in its arguments.
CallArguments(c) ==
  \/ c.kind = "ctrl" /\ c.reg \in CtrlRegs /\ c.field \in Fields[c.reg]
  \/ c.kind = "nco" /\ c.reg = "fixed_nco_nco1" /\ c.field \in Fields[c.reg]
  \/ c.kind = "mirror" /\ c.reg \in MirrorRegs /\ c.field \in Fields[c.reg]
  \/ c.kind = "taps" /\ c.reg \in TapBlocks /\ c = Call("taps", c.reg, "", 0)
  \/ c.kind = "fir" /\ c.n \in {0, 1} /\ c = Call("fir", "", "", c.n)
  \/ c.kind = "spi" /\ c.n \in {0, 1} /\ c = Call("spi", "", "", c.n)
  \/ c.kind \in {"decimation", "seq", "bank0", "det", "pll"}
     /\ c = Call(c.kind, "", "", 0)

LEMMA NoCallKind == NoCall.kind = "none"
BY DEF NoCall, Call

LEMMA CallKinds ==
  ASSUME NEW c \in Calls
  PROVE  CallArguments(c) /\ c # NoCall
<1>0. NoCall.kind = "none"
  BY NoCallKind
<1>1. CASE \E at \in CtrlFields : c = Call("ctrl", at[1], at[2], 0)
  <2>1. PICK at \in CtrlFields : c = Call("ctrl", at[1], at[2], 0)
    BY <1>1
  <2>2. at[1] \in CtrlRegs /\ at[2] \in Fields[at[1]]
    BY DEF CtrlFields, ControlFields, TurnFields, TriggerFields, CtrlRegs, Fields
  <2>3. QED BY <2>1, <2>2 DEF CallArguments, Call, NoCall
<1>2. CASE \E at \in NcoFields : c = Call("nco", at[1], at[2], 0)
  <2>1. PICK at \in NcoFields : c = Call("nco", at[1], at[2], 0)
    BY <1>2
  <2>2. at[1] = "fixed_nco_nco1" /\ at[2] \in Fields[at[1]]
    BY DEF NcoFields, Fields
  <2>3. QED BY <2>1, <2>2 DEF CallArguments, Call, NoCall
<1>3. CASE \E at \in MirrorFields : c = Call("mirror", at[1], at[2], 0)
  <2>1. PICK at \in MirrorFields : c = Call("mirror", at[1], at[2], 0)
    BY <1>3
  <2>2. at[1] \in MirrorRegs /\ at[2] \in Fields[at[1]]
    <3>1. CASE at \in AdcFields
      BY <3>1 DEF AdcFields, FieldsOf, MirrorRegs
    <3>2. CASE at \in DacFields
      BY <3>2 DEF DacFields, FieldsOf, MirrorRegs
    <3>3. CASE at \in SeqFields
      BY <3>3 DEF SeqFields, MirrorRegs, Fields
    <3>4. CASE at \in PllFields
      <4>1. CASE at \in FieldsOf("tune_pll_control_config_extra")
        BY <4>1 DEF FieldsOf, MirrorRegs
      <4>2. CASE at \in {"tune_pll_control_config"} \X {"dwell_time", "blanking"}
        BY <4>2 DEF MirrorRegs, Fields
      <4>3. QED BY <3>4, <4>1, <4>2 DEF PllFields
    <3>5. CASE at \in PllDetFields
      BY <3>5 DEF PllDetFields, MirrorRegs, Fields
    <3>6. QED BY <3>1, <3>2, <3>3, <3>4, <3>5 DEF MirrorFields
  <2>3. QED BY <2>1, <2>2 DEF CallArguments, Call, NoCall
<1>4. CASE \E b \in TapBlocks : c = Call("taps", b, "", 0)
  <2>1. PICK b \in TapBlocks : c = Call("taps", b, "", 0)
    BY <1>4
  <2>2. c.kind = "taps" /\ c.reg = b
    BY <2>1 DEF Call
  <2>3. c = Call("taps", c.reg, "", 0)
    BY <2>1, <2>2
  <2>4. c # NoCall
    BY <1>0, <2>2
  <2>5. QED BY <2>2, <2>3, <2>4 DEF CallArguments
<1>5. CASE \E n \in {0, 1} : c = Call("fir", "", "", n)
  <2>1. PICK n \in {0, 1} : c = Call("fir", "", "", n)
    BY <1>5
  <2>2. c.kind = "fir" /\ c.n = n
    BY <2>1 DEF Call
  <2>3. c = Call("fir", "", "", c.n)
    BY <2>1, <2>2
  <2>4. c # NoCall
    BY <1>0, <2>2
  <2>5. QED BY <2>2, <2>3, <2>4 DEF CallArguments
<1>8. CASE \E n \in {0, 1} : c = Call("spi", "", "", n)
  <2>1. PICK n \in {0, 1} : c = Call("spi", "", "", n)
    BY <1>8
  <2>2. c.kind = "spi" /\ c.n = n
    BY <2>1 DEF Call
  <2>3. c = Call("spi", "", "", c.n)
    BY <2>1, <2>2
  <2>4. c # NoCall
    BY <1>0, <2>2
  <2>5. QED BY <2>2, <2>3, <2>4 DEF CallArguments
<1>6. CASE \E kind \in {"decimation", "seq", "bank0", "det", "pll"} :
             c = Call(kind, "", "", 0)
  <2>1. PICK kind \in {"decimation", "seq", "bank0", "det", "pll"} :
             c = Call(kind, "", "", 0)
    BY <1>6
  <2>2. c.kind = kind
    BY <2>1 DEF Call
  <2>3. c = Call(c.kind, "", "", 0)
    BY <2>1, <2>2
  <2>4. c # NoCall
    BY <1>0, <2>2
  <2>5. QED BY <2>2, <2>3, <2>4 DEF CallArguments
<1>7. QED 
  <2>1. \/ \E at \in CtrlFields : c = Call("ctrl", at[1], at[2], 0)
        \/ \E at \in NcoFields : c = Call("nco", at[1], at[2], 0)
        \/ \E at \in MirrorFields : c = Call("mirror", at[1], at[2], 0)
        \/ \E b \in TapBlocks : c = Call("taps", b, "", 0)
        \/ \E n \in {0, 1} : c = Call("fir", "", "", n)
        \/ \E n \in {0, 1} : c = Call("spi", "", "", n)
        \/ \E kind \in {"decimation", "seq", "bank0", "det", "pll"} :
             c = Call(kind, "", "", 0)
    BY DEF Calls
  <2>2. QED BY <2>1, <1>1, <1>2, <1>3, <1>4, <1>5, <1>6, <1>8

\* The program of a call.
LEMMA ProgramOf ==
  ASSUME NEW c \in Calls
  PROVE  /\ Programs[c] = Program(c)
         /\ c.kind = "ctrl" => Program(c) = WriteField("ctrl", c.reg, c.field)
         /\ c.kind = "nco" => Program(c) = WriteField("dsp", c.reg, c.field)
         /\ c.kind = "mirror" => Program(c) = WriteMirror(c.reg, c.field)
         /\ c.kind = "taps" => Program(c) = WriteTaps(c.reg)
         /\ c.kind = "fir" => Program(c) = WriteFirTaps(c.n)
         /\ c.kind = "decimation" => Program(c) = WriteDecimation
         /\ c.kind = "seq" => Program(c) = WriteSeqConfig
         /\ c.kind = "bank0" => Program(c) = WriteSeqBank0
         /\ c.kind = "det" => Program(c) = WriteDetConfig
         /\ c.kind = "pll" => Program(c) = WritePllDet
         /\ c.kind = "spi" => Program(c) = Spi(c.n)
<1>1. Programs[c] = Program(c)
  BY DEF Programs
<1>2. c.kind = "ctrl" => Program(c) = WriteField("ctrl", c.reg, c.field)
  BY DEF Program
<1>3. c.kind = "nco" => Program(c) = WriteField("dsp", c.reg, c.field)
  BY DEF Program
<1>4. c.kind = "mirror" => Program(c) = WriteMirror(c.reg, c.field)
  BY DEF Program
<1>5. c.kind = "taps" => Program(c) = WriteTaps(c.reg)
  BY DEF Program
<1>6. c.kind = "fir" => Program(c) = WriteFirTaps(c.n)
  BY DEF Program
<1>7. c.kind = "decimation" => Program(c) = WriteDecimation
  BY DEF Program
<1>8. c.kind = "seq" => Program(c) = WriteSeqConfig
  BY DEF Program
<1>9. c.kind = "bank0" => Program(c) = WriteSeqBank0
  BY DEF Program
<1>10. c.kind = "det" => Program(c) = WriteDetConfig
  BY DEF Program
<1>11. c.kind = "pll" => Program(c) = WritePllDet
  BY DEF Program
<1>12. c.kind = "spi" => Program(c) = Spi(c.n)
  BY DEF Program
<1>13. QED
  BY <1>1, <1>2, <1>3, <1>4, <1>5, <1>6, <1>7, <1>8, <1>9, <1>10, <1>11, <1>12

(***************************************************************************)
(* What a call uses: its lock and the step that gives it up, its register  *)
(* and the steps that write it, its block of memories and the steps at     *)
(* which the address is known.                                             *)
(***************************************************************************)
LockOf(c) ==
  IF c.kind = "ctrl" THEN "ctrl" ELSE IF c.kind = "spi" THEN "sys" ELSE "dsp"

ReleaseAt(c) ==
  IF c.kind = "mirror" THEN 3
  ELSE IF c.kind = "spi" THEN 4
  ELSE IF c.kind \in {"ctrl", "nco", "taps"} THEN 5
  ELSE IF c.kind = "decimation" THEN 6
  ELSE IF c.kind \in {"fir", "bank0"} THEN 7
  ELSE IF c.kind = "pll" THEN 8
  ELSE IF c.kind = "det" THEN 10
  ELSE 24

Inside(c, k) == 2 <= k /\ k <= ReleaseAt(c)

RegOf(c) ==
  IF c.kind \in {"ctrl", "nco", "mirror"} THEN c.reg
  ELSE IF c.kind \in {"fir", "decimation"} THEN "fir_config"
  ELSE IF c.kind = "pll" THEN "tune_pll_control_config"
  ELSE "seq_config"

Stores(c) ==
  IF c.kind \in {"ctrl", "nco", "fir", "pll"} THEN {4}
  ELSE IF c.kind \in {"mirror", "decimation", "bank0"} THEN {5}
  ELSE IF c.kind = "seq" THEN {5, 11, 18, 23}
  ELSE {}

BlockOf(c) ==
  IF c.kind = "taps" THEN c.reg
  ELSE IF c.kind = "bank0" THEN "seq"
  ELSE c.kind

AtOne(c) ==
  IF c.kind = "taps" THEN {3}
  ELSE IF c.kind = "fir" THEN {5}
  ELSE IF c.kind = "seq" THEN {3, 4, 5, 6, 9, 10, 11, 12, 15, 16, 17, 18, 19}
  ELSE IF c.kind = "bank0" THEN {3, 4, 5, 6}
  ELSE IF c.kind = "det" THEN {4, 8}
  ELSE IF c.kind = "pll" THEN {6}
  ELSE {}

AtTwo(c) ==
  IF c.kind = "taps" THEN {4}
  ELSE IF c.kind = "fir" THEN {6}
  ELSE IF c.kind = "seq" THEN {7, 13, 20}
  ELSE IF c.kind = "det" THEN {5, 9}
  ELSE IF c.kind = "pll" THEN {7}
  ELSE {}

\* The registers that are written before the lock is given up.
HeldRegs == CtrlRegs \cup {"fixed_nco_nco1", "fir_config"}
Holder(r) == IF r \in CtrlRegs THEN "ctrl" ELSE "dsp"

\* The mirror of r has been changed and the register is not written yet.
StoreAt(c) == IF c.kind = "decimation" THEN 5 ELSE 4
Dirty(c, k, r) == /\ c.kind \in {"ctrl", "nco", "fir", "decimation"}
                  /\ RegOf(c) = r /\ 3 <= k /\ k <= StoreAt(c)

\* The memories but the sequencer's, the call that writes each and the step
\* of its first word.
Plain == {"adc", "dac", "fir0", "fir1", "det0", "det1", "pll"}
WrittenBy(m, c) ==
  \/ m \in TapBlocks /\ c.kind = "taps" /\ c.reg = m
  \/ m = "fir0" /\ c.kind = "fir" /\ c.n = 0
  \/ m = "fir1" /\ c.kind = "fir" /\ c.n = 1
  \/ m \in {"det0", "det1"} /\ c.kind = "det"
  \/ m = "pll" /\ c.kind = "pll"
First(m) ==
  IF m \in TapBlocks THEN 3
  ELSE IF m \in {"fir0", "fir1"} THEN 5
  ELSE IF m = "det0" THEN 4
  ELSE IF m = "det1" THEN 8
  ELSE 6

(***************************************************************************)
(* Step k of the call c is s.                                              *)
(***************************************************************************)
LockSteps(c, k, s) ==
  /\ s.do = "lock" <=> k = 1
  /\ s.do = "lock" => s.at = LockOf(c)
  /\ s.do = "unlock" <=> k = ReleaseAt(c)
  /\ s.do = "unlock" => s.at = LockOf(c)

RegSteps(c, k, s) ==
  /\ s.do = "set" =>
       /\ s.at = RegOf(c) /\ RegOf(c) \in Register
       /\ s.field \in Fields[RegOf(c)] /\ s.to \in 0 .. 2
       /\ s.field = "bank" => s.to \in 0 .. 1
       /\ RegOf(c) \in HeldRegs =>
            /\ Inside(c, k) /\ LockOf(c) = Holder(RegOf(c))
            /\ Dirty(c, k + 1, RegOf(c))
  /\ s.do = "load" => s.at = RegOf(c) /\ RegOf(c) \in Register
  /\ k + 1 \in Stores(c) => s.do = "load" /\ s.at = RegOf(c)
  /\ s.do = "store" => s.at = RegOf(c) /\ k \in Stores(c)
  /\ k \in Stores(c) => s.do = "store" /\ RegOf(c) \in Register
  /\ k \in Stores(c) /\ RegOf(c) \in HeldRegs =>
       /\ Inside(c, k) /\ LockOf(c) = Holder(RegOf(c))
       /\ Dirty(c, k, RegOf(c)) /\ ~Dirty(c, k + 1, RegOf(c))
  /\ \A r \in HeldRegs : Dirty(c, k + 1, r) /\ ~Dirty(c, k, r) => s.do = "set"
  /\ \A r \in HeldRegs : Dirty(c, k, r) /\ ~Dirty(c, k + 1, r) => s.do = "store"

WordSteps(c, k, s) ==
  /\ s.do = "restart" =>
       /\ s.at = BlockOf(c) /\ BlockOf(c) \in Block
       /\ Inside(c, k) /\ LockOf(c) = "dsp"
  /\ s.do = "word" =>
       /\ s.at = BlockOf(c) /\ BlockOf(c) \in Block /\ s.to \in Memory
       /\ k \in AtOne(c) \/ k \in AtTwo(c)
       /\ Inside(c, k) /\ LockOf(c) = "dsp"
       /\ BlockOf(c) # "seq" =>
            /\ s.to \in Plain /\ WrittenBy(s.to, c)
            /\ k = First(s.to) \/ k = First(s.to) + 1
  /\ \A m \in Plain :
       WrittenBy(m, c) /\ (k = First(m) \/ k = First(m) + 1) =>
         s.do = "word" /\ s.to = m
  /\ k + 1 \in AtOne(c) =>
       \/ k \in AtOne(c) /\ s.do # "word"
       \/ s.do = "restart"
       \/ s.do = "store" /\ c.kind = "fir"
  /\ k + 1 \in AtTwo(c) => k \in AtOne(c) /\ s.do = "word"

BankSteps(c, k, s) ==
  /\ s.do = "put" =>
       /\ c.kind = "det" /\ s.at = "det_config" /\ s.field = "bank"
       /\ \/ k = 2 /\ s.to = 0
          \/ k = 6 /\ s.to = 1
  /\ c.kind = "det" => s.do # "store" /\ (s.do = "put" <=> k \in {2, 6})
  /\ c.kind = "fir" /\ k = 2 =>
       s.do = "set" /\ s.at = "fir_config" /\ s.field = "bank" /\ s.to = c.n
  /\ c.kind = "fir" /\ k = 3 => s.do = "load" /\ s.at = "fir_config"
  /\ c.kind = "fir" /\ k = 4 => s.do = "store" /\ s.at = "fir_config"
  /\ c.kind = "fir" /\ k \in {5, 6} => s.do = "word"

SpiSteps(c, k, s) ==
  /\ s.do = "spi" => c.kind = "spi" /\ k = 2 /\ s.at = c.n
  /\ s.do = "reply" => c.kind = "spi" /\ k = 3
  /\ c.kind = "spi" /\ k = 2 => s.do = "spi"

StepSound(c, k, s) ==
  /\ LockSteps(c, k, s)
  /\ RegSteps(c, k, s)
  /\ WordSteps(c, k, s)
  /\ BankSteps(c, k, s)
  /\ SpiSteps(c, k, s)

\* The register is written at steps of the call, and the address is known
\* only with the lock held.
SpansSound(c) ==
  /\ Stores(c) \subseteq 1 .. Len(Programs[c])
  /\ \A k \in AtOne(c) \cup AtTwo(c) : 
       Inside(c, k) /\ LockOf(c) = "dsp" /\ BlockOf(c) \in Block

CallSound(c) ==
  /\ SpansSound(c)
  /\ Len(Programs[c]) \in Nat
  /\ ReleaseAt(c) \in 2 .. Len(Programs[c])
  /\ \A k \in 1 .. Len(Programs[c]) : StepSound(c, k, Programs[c][k])

LEMMA FieldSound ==
  ASSUME NEW c \in Calls, c.kind = "ctrl"
  PROVE  CallSound(c)
<1> USE DEF WriteField, SetField, Load, Store,
            Lock, Release, At
<1>1. Programs[c] = WriteField("ctrl", c.reg, c.field)
  BY ProgramOf
<1>2. c.reg \in CtrlRegs /\ c.field \in Fields[c.reg]
  BY CallKinds DEF CallArguments
<1>3. \A k \in 1 .. 5 : LockSteps(c, k, Programs[c][k])
  BY <1>1, <1>2 DEF LockSteps, LockOf, ReleaseAt
<1>4. \A k \in 1 .. 5 : RegSteps(c, k, Programs[c][k])
  BY <1>1, <1>2 DEF RegSteps, RegOf, Stores, Inside, ReleaseAt, LockOf, Holder,
     HeldRegs, Dirty, StoreAt, CtrlRegs, MirrorRegs, Register, Fields
<1>5. \A k \in 1 .. 5 : WordSteps(c, k, Programs[c][k])
  BY <1>1 DEF WordSteps, AtOne, AtTwo, WrittenBy
<1>6. \A k \in 1 .. 5 : BankSteps(c, k, Programs[c][k])
  BY <1>1, <1>2 DEF BankSteps
<1>7. \A k \in 1 .. 5 : SpiSteps(c, k, Programs[c][k])
  BY <1>1, <1>2 DEF SpiSteps
<1>8. Len(Programs[c]) = 5 /\ ReleaseAt(c) = 5
  BY <1>1 DEF ReleaseAt
<1>9. SpansSound(c)
  BY <1>8, <1>2 DEF SpansSound, Stores, AtOne, AtTwo, Inside, LockOf,
     BlockOf, Block, TapBlocks
<1>10. \A k \in 1 .. 5 : StepSound(c, k, Programs[c][k])
  BY ONLY <1>3, <1>4, <1>5, <1>6, <1>7 DEF StepSound
<1>11. QED
  BY ONLY <1>8, <1>9, <1>10 DEF CallSound

LEMMA NcoSound ==
  ASSUME NEW c \in Calls, c.kind = "nco"
  PROVE  CallSound(c)
<1> USE DEF WriteField, SetField, Load, Store,
            Lock, Release, At
<1>1. Programs[c] = WriteField("dsp", c.reg, c.field)
  BY ProgramOf
<1>2. c.reg = "fixed_nco_nco1" /\ c.field \in Fields[c.reg]
  BY CallKinds DEF CallArguments
<1>3. \A k \in 1 .. 5 : LockSteps(c, k, Programs[c][k])
  BY <1>1, <1>2 DEF LockSteps, LockOf, ReleaseAt
<1>4. \A k \in 1 .. 5 : RegSteps(c, k, Programs[c][k])
  BY <1>1, <1>2 DEF RegSteps, RegOf, Stores, Inside, ReleaseAt, LockOf, Holder,
     HeldRegs, Dirty, StoreAt, CtrlRegs, MirrorRegs, Register, Fields
<1>5. \A k \in 1 .. 5 : WordSteps(c, k, Programs[c][k])
  BY <1>1 DEF WordSteps, AtOne, AtTwo, WrittenBy
<1>6. \A k \in 1 .. 5 : BankSteps(c, k, Programs[c][k])
  BY <1>1, <1>2 DEF BankSteps
<1>7. \A k \in 1 .. 5 : SpiSteps(c, k, Programs[c][k])
  BY <1>1, <1>2 DEF SpiSteps
<1>8. Len(Programs[c]) = 5 /\ ReleaseAt(c) = 5
  BY <1>1 DEF ReleaseAt
<1>9. SpansSound(c)
  BY <1>8, <1>2 DEF SpansSound, Stores, AtOne, AtTwo, Inside, LockOf,
     BlockOf, Block, TapBlocks
<1>10. \A k \in 1 .. 5 : StepSound(c, k, Programs[c][k])
  BY ONLY <1>3, <1>4, <1>5, <1>6, <1>7 DEF StepSound
<1>11. QED
  BY ONLY <1>8, <1>9, <1>10 DEF CallSound

LEMMA MirrorSound ==
  ASSUME NEW c \in Calls, c.kind = "mirror"
  PROVE  CallSound(c)
<1> USE DEF WriteMirror, SetField, Load, Store,
            Lock, Release, At
<1>1. Programs[c] = WriteMirror(c.reg, c.field)
  BY ProgramOf
<1>2. c.reg \in MirrorRegs /\ c.field \in Fields[c.reg]
  BY CallKinds DEF CallArguments
<1>3. \A k \in 1 .. 5 : LockSteps(c, k, Programs[c][k])
  BY <1>1, <1>2 DEF LockSteps, LockOf, ReleaseAt
<1>4. \A k \in 1 .. 5 : RegSteps(c, k, Programs[c][k])
  BY <1>1, <1>2 DEF RegSteps, RegOf, Stores, Inside, ReleaseAt, LockOf, Holder,
     HeldRegs, Dirty, StoreAt, CtrlRegs, MirrorRegs, Register, Fields
<1>5. \A k \in 1 .. 5 : WordSteps(c, k, Programs[c][k])
  BY <1>1 DEF WordSteps, AtOne, AtTwo, WrittenBy
<1>6. \A k \in 1 .. 5 : BankSteps(c, k, Programs[c][k])
  BY <1>1, <1>2 DEF BankSteps
<1>7. \A k \in 1 .. 5 : SpiSteps(c, k, Programs[c][k])
  BY <1>1, <1>2 DEF SpiSteps
<1>8. Len(Programs[c]) = 5 /\ ReleaseAt(c) = 3
  BY <1>1 DEF ReleaseAt
<1>9. SpansSound(c)
  BY <1>8, <1>2 DEF SpansSound, Stores, AtOne, AtTwo, Inside, LockOf,
     BlockOf, Block, TapBlocks
<1>10. \A k \in 1 .. 5 : StepSound(c, k, Programs[c][k])
  BY ONLY <1>3, <1>4, <1>5, <1>6, <1>7 DEF StepSound
<1>11. QED
  BY ONLY <1>8, <1>9, <1>10 DEF CallSound

LEMMA TapsSound ==
  ASSUME NEW c \in Calls, c.kind = "taps"
  PROVE  CallSound(c)
<1> USE DEF WriteTaps, WordTo,
            Lock, Release, At
<1>1. Programs[c] = WriteTaps(c.reg)
  BY ProgramOf
<1>2. c.reg \in TapBlocks
  BY CallKinds DEF CallArguments
<1>3. \A k \in 1 .. 5 : LockSteps(c, k, Programs[c][k])
  BY <1>1, <1>2 DEF LockSteps, LockOf, ReleaseAt
<1>4. \A k \in 1 .. 5 : RegSteps(c, k, Programs[c][k])
  BY <1>1, <1>2 DEF RegSteps, RegOf, Stores, Inside, ReleaseAt, LockOf, Holder,
     HeldRegs, Dirty, StoreAt, CtrlRegs, MirrorRegs, Register, Fields
<1>5. ASSUME NEW k \in 1 .. 5
      PROVE  WordSteps(c, k, Programs[c][k])
  <2> DEFINE s == Programs[c][k]
  <2>1. /\ BlockOf(c) = c.reg /\ LockOf(c) = "dsp"
        /\ AtOne(c) = {3} /\ AtTwo(c) = {4}
    BY DEF BlockOf, AtOne, AtTwo, LockOf
  <2>2. /\ s.do = "restart" <=> k \in {2}
        /\ s.do = "word" <=> k \in {3, 4}
    BY <1>1, <1>2
  <2>3. k \in {2, 3, 4} => s.at = c.reg
    BY <1>1, <1>2
  <2>4. /\ k \in {3, 4} => s.to = c.reg
    BY <1>1, <1>2
  <2>6. /\ c.reg \in Block /\ c.reg # "seq" /\ c.reg \in Memory
        /\ c.reg \in Plain /\ WrittenBy(c.reg, c) /\ First(c.reg) = 3
    BY <1>2  DEF Block, Memory, Plain, WrittenBy, First, TapBlocks
  <2>7. k \in {2, 3, 4} => Inside(c, k)
    BY DEF Inside, ReleaseAt
  <2>10. \A m \in Plain : WrittenBy(m, c) => m \in {c.reg}
    BY <1>2  DEF WrittenBy, Plain, TapBlocks
  <2> HIDE DEF s
  <2>8. WordSteps(c, k, s)
    BY <2>1, <2>2, <2>3, <2>4, <2>6, <2>7, <2>10 DEF WordSteps
  <2>9. QED BY <2>8 DEF s
<1>6. \A k \in 1 .. 5 : BankSteps(c, k, Programs[c][k])
  BY <1>1, <1>2 DEF BankSteps
<1>7. \A k \in 1 .. 5 : SpiSteps(c, k, Programs[c][k])
  BY <1>1, <1>2 DEF SpiSteps
<1>8. Len(Programs[c]) = 5 /\ ReleaseAt(c) = 5
  BY <1>1 DEF ReleaseAt
<1>9. SpansSound(c)
  BY <1>8, <1>2 DEF SpansSound, Stores, AtOne, AtTwo, Inside, LockOf,
     BlockOf, Block, TapBlocks
<1>10. \A k \in 1 .. 5 : StepSound(c, k, Programs[c][k])
  BY ONLY <1>3, <1>4, <1>5, <1>6, <1>7 DEF StepSound
<1>11. QED
  BY ONLY <1>8, <1>9, <1>10 DEF CallSound

LEMMA FirSound ==
  ASSUME NEW c \in Calls, c.kind = "fir"
  PROVE  CallSound(c)
<1> USE DEF WriteFirTaps, SetField, Load, Store, WordTo,
            Lock, Release, At
<1>1. Programs[c] = WriteFirTaps(c.n)
  BY ProgramOf
<1>2. \/ c.n = 0 /\ FirBank(c.n) = "fir0"
      \/ c.n = 1 /\ FirBank(c.n) = "fir1"
  BY CallKinds DEF CallArguments, FirBank
<1>3. \A k \in 1 .. 7 : LockSteps(c, k, Programs[c][k])
  BY <1>1, <1>2 DEF LockSteps, LockOf, ReleaseAt
<1>4. \A k \in 1 .. 7 : RegSteps(c, k, Programs[c][k])
  BY <1>1, <1>2 DEF RegSteps, RegOf, Stores, Inside, ReleaseAt, LockOf, Holder,
     HeldRegs, Dirty, StoreAt, CtrlRegs, MirrorRegs, Register, Fields
<1>5. ASSUME NEW k \in 1 .. 7
      PROVE  WordSteps(c, k, Programs[c][k])
  <2> DEFINE s == Programs[c][k]
  <2>1. /\ BlockOf(c) = "fir" /\ LockOf(c) = "dsp"
        /\ AtOne(c) = {5} /\ AtTwo(c) = {6}
    BY DEF BlockOf, AtOne, AtTwo, LockOf
  <2>2. /\ s.do # "restart"
        /\ s.do = "word" <=> k \in {5, 6}
    BY <1>1, <1>2
  <2>3. k \in {5, 6} => s.at = "fir"
    BY <1>1, <1>2
  <2>4. /\ k \in {5, 6} => s.to = FirBank(c.n)
    BY <1>1, <1>2
  <2>5. k = 4 => s.do = "store"
    BY <1>1, <1>2
  <2>6. /\ "fir" \in Block /\ "fir" # "seq" /\ FirBank(c.n) \in Memory
        /\ FirBank(c.n) \in Plain /\ WrittenBy(FirBank(c.n), c) /\ First(FirBank(c.n)) = 5
    BY <1>2  DEF Block, Memory, Plain, WrittenBy, First, TapBlocks
  <2>7. k \in {5, 6} => Inside(c, k)
    BY DEF Inside, ReleaseAt
  <2>10. \A m \in Plain : WrittenBy(m, c) => m \in {FirBank(c.n)}
    BY <1>2  DEF WrittenBy, Plain, TapBlocks
  <2> HIDE DEF s
  <2>8. WordSteps(c, k, s)
    BY <2>1, <2>2, <2>3, <2>4, <2>5, <2>6, <2>7, <2>10 DEF WordSteps
  <2>9. QED BY <2>8 DEF s
<1>6. \A k \in 1 .. 7 : BankSteps(c, k, Programs[c][k])
  BY <1>1, <1>2 DEF BankSteps
<1>7. \A k \in 1 .. 7 : SpiSteps(c, k, Programs[c][k])
  BY <1>1, <1>2 DEF SpiSteps
<1>8. Len(Programs[c]) = 7 /\ ReleaseAt(c) = 7
  BY <1>1 DEF ReleaseAt
<1>9. SpansSound(c)
  BY <1>8, <1>2 DEF SpansSound, Stores, AtOne, AtTwo, Inside, LockOf,
     BlockOf, Block, TapBlocks
<1>10. \A k \in 1 .. 7 : StepSound(c, k, Programs[c][k])
  BY ONLY <1>3, <1>4, <1>5, <1>6, <1>7 DEF StepSound
<1>11. QED
  BY ONLY <1>8, <1>9, <1>10 DEF CallSound

LEMMA DecimationSound ==
  ASSUME NEW c \in Calls, c.kind = "decimation"
  PROVE  CallSound(c)
<1> USE DEF WriteDecimation, SetField, Load, Store,
            Lock, Release, At
<1>1. Programs[c] = WriteDecimation
  BY ProgramOf
<1>3. \A k \in 1 .. 6 : LockSteps(c, k, Programs[c][k])
  BY <1>1 DEF LockSteps, LockOf, ReleaseAt
<1>4. \A k \in 1 .. 6 : RegSteps(c, k, Programs[c][k])
  BY <1>1 DEF RegSteps, RegOf, Stores, Inside, ReleaseAt, LockOf, Holder,
     HeldRegs, Dirty, StoreAt, CtrlRegs, MirrorRegs, Register, Fields
<1>5. \A k \in 1 .. 6 : WordSteps(c, k, Programs[c][k])
  BY <1>1 DEF WordSteps, AtOne, AtTwo, WrittenBy
<1>6. \A k \in 1 .. 6 : BankSteps(c, k, Programs[c][k])
  BY <1>1 DEF BankSteps
<1>7. \A k \in 1 .. 6 : SpiSteps(c, k, Programs[c][k])
  BY <1>1 DEF SpiSteps
<1>8. Len(Programs[c]) = 6 /\ ReleaseAt(c) = 6
  BY <1>1 DEF ReleaseAt
<1>9. SpansSound(c)
  BY <1>8 DEF SpansSound, Stores, AtOne, AtTwo, Inside, LockOf,
     BlockOf, Block, TapBlocks
<1>10. \A k \in 1 .. 6 : StepSound(c, k, Programs[c][k])
  BY ONLY <1>3, <1>4, <1>5, <1>6, <1>7 DEF StepSound
<1>11. QED
  BY ONLY <1>8, <1>9, <1>10 DEF CallSound

LEMMA SeqSound ==
  ASSUME NEW c \in Calls, c.kind = "seq"
  PROVE  CallSound(c)
<1> USE DEF WriteSeqConfig, SeqTarget, SetField, Load, Store, WordTo,
            Lock, Release, At
<1>1. Programs[c] = WriteSeqConfig
  BY ProgramOf
<1>3. \A k \in 1 .. 24 : LockSteps(c, k, Programs[c][k])
  BY <1>1 DEF LockSteps, LockOf, ReleaseAt
<1>4. \A k \in 1 .. 24 : RegSteps(c, k, Programs[c][k])
  BY <1>1 DEF RegSteps, RegOf, Stores, Inside, ReleaseAt, LockOf, Holder,
     HeldRegs, Dirty, StoreAt, CtrlRegs, MirrorRegs, Register, Fields
<1>5. ASSUME NEW k \in 1 .. 24
      PROVE  WordSteps(c, k, Programs[c][k])
  <2> DEFINE s == Programs[c][k]
  <2>1. /\ BlockOf(c) = "seq" /\ LockOf(c) = "dsp"
        /\ AtOne(c) = {3, 4, 5, 6, 9, 10, 11, 12, 15, 16, 17, 18, 19} /\ AtTwo(c) = {7, 13, 20}
    BY DEF BlockOf, AtOne, AtTwo, LockOf
  <2>2. /\ s.do = "restart" <=> k \in {2, 8, 14}
        /\ s.do = "word" <=> k \in {6, 7, 12, 13, 19, 20}
    BY <1>1
  <2>3. k \in {2, 6, 7, 8, 12, 13, 14, 19, 20} => s.at = "seq"
    BY <1>1
  <2>4. /\ k \in {6, 7} => s.to = "entries"
        /\ k \in {12, 13} => s.to = "window"
        /\ k \in {19, 20} => s.to = "super"
    BY <1>1
  <2>6. /\ "seq" \in Block /\ "entries" \in Memory /\ "window" \in Memory
        /\ "super" \in Memory
    BY DEF Block, Memory
  <2>7. k \in {2, 6, 7, 8, 12, 13, 14, 19, 20} => Inside(c, k)
    BY DEF Inside, ReleaseAt
  <2>10. \A m \in Plain : ~WrittenBy(m, c)
    BY DEF WrittenBy, Plain, TapBlocks
  <2> HIDE DEF s
  <2>8. WordSteps(c, k, s)
    BY <2>1, <2>2, <2>3, <2>4, <2>6, <2>7, <2>10 DEF WordSteps
  <2>9. QED BY <2>8 DEF s
<1>6. \A k \in 1 .. 24 : BankSteps(c, k, Programs[c][k])
  BY <1>1 DEF BankSteps
<1>7. \A k \in 1 .. 24 : SpiSteps(c, k, Programs[c][k])
  BY <1>1 DEF SpiSteps
<1>8. Len(Programs[c]) = 24 /\ ReleaseAt(c) = 24
  BY <1>1 DEF ReleaseAt
<1>9. SpansSound(c)
  BY <1>8 DEF SpansSound, Stores, AtOne, AtTwo, Inside, LockOf,
     BlockOf, Block, TapBlocks
<1>10. \A k \in 1 .. 24 : StepSound(c, k, Programs[c][k])
  BY ONLY <1>3, <1>4, <1>5, <1>6, <1>7 DEF StepSound
<1>11. QED
  BY ONLY <1>8, <1>9, <1>10 DEF CallSound

LEMMA Bank0Sound ==
  ASSUME NEW c \in Calls, c.kind = "bank0"
  PROVE  CallSound(c)
<1> USE DEF WriteSeqBank0, SeqTarget, SetField, Load, Store, WordTo,
            Lock, Release, At
<1>1. Programs[c] = WriteSeqBank0
  BY ProgramOf
<1>3. \A k \in 1 .. 7 : LockSteps(c, k, Programs[c][k])
  BY <1>1 DEF LockSteps, LockOf, ReleaseAt
<1>4. \A k \in 1 .. 7 : RegSteps(c, k, Programs[c][k])
  BY <1>1 DEF RegSteps, RegOf, Stores, Inside, ReleaseAt, LockOf, Holder,
     HeldRegs, Dirty, StoreAt, CtrlRegs, MirrorRegs, Register, Fields
<1>5. ASSUME NEW k \in 1 .. 7
      PROVE  WordSteps(c, k, Programs[c][k])
  <2> DEFINE s == Programs[c][k]
  <2>1. /\ BlockOf(c) = "seq" /\ LockOf(c) = "dsp"
        /\ AtOne(c) = {3, 4, 5, 6} /\ AtTwo(c) = {}
    BY DEF BlockOf, AtOne, AtTwo, LockOf
  <2>2. /\ s.do = "restart" <=> k \in {2}
        /\ s.do = "word" <=> k \in {6}
    BY <1>1
  <2>3. k \in {2, 6} => s.at = "seq"
    BY <1>1
  <2>4. /\ k \in {6} => s.to = "entries"
    BY <1>1
  <2>6. /\ "seq" \in Block /\ "entries" \in Memory
    BY DEF Block, Memory
  <2>7. k \in {2, 6} => Inside(c, k)
    BY DEF Inside, ReleaseAt
  <2>10. \A m \in Plain : ~WrittenBy(m, c)
    BY DEF WrittenBy, Plain, TapBlocks
  <2> HIDE DEF s
  <2>8. WordSteps(c, k, s)
    BY <2>1, <2>2, <2>3, <2>4, <2>6, <2>7, <2>10 DEF WordSteps
  <2>9. QED BY <2>8 DEF s
<1>6. \A k \in 1 .. 7 : BankSteps(c, k, Programs[c][k])
  BY <1>1 DEF BankSteps
<1>7. \A k \in 1 .. 7 : SpiSteps(c, k, Programs[c][k])
  BY <1>1 DEF SpiSteps
<1>8. Len(Programs[c]) = 7 /\ ReleaseAt(c) = 7
  BY <1>1 DEF ReleaseAt
<1>9. SpansSound(c)
  BY <1>8 DEF SpansSound, Stores, AtOne, AtTwo, Inside, LockOf,
     BlockOf, Block, TapBlocks
<1>10. \A k \in 1 .. 7 : StepSound(c, k, Programs[c][k])
  BY ONLY <1>3, <1>4, <1>5, <1>6, <1>7 DEF StepSound
<1>11. QED
  BY ONLY <1>8, <1>9, <1>10 DEF CallSound

LEMMA DetSound ==
  ASSUME NEW c \in Calls, c.kind = "det"
  PROVE  CallSound(c)
<1> USE DEF WriteDetConfig, PutField, WordTo, DetBank,
            Lock, Release, At
<1>1. Programs[c] = WriteDetConfig
  BY ProgramOf
<1>3. \A k \in 1 .. 10 : LockSteps(c, k, Programs[c][k])
  BY <1>1 DEF LockSteps, LockOf, ReleaseAt
<1>4. \A k \in 1 .. 10 : RegSteps(c, k, Programs[c][k])
  BY <1>1 DEF RegSteps, RegOf, Stores, Inside, ReleaseAt, LockOf, Holder,
     HeldRegs, Dirty, StoreAt, CtrlRegs, MirrorRegs, Register, Fields
<1>5. ASSUME NEW k \in 1 .. 10
      PROVE  WordSteps(c, k, Programs[c][k])
  <2> DEFINE s == Programs[c][k]
  <2>1. /\ BlockOf(c) = "det" /\ LockOf(c) = "dsp"
        /\ AtOne(c) = {4, 8} /\ AtTwo(c) = {5, 9}
    BY DEF BlockOf, AtOne, AtTwo, LockOf
  <2>2. /\ s.do = "restart" <=> k \in {3, 7}
        /\ s.do = "word" <=> k \in {4, 5, 8, 9}
    BY <1>1
  <2>3. k \in {3, 4, 5, 7, 8, 9} => s.at = "det"
    BY <1>1
  <2>4. /\ k \in {4, 5} => s.to = "det0"
        /\ k \in {8, 9} => s.to = "det1"
    BY <1>1
  <2>6. /\ "det" \in Block
        /\ "det0" \in Memory /\ "det0" \in Plain /\ WrittenBy("det0", c) /\ First("det0") = 4
        /\ "det1" \in Memory /\ "det1" \in Plain /\ WrittenBy("det1", c) /\ First("det1") = 8
    BY DEF Block, Memory, Plain, WrittenBy, First, TapBlocks
  <2>7. k \in {3, 4, 5, 7, 8, 9} => Inside(c, k)
    BY DEF Inside, ReleaseAt
  <2>10. \A m \in Plain : WrittenBy(m, c) => m \in {"det0", "det1"}
    BY DEF WrittenBy, Plain, TapBlocks
  <2> HIDE DEF s
  <2>8. WordSteps(c, k, s)
    BY <2>1, <2>2, <2>3, <2>4, <2>6, <2>7, <2>10 DEF WordSteps
  <2>9. QED BY <2>8 DEF s
<1>6. \A k \in 1 .. 10 : BankSteps(c, k, Programs[c][k])
  BY <1>1 DEF BankSteps
<1>7. \A k \in 1 .. 10 : SpiSteps(c, k, Programs[c][k])
  BY <1>1 DEF SpiSteps
<1>8. Len(Programs[c]) = 10 /\ ReleaseAt(c) = 10
  BY <1>1 DEF ReleaseAt
<1>9. SpansSound(c)
  BY <1>8 DEF SpansSound, Stores, AtOne, AtTwo, Inside, LockOf,
     BlockOf, Block, TapBlocks
<1>10. \A k \in 1 .. 10 : StepSound(c, k, Programs[c][k])
  BY ONLY <1>3, <1>4, <1>5, <1>6, <1>7 DEF StepSound
<1>11. QED
  BY ONLY <1>8, <1>9, <1>10 DEF CallSound

LEMMA PllSound ==
  ASSUME NEW c \in Calls, c.kind = "pll"
  PROVE  CallSound(c)
<1> USE DEF WritePllDet, SetField, Load, Store, WordTo,
            Lock, Release, At
<1>1. Programs[c] = WritePllDet
  BY ProgramOf
<1>3. \A k \in 1 .. 8 : LockSteps(c, k, Programs[c][k])
  BY <1>1 DEF LockSteps, LockOf, ReleaseAt
<1>4. \A k \in 1 .. 8 : RegSteps(c, k, Programs[c][k])
  BY <1>1 DEF RegSteps, RegOf, Stores, Inside, ReleaseAt, LockOf, Holder,
     HeldRegs, Dirty, StoreAt, CtrlRegs, MirrorRegs, Register, Fields
<1>5. ASSUME NEW k \in 1 .. 8
      PROVE  WordSteps(c, k, Programs[c][k])
  <2> DEFINE s == Programs[c][k]
  <2>1. /\ BlockOf(c) = "pll" /\ LockOf(c) = "dsp"
        /\ AtOne(c) = {6} /\ AtTwo(c) = {7}
    BY DEF BlockOf, AtOne, AtTwo, LockOf
  <2>2. /\ s.do = "restart" <=> k \in {5}
        /\ s.do = "word" <=> k \in {6, 7}
    BY <1>1
  <2>3. k \in {5, 6, 7} => s.at = "pll"
    BY <1>1
  <2>4. /\ k \in {6, 7} => s.to = "pll"
    BY <1>1
  <2>6. /\ "pll" \in Block
        /\ "pll" \in Memory /\ "pll" \in Plain /\ WrittenBy("pll", c) /\ First("pll") = 6
    BY DEF Block, Memory, Plain, WrittenBy, First, TapBlocks
  <2>7. k \in {5, 6, 7} => Inside(c, k)
    BY DEF Inside, ReleaseAt
  <2>10. \A m \in Plain : WrittenBy(m, c) => m \in {"pll"}
    BY DEF WrittenBy, Plain, TapBlocks
  <2> HIDE DEF s
  <2>8. WordSteps(c, k, s)
    BY <2>1, <2>2, <2>3, <2>4, <2>6, <2>7, <2>10 DEF WordSteps
  <2>9. QED BY <2>8 DEF s
<1>6. \A k \in 1 .. 8 : BankSteps(c, k, Programs[c][k])
  BY <1>1 DEF BankSteps
<1>7. \A k \in 1 .. 8 : SpiSteps(c, k, Programs[c][k])
  BY <1>1 DEF SpiSteps
<1>8. Len(Programs[c]) = 8 /\ ReleaseAt(c) = 8
  BY <1>1 DEF ReleaseAt
<1>9. SpansSound(c)
  BY <1>8 DEF SpansSound, Stores, AtOne, AtTwo, Inside, LockOf,
     BlockOf, Block, TapBlocks
<1>10. \A k \in 1 .. 8 : StepSound(c, k, Programs[c][k])
  BY ONLY <1>3, <1>4, <1>5, <1>6, <1>7 DEF StepSound
<1>11. QED
  BY ONLY <1>8, <1>9, <1>10 DEF CallSound

LEMMA SpiSound ==
  ASSUME NEW c \in Calls, c.kind = "spi"
  PROVE  CallSound(c)
<1> USE DEF Spi,
            Lock, Release, At
<1>1. Programs[c] = Spi(c.n)
  BY ProgramOf
<1>2. c.n \in {0, 1}
  BY CallKinds DEF CallArguments
<1>3. \A k \in 1 .. 4 : LockSteps(c, k, Programs[c][k])
  BY <1>1, <1>2 DEF LockSteps, LockOf, ReleaseAt
<1>4. \A k \in 1 .. 4 : RegSteps(c, k, Programs[c][k])
  BY <1>1, <1>2 DEF RegSteps, RegOf, Stores, Inside, ReleaseAt, LockOf, Holder,
     HeldRegs, Dirty, StoreAt, CtrlRegs, MirrorRegs, Register, Fields
<1>5. \A k \in 1 .. 4 : WordSteps(c, k, Programs[c][k])
  BY <1>1 DEF WordSteps, AtOne, AtTwo, WrittenBy
<1>6. \A k \in 1 .. 4 : BankSteps(c, k, Programs[c][k])
  BY <1>1, <1>2 DEF BankSteps
<1>7. \A k \in 1 .. 4 : SpiSteps(c, k, Programs[c][k])
  BY <1>1, <1>2 DEF SpiSteps
<1>8. Len(Programs[c]) = 4 /\ ReleaseAt(c) = 4
  BY <1>1 DEF ReleaseAt
<1>9. SpansSound(c)
  BY <1>8, <1>2 DEF SpansSound, Stores, AtOne, AtTwo, Inside, LockOf,
     BlockOf, Block, TapBlocks
<1>10. \A k \in 1 .. 4 : StepSound(c, k, Programs[c][k])
  BY ONLY <1>3, <1>4, <1>5, <1>6, <1>7 DEF StepSound
<1>11. QED
  BY ONLY <1>8, <1>9, <1>10 DEF CallSound

LEMMA CallsSound ==
  ASSUME NEW c \in Calls
  PROVE  CallSound(c)
BY CallKinds, FieldSound, NcoSound, MirrorSound, TapsSound, FirSound,
   DecimationSound, SeqSound, Bank0Sound, DetSound, PllSound, SpiSound
   DEF CallArguments

(***************************************************************************)
(* The invariant.                                                          *)
(***************************************************************************)
ValueOf(r, v) ==
  /\ v \in [Fields[r] -> 0 .. 2]
  /\ "bank" \in Fields[r] => v["bank"] \in 0 .. 1

ValuesInv ==
  /\ DOMAIN mirror = Register /\ DOMAIN reg = Register
  /\ \A r \in Register : ValueOf(r, mirror[r]) /\ ValueOf(r, reg[r])

CallsInv ==
  /\ DOMAIN call = RegThreads /\ DOMAIN next = RegThreads
  /\ DOMAIN latch = RegThreads
  /\ \A t \in RegThreads :
       \/ call[t] = NoCall /\ next[t] = 1
       \/ call[t] \in Calls /\ next[t] \in 1 .. Len(Programs[call[t]]) + 1
  /\ called \subseteq Calls
  /\ \A c \in called : \E t \in RegThreads : call[t] = c

\* Thread t holds the lock of its call.
Holding(t) == call[t] \in Calls /\ Inside(call[t], next[t])

RegLockInv ==
  /\ regLock \in [RegLock -> RegThreads \cup {RegNobody}]
  /\ \A t \in RegThreads, l \in RegLock :
       regLock[l] = t <=> Holding(t) /\ LockOf(call[t]) = l

\* The value read of the mirror waits to be written.
Latched(t) == call[t] \in Calls /\ next[t] \in Stores(call[t])

LatchInv ==
  \A t \in RegThreads : Latched(t) => ValueOf(RegOf(call[t]), latch[t])

DirtyIn(t, r) == call[t] \in Calls /\ Dirty(call[t], next[t], r)

HeldRegsInv ==
  \A r \in HeldRegs :
    /\ (\A t \in RegThreads : ~DirtyIn(t, r)) => reg[r] = mirror[r]
    /\ \A t \in RegThreads :
         Latched(t) /\ RegOf(call[t]) = r => latch[t] = mirror[r]

AddressInv ==
  /\ address \in [Block -> 1 .. Words + 1]
  /\ \A t \in RegThreads : call[t] \in Calls =>
       /\ next[t] \in AtOne(call[t]) => address[BlockOf(call[t])] = 1
       /\ next[t] \in AtTwo(call[t]) => address[BlockOf(call[t])] = 2

BankInv ==
  \A t \in RegThreads : call[t] \in Calls =>
    /\ call[t].kind = "fir" =>
         /\ next[t] \in {3, 4} => mirror.fir_config.bank = call[t].n
         /\ next[t] \in {5, 6} => reg.fir_config.bank = call[t].n
    /\ call[t].kind = "det" =>
         /\ next[t] \in 3 .. 6 => reg.det_config.bank = 0
         /\ next[t] \in 7 .. 10 => reg.det_config.bank = 1

WordsInv ==
  /\ memory \in [Memory -> [1 .. Words -> {"old"} \cup Memory]]
  /\ \A m \in Plain :
       /\ \A i \in 1 .. Words : memory[m][i] \in {"old", m}
       /\ \A t \in RegThreads : call[t] \in Calls /\ WrittenBy(m, call[t]) =>
            /\ next[t] > First(m) => memory[m][1] = m
            /\ next[t] > First(m) + 1 => memory[m][2] = m

SpiInv ==
  /\ spi \in 0 .. 2 /\ answer \in [RegThreads -> 0 .. 2]
  /\ \A t \in RegThreads :
       /\ call[t].kind = "spi" /\ next[t] = 3 => spi = call[t].n + 1
       /\ answer[t] = 0 \/ (call[t].kind = "spi" /\ answer[t] = call[t].n + 1)

RegInv ==
  /\ ValuesInv /\ CallsInv /\ RegLockInv /\ LatchInv /\ HeldRegsInv
  /\ AddressInv /\ BankInv /\ WordsInv /\ SpiInv

(***************************************************************************)
(* What step s of thread t does.                                           *)
(***************************************************************************)
MirrorEffect(t, s) ==
  /\ s.do = "set" => mirror' = [mirror EXCEPT ![s.at][s.field] = s.to]
  /\ s.do # "set" => mirror' = mirror

RegEffect(t, s) ==
  /\ s.do = "put" => reg' = [reg EXCEPT ![s.at][s.field] = s.to]
  /\ s.do = "store" => reg' = [reg EXCEPT ![s.at] = latch[t]]
  /\ s.do # "put" /\ s.do # "store" => reg' = reg

LatchEffect(t, s) ==
  /\ s.do = "load" => latch' = [latch EXCEPT ![t] = mirror[s.at]]
  /\ s.do = "store" => latch' = [latch EXCEPT ![t] = <<>>]
  /\ s.do # "load" /\ s.do # "store" => latch' = latch

AddressEffect(t, s) ==
  /\ s.do = "restart" => address' = [address EXCEPT ![s.at] = 1]
  /\ s.do = "word" => address' = [address EXCEPT ![s.at] = address[s.at] + 1]
  /\ s.do = "store" /\ s.at = "fir_config" =>
       address' = [address EXCEPT !["fir"] = 1]
  /\ s.do = "store" /\ s.at # "fir_config" => address' = address
  /\ s.do # "restart" /\ s.do # "word" /\ s.do # "store" => address' = address

MemoryEffect(t, s) ==
  /\ s.do = "word" /\ address[s.at] <= Words =>
       memory' = [memory EXCEPT ![Selected(s.at)][address[s.at]] = s.to]
  /\ s.do = "word" /\ ~(address[s.at] <= Words) => memory' = memory
  /\ s.do # "word" => memory' = memory

LockEffect(t, s) ==
  /\ s.do = "lock" => /\ regLock[s.at] = RegNobody
                      /\ regLock' = [regLock EXCEPT ![s.at] = t]
  /\ s.do = "unlock" => regLock' = [regLock EXCEPT ![s.at] = RegNobody]
  /\ s.do # "lock" /\ s.do # "unlock" => regLock' = regLock

SpiEffect(t, s) ==
  /\ s.do = "spi" => spi' = s.at + 1
  /\ s.do # "spi" => spi' = spi
  /\ s.do = "reply" => answer' = [answer EXCEPT ![t] = spi]
  /\ s.do # "reply" => answer' = answer

Moves(t, c, k, s) ==
  /\ call[t] = c /\ c \in Calls /\ next[t] = k /\ k \in 1 .. Len(Programs[c])
  /\ StepSound(c, k, s)
  /\ next' = [next EXCEPT ![t] = k + 1] /\ call' = call /\ called' = called
  /\ MirrorEffect(t, s) /\ RegEffect(t, s) /\ LatchEffect(t, s)
  /\ AddressEffect(t, s) /\ MemoryEffect(t, s) /\ LockEffect(t, s)
  /\ SpiEffect(t, s)

LEMMA StepMoves ==
  ASSUME CallsInv, NEW t \in RegThreads,
         \/ TakeLock(t) \/ GiveLock(t) \/ SetMirror(t) \/ PutReg(t)
         \/ LoadMirror(t) \/ WriteReg(t) \/ Restart(t) \/ WriteWord(t)
         \/ StartSpi(t) \/ ReadSpi(t)
  PROVE  Moves(t, call[t], next[t], Current(t))
<1> DEFINE c == call[t]
           k == next[t]
           s == Current(t)
<1> USE DEF MirrorEffect, RegEffect, LatchEffect, AddressEffect, MemoryEffect,
            LockEffect, SpiEffect
<1>1. PICK do : StepOf(t, do)
  BY DEF TakeLock, GiveLock, SetMirror, PutReg, LoadMirror, WriteReg, Restart,
         WriteWord, StartSpi, ReadSpi
<1>2. c \in Calls /\ k \in 1 .. Len(Programs[c]) + 1
  BY <1>1 DEF CallsInv, StepOf
<1>3. CallSound(c)
  BY <1>2, CallsSound
<1>4. k \in 1 .. Len(Programs[c])
  BY <1>1, <1>2, <1>3 DEF StepOf, Finished, CallSound
<1>5. StepSound(c, k, s)
  BY <1>3, <1>4 DEF CallSound, Current
<1>6. /\ next' = [next EXCEPT ![t] = k + 1] /\ call' = call /\ called' = called
  BY <1>1 DEF StepOf
<1> HIDE DEF s
<1>7. /\ MirrorEffect(t, s) /\ RegEffect(t, s) /\ LatchEffect(t, s)
      /\ AddressEffect(t, s) /\ MemoryEffect(t, s) /\ LockEffect(t, s)
      /\ SpiEffect(t, s)
  <2>1. CASE TakeLock(t) BY <2>1 DEF TakeLock, StepOf, s
  <2>2. CASE GiveLock(t) BY <2>2 DEF GiveLock, StepOf, s
  <2>3. CASE SetMirror(t) BY <2>3 DEF SetMirror, StepOf, s
  <2>4. CASE PutReg(t) BY <2>4 DEF PutReg, StepOf, s
  <2>5. CASE LoadMirror(t) BY <2>5 DEF LoadMirror, StepOf, s
  <2>6. CASE WriteReg(t) BY <2>6 DEF WriteReg, StepOf, s
  <2>7. CASE Restart(t) BY <2>7 DEF Restart, StepOf, s
  <2>8. CASE WriteWord(t) BY <2>8 DEF WriteWord, StepOf, s
  <2>9. CASE StartSpi(t) BY <2>9 DEF StartSpi, StepOf, s
  <2>10. CASE ReadSpi(t) BY <2>10 DEF ReadSpi, StepOf, s
  <2>11. QED
    BY <2>1, <2>2, <2>3, <2>4, <2>5, <2>6, <2>7, <2>8, <2>9, <2>10
<1>8. QED
  BY <1>2, <1>4, <1>5, <1>6, <1>7 DEF Moves, s

\* The thread that moves goes on to its next step and the others stay.
LEMMA OthersStay ==
  ASSUME CallsInv, NEW t \in RegThreads, NEW c, NEW k, NEW s, Moves(t, c, k, s)
  PROVE  /\ call'[t] = c /\ next'[t] = k + 1
         /\ \A u \in RegThreads : call'[u] = call[u]
         /\ \A u \in RegThreads \ {t} : next'[u] = next[u]
BY DEF CallsInv, Moves

\* Two threads in calls that hold the same lock are one.
LEMMA OneHolder ==
  ASSUME RegLockInv, NEW t \in RegThreads, NEW u \in RegThreads,
         Holding(t), Holding(u), LockOf(call[t]) = LockOf(call[u])
  PROVE  t = u
<1>1. LockOf(call[t]) \in RegLock
  BY DEF LockOf, RegLock
<1>2. QED BY <1>1 DEF RegLockInv

LEMMA AddressChange ==
  ASSUME NEW t \in RegThreads, NEW c, NEW k, NEW s, Moves(t, c, k, s),
         address' # address
  PROVE  Holding(t) /\ LockOf(c) = "dsp"
<1>1. /\ RegSteps(c, k, s) /\ WordSteps(c, k, s) /\ AddressEffect(t, s)
      /\ call[t] = c /\ next[t] = k /\ c \in Calls
  BY DEF Moves, StepSound
<1>2. s.do \in {"restart", "word"} \/ (s.do = "store" /\ s.at = "fir_config")
  BY <1>1 DEF AddressEffect
<1>3. CASE s.do \in {"restart", "word"}
  BY <1>1, <1>3 DEF WordSteps, Holding
<1>4. CASE s.do = "store" /\ s.at = "fir_config"
  <2>1. "fir_config" \in HeldRegs /\ Holder("fir_config") = "dsp"
    BY DEF HeldRegs, Holder, CtrlRegs
  <2>2. QED BY <1>1, <1>4, <2>1 DEF RegSteps, Holding
<1>5. QED BY <1>2, <1>3, <1>4

LEMMA CallsStep ==
  ASSUME CallsInv, NEW t \in RegThreads, NEW c, NEW k, NEW s, Moves(t, c, k, s)
  PROVE  CallsInv'
<1>1. /\ DOMAIN call' = RegThreads /\ DOMAIN next' = RegThreads
      /\ DOMAIN latch' = RegThreads
  BY DEF CallsInv, Moves, LatchEffect
<1>2. ASSUME NEW u \in RegThreads
      PROVE  \/ call'[u] = NoCall /\ next'[u] = 1
             \/ call'[u] \in Calls /\ next'[u] \in 1 .. Len(Programs[call'[u]]) + 1
  <2>1. CASE u = t
    <3>1. c \in Calls /\ k \in 1 .. Len(Programs[c]) /\ Len(Programs[c]) \in Nat
      BY CallsSound DEF Moves, CallSound
    <3>2. QED BY <2>1, <3>1, OthersStay
  <2>2. CASE u # t
    BY <2>2, OthersStay DEF CallsInv
  <2>3. QED BY <2>1, <2>2
<1>3. called' \subseteq Calls /\ \A d \in called' : \E u \in RegThreads : call'[u] = d
  BY DEF CallsInv, Moves
<1>4. QED
  BY <1>1, <1>2, <1>3 DEF CallsInv

LEMMA LockStep ==
  ASSUME CallsInv, RegLockInv, NEW t \in RegThreads, NEW c, NEW k, NEW s,
         Moves(t, c, k, s)
  PROVE  RegLockInv'
<1>1. LockSteps(c, k, s) /\ LockEffect(t, s) /\ call[t] = c /\ next[t] = k
      /\ c \in Calls
  BY DEF Moves, StepSound
<1>2. k \in Nat /\ ReleaseAt(c) \in Nat /\ ReleaseAt(c) >= 2
      /\ LockOf(c) \in RegLock
  BY CallsSound DEF Moves, CallSound, LockOf, RegLock
<1>3. t # RegNobody
  BY RegAssumption
<1>4. regLock' \in [RegLock -> RegThreads \cup {RegNobody}]
  BY <1>1, <1>2 DEF RegLockInv, LockEffect, LockSteps
<1>5. ASSUME NEW u \in RegThreads, NEW l \in RegLock
      PROVE  regLock'[l] = u <=> Holding(u)' /\ LockOf(call'[u]) = l
  <2>1. CASE u # t
    <3>1. Holding(u)' <=> Holding(u)
      BY <2>1, OthersStay DEF Holding
    <3>2. regLock[l] = u <=> Holding(u) /\ LockOf(call[u]) = l
      BY DEF RegLockInv
    <3>3. k = 1 => ~Holding(t)
      BY <1>1 DEF Holding, Inside
    <3>4. k = ReleaseAt(c) => regLock[LockOf(c)] = t
      BY <1>1, <1>2 DEF Holding, Inside, RegLockInv
    <3>5. regLock'[l] = u <=> regLock[l] = u
      BY <1>1, <1>2, <1>3, <2>1, <3>4, RegAssumption DEF LockEffect, LockSteps, RegLockInv
    <3>6. QED BY <3>1, <3>2, <3>5, OthersStay
  <2>2. CASE u = t
    <3>1. Holding(t)' <=> Inside(c, k + 1)
      BY <1>1, OthersStay DEF Holding
    <3>2. regLock[l] = t <=> Inside(c, k) /\ LockOf(c) = l
      BY <1>1 DEF RegLockInv, Holding
    <3>3. CASE k = 1
      <4>1. Inside(c, k + 1) /\ ~Inside(c, k)
        BY <1>2, <3>3 DEF Inside
      <4>2. regLock' = [regLock EXCEPT ![LockOf(c)] = t]
        BY <1>1, <3>3 DEF LockEffect, LockSteps
      <4>3. regLock'[l] = t <=> LockOf(c) = l
        BY <4>1, <4>2, <3>2, <1>2 DEF RegLockInv
      <4>4. QED BY <2>2, <3>1, <4>1, <4>3, <1>1, OthersStay
    <3>4. CASE k = ReleaseAt(c)
      <4>1. ~Inside(c, k + 1) /\ Inside(c, k)
        BY <1>2, <3>4 DEF Inside
      <4>2. regLock' = [regLock EXCEPT ![LockOf(c)] = RegNobody]
        BY <1>1, <3>4 DEF LockEffect, LockSteps
      <4>3. regLock'[l] # t
        BY <4>1, <4>2, <3>2, <1>2, <1>3 DEF RegLockInv
      <4>4. QED BY <2>2, <3>1, <4>1, <4>3, <1>1, OthersStay
    <3>5. CASE k # 1 /\ k # ReleaseAt(c)
      <4>1. Inside(c, k + 1) <=> Inside(c, k)
        BY <1>2, <3>5 DEF Inside
      <4>2. regLock' = regLock
        BY <1>1, <3>5 DEF LockEffect, LockSteps
      <4>3. QED BY <2>2, <3>1, <3>2, <4>1, <4>2, <1>1, OthersStay
    <3>6. QED BY <3>3, <3>4, <3>5
  <2>3. QED BY <2>1, <2>2
<1>6. QED
  BY <1>4, <1>5 DEF RegLockInv

LEMMA ValueSet ==
  ASSUME NEW r, NEW v, ValueOf(r, v), NEW f \in Fields[r], NEW to \in 0 .. 2,
         f = "bank" => to \in 0 .. 1
  PROVE  ValueOf(r, [v EXCEPT ![f] = to])
BY DEF ValueOf

LEMMA ValuesStep ==
  ASSUME CallsInv, ValuesInv, LatchInv, NEW t \in RegThreads,
         NEW c, NEW k, NEW s, Moves(t, c, k, s)
  PROVE  ValuesInv'
<1>1. /\ RegSteps(c, k, s) /\ BankSteps(c, k, s) /\ MirrorEffect(t, s)
      /\ RegEffect(t, s) /\ call[t] = c /\ next[t] = k /\ c \in Calls
  BY DEF Moves, StepSound
<1>2. DOMAIN mirror' = Register /\ \A r \in Register : ValueOf(r, mirror'[r])
  <2>1. CASE s.do = "set"
    <3>1. /\ s.at \in Register /\ s.field \in Fields[s.at] /\ s.to \in 0 .. 2
          /\ s.field = "bank" => s.to \in 0 .. 1
      BY <1>1, <2>1 DEF RegSteps
    <3>2. ValueOf(s.at, [mirror[s.at] EXCEPT ![s.field] = s.to])
      BY <3>1, ValueSet DEF ValuesInv
    <3>3. mirror' = [mirror EXCEPT ![s.at] = [mirror[s.at] EXCEPT ![s.field] = s.to]]
      BY <1>1, <2>1 DEF MirrorEffect
    <3>4. QED BY <3>1, <3>2, <3>3 DEF ValuesInv
  <2>2. CASE s.do # "set"
    BY <1>1, <2>2 DEF MirrorEffect, ValuesInv
  <2>3. QED BY <2>1, <2>2
<1>3. DOMAIN reg' = Register /\ \A r \in Register : ValueOf(r, reg'[r])
  <2>1. CASE s.do = "put"
    <3>1. /\ s.at = "det_config" /\ s.field = "bank" /\ s.to \in 0 .. 1
      BY <1>1, <2>1 DEF BankSteps
    <3>2. "det_config" \in Register /\ "bank" \in Fields["det_config"]
      BY DEF Register, Fields
    <3>3. s.to \in 0 .. 2
      BY <3>1
    <3>4. ValueOf(s.at, [reg[s.at] EXCEPT ![s.field] = s.to])
      BY <3>1, <3>2, <3>3, ValueSet DEF ValuesInv
    <3>5. reg' = [reg EXCEPT ![s.at] = [reg[s.at] EXCEPT ![s.field] = s.to]]
      BY <1>1, <2>1 DEF RegEffect
    <3>6. QED BY <3>1, <3>2, <3>4, <3>5 DEF ValuesInv
  <2>2. CASE s.do = "store"
    <3>1. s.at = RegOf(c) /\ Latched(t) /\ RegOf(c) \in Register
      BY <1>1, <2>2 DEF RegSteps, Latched
    <3>2. ValueOf(RegOf(c), latch[t])
      BY <1>1, <3>1 DEF LatchInv
    <3>3. reg' = [reg EXCEPT ![RegOf(c)] = latch[t]]
      BY <1>1, <2>2, <3>1 DEF RegEffect
    <3>4. QED BY <3>1, <3>2, <3>3 DEF ValuesInv
  <2>3. CASE s.do # "put" /\ s.do # "store"
    BY <1>1, <2>3 DEF RegEffect, ValuesInv
  <2>4. QED BY <2>1, <2>2, <2>3
<1>4. QED BY <1>2, <1>3 DEF ValuesInv

\* A thread that moves has its value read, or has written it.
LEMMA LatchOwn ==
  ASSUME CallsInv, NEW t \in RegThreads, NEW c, NEW k, NEW s, Moves(t, c, k, s)
  PROVE  /\ k + 1 \in Stores(c) =>
              RegOf(c) \in Register /\ latch'[t] = mirror[RegOf(c)] /\ mirror' = mirror
         /\ \A u \in RegThreads \ {t} : latch'[u] = latch[u]
<1>1. /\ RegSteps(c, k, s) /\ MirrorEffect(t, s) /\ LatchEffect(t, s)
  BY DEF Moves, StepSound
<1>2. ASSUME k + 1 \in Stores(c)
      PROVE  RegOf(c) \in Register /\ latch'[t] = mirror[RegOf(c)] /\ mirror' = mirror
  <2>1. s.do = "load" /\ s.at = RegOf(c) /\ RegOf(c) \in Register
    BY <1>1, <1>2 DEF RegSteps
  <2>2. QED BY <1>1, <2>1 DEF MirrorEffect, LatchEffect, CallsInv
<1>3. \A u \in RegThreads \ {t} : latch'[u] = latch[u]
  BY <1>1 DEF LatchEffect, CallsInv
<1>4. QED BY <1>2, <1>3

LEMMA LatchStep ==
  ASSUME CallsInv, ValuesInv, LatchInv, NEW t \in RegThreads,
         NEW c, NEW k, NEW s, Moves(t, c, k, s)
  PROVE  LatchInv'
<1> SUFFICES ASSUME NEW u \in RegThreads, Latched(u)'
             PROVE  ValueOf(RegOf(call'[u]), latch'[u])
  BY DEF LatchInv
<1>1. CASE u = t
  <2>1. k + 1 \in Stores(c) /\ call'[t] = c
    BY <1>1, OthersStay DEF Latched
  <2>2. QED BY <1>1, <2>1, LatchOwn DEF ValuesInv
<1>2. CASE u # t
  <2>1. Latched(u) /\ call'[u] = call[u]
    BY <1>2, OthersStay DEF Latched
  <2>2. latch'[u] = latch[u]
    BY <1>2, LatchOwn
  <2>3. QED BY <2>1, <2>2 DEF LatchInv
<1>3. QED BY <1>1, <1>2

LEMMA HeldStep ==
  ASSUME CallsInv, ValuesInv, RegLockInv, HeldRegsInv, NEW t \in RegThreads,
         NEW c, NEW k, NEW s, Moves(t, c, k, s)
  PROVE  HeldRegsInv'
<1>1. /\ RegSteps(c, k, s) /\ BankSteps(c, k, s) /\ MirrorEffect(t, s)
      /\ RegEffect(t, s) /\ call[t] = c /\ next[t] = k /\ c \in Calls
  BY DEF Moves, StepSound
<1>2. HeldRegs \subseteq Register /\ "det_config" \notin HeldRegs
  BY DEF HeldRegs, CtrlRegs, Register, Fields
<1>3. ASSUME NEW r \in HeldRegs, \A u \in RegThreads : ~DirtyIn(u, r)'
      PROVE  reg'[r] = mirror'[r]
  <2>1. ~Dirty(c, k + 1, r)
    BY <1>1, <1>3, OthersStay DEF DirtyIn
  <2>2. \A u \in RegThreads \ {t} : ~DirtyIn(u, r)
    BY <1>3, OthersStay DEF DirtyIn
  <2>3. mirror'[r] = mirror[r]
    <3>1. CASE s.do = "set"
      <4>1. s.at = RegOf(c) /\ s.at # r
        BY <1>1, <2>1, <3>1 DEF RegSteps
      <4>2. QED BY <1>1, <1>2, <3>1, <4>1 DEF MirrorEffect, ValuesInv
    <3>2. CASE s.do # "set"
      BY <1>1, <3>2 DEF MirrorEffect
    <3>3. QED BY <3>1, <3>2
  <2>4. CASE s.do = "store" /\ s.at = r
    <3>1. Latched(t) /\ RegOf(c) = r
      BY <1>1, <2>4 DEF Latched, RegSteps
    <3>2. latch[t] = mirror[r]
      BY <1>1, <3>1 DEF HeldRegsInv
    <3>3. QED BY <1>1, <1>2, <2>3, <2>4, <3>2 DEF RegEffect, ValuesInv
  <2>5. CASE ~(s.do = "store" /\ s.at = r)
    <3>1. reg'[r] = reg[r]
      <4>1. CASE s.do = "put"
        <5>1. s.at # r
          BY <1>1, <1>2, <4>1 DEF BankSteps
        <5>2. QED BY <1>1, <1>2, <4>1, <5>1 DEF RegEffect, ValuesInv
      <4>2. CASE s.do = "store"
        BY <1>1, <1>2, <2>5, <4>2 DEF RegEffect, ValuesInv
      <4>3. CASE s.do # "put" /\ s.do # "store"
        BY <1>1, <4>3 DEF RegEffect
      <4>4. QED BY <4>1, <4>2, <4>3
    <3>2. ~Dirty(c, k, r)
      <4>1. ASSUME Dirty(c, k, r) PROVE FALSE
        <5>1. s.do = "store" /\ RegOf(c) = r
          BY <1>1, <2>1, <4>1 DEF RegSteps, Dirty
        <5>2. s.at = r
          BY <1>1, <5>1 DEF RegSteps
        <5>3. QED BY <2>5, <5>1, <5>2
      <4>2. QED BY <4>1
    <3>3. \A u \in RegThreads : ~DirtyIn(u, r)
      BY <1>1, <2>2, <3>2 DEF DirtyIn
    <3>4. QED BY <2>3, <3>1, <3>3 DEF HeldRegsInv
  <2>6. QED BY <2>4, <2>5
<1>4. ASSUME NEW r \in HeldRegs, NEW u \in RegThreads, Latched(u)',
             RegOf(call'[u]) = r
      PROVE  latch'[u] = mirror'[r]
  <2>1. CASE u = t
    <3>1. k + 1 \in Stores(c) /\ call'[t] = c
      BY <2>1, <1>4, OthersStay DEF Latched
    <3>2. QED BY <2>1, <3>1, <1>4, LatchOwn
  <2>2. CASE u # t
    <3>1. Latched(u) /\ RegOf(call[u]) = r
      BY <2>2, <1>4, OthersStay DEF Latched
    <3>2. latch'[u] = latch[u] /\ latch[u] = mirror[r]
      BY <2>2, <3>1, LatchOwn DEF HeldRegsInv
    <3>3. Holding(u) /\ LockOf(call[u]) = Holder(r)
      <4>1. PICK d : d = call[u] /\ d \in Calls
        BY <3>1 DEF Latched
      <4>2. next[u] \in 1 .. Len(Programs[d])
        BY <3>1, <4>1, CallsSound DEF Latched, CallSound, SpansSound
      <4>3. RegSteps(d, next[u], Programs[d][next[u]])
        BY <4>1, <4>2, CallsSound DEF CallSound, StepSound
      <4>4. QED BY <3>1, <4>1, <4>3 DEF RegSteps, Latched, Holding
    <3>4. mirror'[r] = mirror[r]
      <4>1. CASE s.do = "set" /\ s.at = r
        <5>1. Holding(t) /\ LockOf(c) = Holder(r)
          BY <1>1, <4>1 DEF RegSteps, Holding
        <5>2. QED BY <1>1, <2>2, <3>3, <5>1, OneHolder
      <4>2. CASE ~(s.do = "set" /\ s.at = r)
        BY <1>1, <1>2, <4>2 DEF MirrorEffect, RegSteps, ValuesInv
      <4>3. QED BY <4>1, <4>2
    <3>5. QED BY <3>2, <3>4
  <2>3. QED BY <2>1, <2>2
<1>5. QED
  BY <1>3, <1>4 DEF HeldRegsInv

LEMMA AddressStep ==
  ASSUME CallsInv, RegLockInv, AddressInv, NEW t \in RegThreads,
         NEW c, NEW k, NEW s, Moves(t, c, k, s)
  PROVE  AddressInv'
<1>1. /\ RegSteps(c, k, s) /\ WordSteps(c, k, s) /\ AddressEffect(t, s)
      /\ call[t] = c /\ next[t] = k /\ c \in Calls
  BY DEF Moves, StepSound
<1>2. SpansSound(c)
  BY <1>1, CallsSound DEF CallSound
<1>3. "fir" \in Block
  BY DEF Block
<1>4. /\ k \in AtOne(c) => address[BlockOf(c)] = 1
      /\ k \in AtTwo(c) => address[BlockOf(c)] = 2
  BY <1>1 DEF AddressInv
<1>5. address' \in [Block -> 1 .. Words + 1]
  <2>1. CASE s.do = "word"
    <3>1. s.at \in Block /\ address[s.at] \in {1, 2}
      BY <1>1, <1>4, <2>1 DEF WordSteps
    <3>2. address[s.at] + 1 \in 1 .. Words + 1
      BY <3>1 DEF Words
    <3>3. QED BY <1>1, <2>1, <3>1, <3>2 DEF AddressEffect, AddressInv
  <2>2. CASE s.do # "word"
    <3>1. 1 \in 1 .. Words + 1
      BY DEF Words
    <3>2. s.do = "restart" => s.at \in Block
      BY <1>1 DEF WordSteps
    <3>3. QED BY <1>1, <1>3, <2>2, <3>1, <3>2 DEF AddressEffect, AddressInv
  <2>3. QED BY <2>1, <2>2
<1>6. ASSUME NEW u \in RegThreads, call'[u] \in Calls
      PROVE  /\ next'[u] \in AtOne(call'[u]) => address'[BlockOf(call'[u])] = 1
             /\ next'[u] \in AtTwo(call'[u]) => address'[BlockOf(call'[u])] = 2
  <2>1. CASE u = t
    <3>0. call'[u] = c /\ next'[u] = k + 1
      BY <2>1, OthersStay
    <3>1. ASSUME k + 1 \in AtOne(c) PROVE address'[BlockOf(c)] = 1
      <4>0. BlockOf(c) \in Block
        BY <1>2, <3>1 DEF SpansSound
      <4>1. CASE k \in AtOne(c) /\ s.do # "word"
        <5>1. address[BlockOf(c)] = 1
          BY <1>4, <4>1
        <5>2. s.do = "restart" => s.at \in Block
          BY <1>1 DEF WordSteps
        <5>3. QED BY <1>1, <1>3, <4>0, <4>1, <5>1, <5>2 DEF AddressEffect, AddressInv
      <4>2. CASE s.do = "restart"
        BY <1>1, <4>0, <4>2 DEF AddressEffect, AddressInv, WordSteps
      <4>3. CASE s.do = "store" /\ c.kind = "fir"
        <5>1. BlockOf(c) = "fir" /\ RegOf(c) = "fir_config"
          BY <4>3 DEF BlockOf, RegOf
        <5>2. s.at = "fir_config"
          BY <1>1, <4>3, <5>1 DEF RegSteps
        <5>3. QED BY <1>1, <1>3, <4>3, <5>1, <5>2 DEF AddressEffect, AddressInv
      <4>4. QED BY <1>1, <3>1, <4>1, <4>2, <4>3 DEF WordSteps
    <3>2. ASSUME k + 1 \in AtTwo(c) PROVE address'[BlockOf(c)] = 2
      <4>1. BlockOf(c) \in Block /\ k \in AtOne(c) /\ s.do = "word" /\ s.at = BlockOf(c)
        BY <1>1, <1>2, <3>2 DEF SpansSound, WordSteps
      <4>2. QED BY <1>1, <1>4, <4>1 DEF AddressEffect, AddressInv
    <3>3. QED BY <3>0, <3>1, <3>2
  <2>2. CASE u # t
    <3>1. call'[u] = call[u] /\ next'[u] = next[u]
      BY <2>2, OthersStay
    <3>2. ASSUME next[u] \in AtOne(call[u]) \cup AtTwo(call[u])
          PROVE  address' = address
      <4>1. SpansSound(call[u])
        BY <1>6, <3>1, CallsSound DEF CallSound
      <4>2. Holding(u) /\ LockOf(call[u]) = "dsp"
        BY <1>6, <3>1, <3>2, <4>1 DEF SpansSound, Holding
      <4>3. QED BY <1>1, <2>2, <4>2, AddressChange, OneHolder
    <3>3. QED BY <1>6, <3>1, <3>2 DEF AddressInv
  <2>3. QED BY <2>1, <2>2
<1>7. QED
  BY <1>5, <1>6 DEF AddressInv

\* The registers that select a bank change only under dsp_locks.
LEMMA BankChange ==
  ASSUME ValuesInv, NEW t \in RegThreads, NEW c, NEW k, NEW s, Moves(t, c, k, s),
         \/ mirror'["fir_config"] # mirror["fir_config"]
         \/ reg'["fir_config"] # reg["fir_config"]
         \/ reg'["det_config"] # reg["det_config"]
  PROVE  Holding(t) /\ LockOf(c) = "dsp"
<1>1. /\ RegSteps(c, k, s) /\ BankSteps(c, k, s) /\ MirrorEffect(t, s)
      /\ RegEffect(t, s) /\ call[t] = c /\ next[t] = k /\ c \in Calls
  BY DEF Moves, StepSound
<1>2. "fir_config" \in HeldRegs /\ Holder("fir_config") = "dsp"
  BY DEF HeldRegs, Holder, CtrlRegs
<1>3. "fir_config" \in Register /\ "det_config" \in Register
  BY DEF Register, Fields
<1>4. CASE s.do = "set"
  <2>1. s.at \in Register
    BY <1>1, <1>4 DEF RegSteps
  <2>2. reg' = reg
    BY <1>1, <1>4 DEF RegEffect
  <2>3. s.at = "fir_config"
    BY <1>1, <1>3, <1>4, <2>1, <2>2 DEF MirrorEffect, ValuesInv
  <2>4. QED BY <1>1, <1>2, <1>4, <2>3 DEF RegSteps, Holding
<1>5. CASE s.do = "store"
  <2>1. k \in Stores(c) /\ s.at = RegOf(c) /\ mirror' = mirror
    BY <1>1, <1>5 DEF RegSteps, MirrorEffect
  <2>2. RegOf(c) \in {"fir_config", "det_config"}
    BY <1>1, <1>3, <1>5, <2>1 DEF RegEffect, ValuesInv
  <2>3. RegOf(c) # "det_config"
    BY <1>1, CallKinds DEF CallArguments, RegOf, CtrlRegs, MirrorRegs
  <2>4. QED BY <1>1, <1>2, <2>1, <2>2, <2>3 DEF RegSteps, Holding
<1>6. CASE s.do = "put"
  <2>1. c.kind = "det" /\ k \in {2, 6}
    BY <1>1, <1>6 DEF BankSteps
  <2>2. QED BY <1>1, <2>1 DEF Holding, Inside, ReleaseAt, LockOf
<1>7. CASE s.do # "set" /\ s.do # "store" /\ s.do # "put"
  BY <1>1, <1>7 DEF MirrorEffect, RegEffect
<1>8. QED BY <1>4, <1>5, <1>6, <1>7

LEMMA BankStep ==
  ASSUME CallsInv, ValuesInv, RegLockInv, HeldRegsInv, BankInv, NEW t \in RegThreads,
         NEW c, NEW k, NEW s, Moves(t, c, k, s)
  PROVE  BankInv'
<1>1. /\ RegSteps(c, k, s) /\ BankSteps(c, k, s) /\ MirrorEffect(t, s)
      /\ RegEffect(t, s) /\ call[t] = c /\ next[t] = k /\ c \in Calls
  BY DEF Moves, StepSound
<1>2. k \in Nat
  BY CallsSound DEF Moves, CallSound
<1>3. /\ "fir_config" \in Register /\ "det_config" \in Register
      /\ "bank" \in Fields["fir_config"] /\ "bank" \in Fields["det_config"]
  BY DEF Register, Fields
<1>4. ASSUME c.kind = "fir"
      PROVE  /\ k + 1 \in {3, 4} => mirror'["fir_config"]["bank"] = c.n
             /\ k + 1 \in {5, 6} => reg'["fir_config"]["bank"] = c.n
  <2>1. CASE k = 2
    <3>1. mirror' = [mirror EXCEPT !["fir_config"]["bank"] = c.n]
      BY <1>1, <1>4, <2>1 DEF BankSteps, MirrorEffect
    <3>2. QED BY <1>3, <2>1, <3>1 DEF ValuesInv, ValueOf
  <2>2. CASE k = 3
    <3>1. mirror' = mirror
      BY <1>1, <1>4, <2>2 DEF BankSteps, MirrorEffect
    <3>2. QED BY <1>1, <1>4, <2>2, <3>1 DEF BankInv
  <2>3. CASE k = 4
    <3>1. s.do = "store" /\ s.at = "fir_config"
      BY <1>1, <1>4, <2>3 DEF BankSteps
    <3>2. Latched(t) /\ RegOf(c) = "fir_config" /\ "fir_config" \in HeldRegs
      BY <1>1, <3>1 DEF Latched, RegSteps, HeldRegs
    <3>3. latch[t] = mirror["fir_config"]
      BY <1>1, <3>2 DEF HeldRegsInv
    <3>4. mirror["fir_config"]["bank"] = c.n
      BY <1>1, <1>4, <2>3 DEF BankInv
    <3>5. reg' = [reg EXCEPT !["fir_config"] = latch[t]]
      BY <1>1, <3>1 DEF RegEffect
    <3>6. QED BY <1>3, <2>3, <3>3, <3>4, <3>5 DEF ValuesInv
  <2>4. CASE k = 5
    <3>1. reg' = reg
      BY <1>1, <1>4, <2>4 DEF BankSteps, RegEffect
    <3>2. QED BY <1>1, <1>4, <2>4, <3>1 DEF BankInv
  <2>5. QED BY <1>2, <2>1, <2>2, <2>3, <2>4
<1>5. ASSUME c.kind = "det"
      PROVE  /\ k + 1 \in 3 .. 6 => reg'["det_config"]["bank"] = 0
             /\ k + 1 \in 7 .. 10 => reg'["det_config"]["bank"] = 1
  <2>1. CASE k = 2 \/ k = 6
    <3>1. s.do = "put" /\ s.at = "det_config" /\ s.field = "bank"
      BY <1>1, <1>5, <2>1 DEF BankSteps
    <3>2. k = 2 => s.to = 0
      BY <1>1, <3>1 DEF BankSteps
    <3>3. k = 6 => s.to = 1
      BY <1>1, <3>1 DEF BankSteps
    <3>4. reg' = [reg EXCEPT !["det_config"]["bank"] = s.to]
      BY <1>1, <3>1 DEF RegEffect
    <3>5. reg'["det_config"]["bank"] = s.to
      BY <1>3, <3>4 DEF ValuesInv, ValueOf
    <3>6. QED BY <2>1, <3>2, <3>3, <3>5
  <2>2. CASE k # 2 /\ k # 6
    <3>1. reg' = reg
      BY <1>1, <1>5, <2>2 DEF BankSteps, RegEffect
    <3>2. /\ k \in 3 .. 6 => reg["det_config"]["bank"] = 0
          /\ k \in 7 .. 10 => reg["det_config"]["bank"] = 1
      BY <1>1, <1>5 DEF BankInv
    <3>3. QED BY <1>2, <2>2, <3>1, <3>2
  <2>3. QED BY <2>1, <2>2
<1>6. SUFFICES ASSUME NEW u \in RegThreads, call'[u] \in Calls
               PROVE  /\ call'[u].kind = "fir" =>
                           /\ next'[u] \in {3, 4} =>
                                mirror'["fir_config"]["bank"] = call'[u].n
                           /\ next'[u] \in {5, 6} =>
                                reg'["fir_config"]["bank"] = call'[u].n
                      /\ call'[u].kind = "det" =>
                           /\ next'[u] \in 3 .. 6 => reg'["det_config"]["bank"] = 0
                           /\ next'[u] \in 7 .. 10 => reg'["det_config"]["bank"] = 1
  BY DEF BankInv
<1>7. CASE u = t
  BY <1>4, <1>5, <1>7, OthersStay
<1>8. CASE u # t
  <2>1. call'[u] = call[u] /\ next'[u] = next[u]
    BY <1>8, OthersStay
  <2>2. ASSUME Holding(u) /\ LockOf(call[u]) = "dsp"
        PROVE  /\ mirror'["fir_config"] = mirror["fir_config"]
               /\ reg'["fir_config"] = reg["fir_config"]
               /\ reg'["det_config"] = reg["det_config"]
    BY <1>1, <1>8, <2>2, BankChange, OneHolder
  <2>3. CASE call[u].kind = "fir" /\ next[u] \in {3, 4, 5, 6}
    <3>1. Holding(u) /\ LockOf(call[u]) = "dsp"
      BY <1>6, <2>1, <2>3 DEF Holding, Inside, ReleaseAt, LockOf
    <3>2. QED BY <1>6, <2>1, <2>2, <2>3, <3>1 DEF BankInv
  <2>4. CASE call[u].kind = "det" /\ next[u] \in 3 .. 10
    <3>1. Holding(u) /\ LockOf(call[u]) = "dsp"
      BY <1>6, <2>1, <2>4 DEF Holding, Inside, ReleaseAt, LockOf
    <3>2. QED BY <1>6, <2>1, <2>2, <2>4, <3>1 DEF BankInv
  <2>5. QED BY <2>1, <2>3, <2>4
<1>9. QED BY <1>7, <1>8

LEMMA SpiStep ==
  ASSUME CallsInv, RegLockInv, SpiInv, NEW t \in RegThreads,
         NEW c, NEW k, NEW s, Moves(t, c, k, s)
  PROVE  SpiInv'
<1>1. /\ SpiSteps(c, k, s) /\ SpiEffect(t, s)
      /\ call[t] = c /\ next[t] = k /\ c \in Calls
  BY DEF Moves, StepSound
<1>2. k \in Nat
  BY CallsSound DEF Moves, CallSound
<1>3. c.kind = "spi" => c.n \in {0, 1}
  BY <1>1, CallKinds DEF CallArguments
<1>4. spi' \in 0 .. 2 /\ answer' \in [RegThreads -> 0 .. 2]
  BY <1>1, <1>3 DEF SpiSteps, SpiEffect, SpiInv
<1>5. ASSUME NEW u \in RegThreads
      PROVE  /\ call'[u].kind = "spi" /\ next'[u] = 3 => spi' = call'[u].n + 1
             /\ answer'[u] = 0 \/ (call'[u].kind = "spi" /\ answer'[u] = call'[u].n + 1)
  <2>1. CASE u = t
    <3>0. call'[u] = c /\ next'[u] = k + 1
      BY <2>1, OthersStay
    <3>1. ASSUME c.kind = "spi", k + 1 = 3
          PROVE  spi' = c.n + 1
      <4>1. k = 2
        BY <1>2, <3>1
      <4>2. s.do = "spi"
        BY <1>1, <3>1, <4>1 DEF SpiSteps
      <4>3. QED BY <1>1, <4>2 DEF SpiSteps, SpiEffect
    <3>2. CASE s.do = "reply"
      <4>1. answer'[t] = spi
        BY <1>1, <3>2 DEF SpiEffect, SpiInv
      <4>2. c.kind = "spi" /\ spi = c.n + 1
        BY <1>1, <3>2 DEF SpiSteps, SpiInv
      <4>3. QED BY <2>1, <3>0, <3>1, <4>1, <4>2
    <3>3. CASE s.do # "reply"
      <4>1. answer' = answer
        BY <1>1, <3>3 DEF SpiEffect
      <4>2. answer[t] = 0 \/ (c.kind = "spi" /\ answer[t] = c.n + 1)
        BY <1>1 DEF SpiInv
      <4>3. QED BY <2>1, <3>0, <3>1, <4>1, <4>2
    <3>4. QED BY <3>2, <3>3
  <2>2. CASE u # t
    <3>1. call'[u] = call[u] /\ next'[u] = next[u]
      BY <2>2, OthersStay
    <3>2. answer'[u] = answer[u]
      BY <1>1, <2>2 DEF SpiEffect, SpiInv
    <3>3. ASSUME call[u].kind = "spi", next[u] = 3
          PROVE  spi' = spi
      <4>1. call[u] # NoCall
        BY <3>3, NoCallKind
      <4>2. Holding(u) /\ LockOf(call[u]) = "sys"
        BY <3>3, <4>1 DEF CallsInv, Holding, Inside, ReleaseAt, LockOf
      <4>3. s.do = "spi" => Holding(t) /\ LockOf(c) = "sys"
        BY <1>1 DEF SpiSteps, Holding, Inside, ReleaseAt, LockOf
      <4>4. s.do # "spi"
        BY <1>1, <2>2, <4>2, <4>3, OneHolder
      <4>5. QED BY <1>1, <4>4 DEF SpiEffect
    <3>4. QED BY <3>1, <3>2, <3>3 DEF SpiInv
  <2>3. QED BY <2>1, <2>2
<1>6. QED
  BY <1>4, <1>5 DEF SpiInv

LEMMA PutWord ==
  ASSUME NEW mem \in [Memory -> [1 .. Words -> {"old"} \cup Memory]],
         NEW m \in Memory, NEW i \in 1 .. Words, NEW v \in Memory,
         NEW new, new = [mem EXCEPT ![m][i] = v]
  PROVE  /\ new \in [Memory -> [1 .. Words -> {"old"} \cup Memory]]
         /\ \A n \in Memory \ {m} : new[n] = mem[n]
         /\ \A j \in (1 .. Words) \ {i} : new[m][j] = mem[m][j]
         /\ new[m][i] = v
OBVIOUS

\* A word of a plain memory goes to that memory, at its place.
LEMMA WordPlace ==
  ASSUME AddressInv, BankInv, NEW t \in RegThreads,
         NEW c, NEW k, NEW s, Moves(t, c, k, s),
         s.do = "word", BlockOf(c) # "seq"
  PROVE  /\ s.to \in Plain /\ WrittenBy(s.to, c) /\ Selected(s.at) = s.to
         /\ \/ k = First(s.to) /\ address[s.at] = 1
            \/ k = First(s.to) + 1 /\ address[s.at] = 2
<1>1. /\ WordSteps(c, k, s) /\ call[t] = c /\ next[t] = k /\ c \in Calls
  BY DEF Moves, StepSound
<1>2. /\ s.at = BlockOf(c) /\ s.to \in Plain /\ WrittenBy(s.to, c)
      /\ k = First(s.to) \/ k = First(s.to) + 1
  BY <1>1 DEF WordSteps
<1>3. /\ k \in AtOne(c) => address[BlockOf(c)] = 1
      /\ k \in AtTwo(c) => address[BlockOf(c)] = 2
  BY <1>1 DEF AddressInv
<1>4. CASE c.kind = "taps"
  <2>1. s.to = c.reg /\ c.reg \in {"adc", "dac"} /\ First(s.to) = 3
    BY <1>2, <1>4 DEF WrittenBy, First, TapBlocks
  <2>2. BlockOf(c) = c.reg /\ AtOne(c) = {3} /\ AtTwo(c) = {4}
    BY <1>4 DEF BlockOf, AtOne, AtTwo
  <2>3. QED BY <1>2, <1>3, <2>1, <2>2 DEF Selected
<1>5. CASE c.kind = "pll"
  <2>1. s.to = "pll" /\ First(s.to) = 6
    BY <1>2, <1>5 DEF WrittenBy, First, TapBlocks
  <2>2. BlockOf(c) = "pll" /\ AtOne(c) = {6} /\ AtTwo(c) = {7}
    BY <1>5 DEF BlockOf, AtOne, AtTwo
  <2>3. QED BY <1>2, <1>3, <2>1, <2>2 DEF Selected
<1>6. CASE c.kind = "fir"
  <2>1. First(s.to) = 5
    BY <1>2, <1>6 DEF WrittenBy, First, TapBlocks
  <2>2. BlockOf(c) = "fir" /\ AtOne(c) = {5} /\ AtTwo(c) = {6}
    BY <1>6 DEF BlockOf, AtOne, AtTwo
  <2>3. reg["fir_config"]["bank"] = c.n
    BY <1>1, <1>2, <1>6, <2>1 DEF BankInv
  <2>4. s.to = FirBank(c.n)
    BY <1>2, <1>6 DEF WrittenBy, FirBank
  <2>5. Selected("fir") = FirBank(c.n)
    BY <2>3 DEF Selected
  <2>6. QED BY <1>2, <1>3, <2>1, <2>2, <2>4, <2>5
<1>7. CASE c.kind = "det"
  <2>1. BlockOf(c) = "det" /\ AtOne(c) = {4, 8} /\ AtTwo(c) = {5, 9}
    BY <1>7 DEF BlockOf, AtOne, AtTwo
  <2>2. s.to \in {"det0", "det1"}
    BY <1>2, <1>7 DEF WrittenBy, TapBlocks
  <2>3. CASE s.to = "det0"
    <3>1. First(s.to) = 4
      BY <2>3 DEF First, TapBlocks
    <3>2. reg["det_config"]["bank"] = 0
      BY <1>1, <1>2, <1>7, <3>1 DEF BankInv
    <3>3. Selected("det") = "det0"
      BY <3>2 DEF Selected, DetBank
    <3>4. QED BY <1>2, <1>3, <2>1, <2>3, <3>1, <3>3
  <2>4. CASE s.to = "det1"
    <3>1. First(s.to) = 8
      BY <2>4 DEF First, TapBlocks
    <3>2. reg["det_config"]["bank"] = 1
      BY <1>1, <1>2, <1>7, <3>1 DEF BankInv
    <3>3. Selected("det") = "det1"
      BY <3>2 DEF Selected, DetBank
    <3>4. QED BY <1>2, <1>3, <2>1, <2>4, <3>1, <3>3
  <2>5. QED BY <2>2, <2>3, <2>4
<1>8. QED BY <1>2, <1>4, <1>5, <1>6, <1>7 DEF WrittenBy

LEMMA WordsStep ==
  ASSUME CallsInv, ValuesInv, AddressInv, BankInv, WordsInv, NEW t \in RegThreads,
         NEW c, NEW k, NEW s, Moves(t, c, k, s)
  PROVE  WordsInv'
<1>1. /\ WordSteps(c, k, s) /\ MemoryEffect(t, s)
      /\ call[t] = c /\ next[t] = k /\ c \in Calls /\ k \in Nat
  BY CallsSound DEF Moves, StepSound, CallSound
<1>2. Plain \subseteq Memory
  BY DEF Plain, Memory
<1>3. \A m \in Plain : First(m) \in Nat
  BY DEF First
<1>4. ASSUME s.do = "word", BlockOf(c) # "seq"
      PROVE  /\ s.to \in Plain /\ WrittenBy(s.to, c)
             /\ \/ k = First(s.to) /\ memory' = [memory EXCEPT ![s.to][1] = s.to]
                \/ k = First(s.to) + 1 /\ memory' = [memory EXCEPT ![s.to][2] = s.to]
  <2>1. /\ s.to \in Plain /\ WrittenBy(s.to, c) /\ Selected(s.at) = s.to
        /\ \/ k = First(s.to) /\ address[s.at] = 1
           \/ k = First(s.to) + 1 /\ address[s.at] = 2
    BY <1>4, WordPlace
  <2>2. address[s.at] <= Words
    BY <2>1 DEF Words
  <2>3. QED BY <1>1, <1>4, <2>1, <2>2 DEF MemoryEffect
<1>5. ASSUME s.do = "word", BlockOf(c) = "seq"
      PROVE  \/ memory' = memory
             \/ \E m \in Memory \ Plain, i \in 1 .. Words :
                  memory' = [memory EXCEPT ![m][i] = s.to]
  <2>1. s.at = "seq" /\ "seq" \in Block
    BY <1>1, <1>5 DEF WordSteps, Block
  <2>2. reg["seq_config"]["target"] \in 0 .. 2
    <3>1. "seq_config" \in Register /\ "target" \in Fields["seq_config"]
      BY DEF Register, Fields
    <3>2. QED BY <3>1 DEF ValuesInv, ValueOf
  <2>3. Selected("seq") \in {"entries", "window", "super"}
    <3>1. Selected("seq") = SeqMemory(reg["seq_config"]["target"])
      BY DEF Selected
    <3>2. \A n \in 0 .. 2 : SeqMemory(n) \in {"entries", "window", "super"}
      BY DEF SeqMemory
    <3>3. QED BY <2>2, <3>1, <3>2
  <2>4. Selected("seq") \in Memory \ Plain
    BY <2>3 DEF Memory, Plain
  <2>5. address["seq"] \in 1 .. Words + 1
    BY <2>1 DEF AddressInv
  <2>6. CASE address["seq"] <= Words
    <3>1. memory' = [memory EXCEPT ![Selected("seq")][address["seq"]] = s.to]
      BY <1>1, <1>5, <2>1, <2>6 DEF MemoryEffect
    <3>2. address["seq"] \in 1 .. Words
      BY <2>5, <2>6 DEF Words
    <3>3. QED BY <2>4, <3>1, <3>2
  <2>7. CASE ~(address["seq"] <= Words)
    BY <1>1, <1>5, <2>1, <2>7 DEF MemoryEffect
  <2>8. QED BY <2>6, <2>7
<1>6. s.do = "word" => s.to \in Memory
  BY <1>1 DEF WordSteps
<1>7. s.do # "word" => memory' = memory
  BY <1>1 DEF MemoryEffect
<1>8. 1 \in 1 .. Words /\ 2 \in 1 .. Words
  BY DEF Words
<1>0. memory \in [Memory -> [1 .. Words -> {"old"} \cup Memory]]
  BY DEF WordsInv
<1>9. memory' \in [Memory -> [1 .. Words -> {"old"} \cup Memory]]
  <2>1. CASE s.do = "word" /\ BlockOf(c) = "seq" /\ memory' # memory
    <3>1. PICK m \in Memory \ Plain, i \in 1 .. Words :
            memory' = [memory EXCEPT ![m][i] = s.to]
      BY <1>5, <2>1
    <3>2. QED BY <1>0, <1>6, <2>1, <3>1, PutWord
  <2>2. CASE s.do = "word" /\ BlockOf(c) # "seq"
    <3>1. PICK i \in 1 .. Words : memory' = [memory EXCEPT ![s.to][i] = s.to]
      BY <1>4, <1>8, <2>2
    <3>2. QED BY <1>0, <1>6, <2>2, <3>1, PutWord
  <2>3. QED BY <1>0, <1>7, <2>1, <2>2
<1>10. ASSUME NEW m \in Plain, NEW i \in 1 .. Words
       PROVE  memory'[m][i] = memory[m][i] \/ memory'[m][i] = m
  <2>1. CASE s.do = "word" /\ BlockOf(c) = "seq" /\ memory' # memory
    <3>1. PICK n \in Memory \ Plain, j \in 1 .. Words :
            memory' = [memory EXCEPT ![n][j] = s.to]
      BY <1>5, <2>1
    <3>2. memory'[m] = memory[m]
      BY <1>0, <1>2, <1>6, <2>1, <3>1, PutWord
    <3>3. QED BY <3>2
  <2>2. CASE s.do = "word" /\ BlockOf(c) # "seq"
    <3>1. PICK j \in 1 .. Words : memory' = [memory EXCEPT ![s.to][j] = s.to]
      BY <1>4, <1>8, <2>2
    <3>2. /\ \A n \in Memory \ {s.to} : memory'[n] = memory[n]
          /\ \A l \in (1 .. Words) \ {j} : memory'[s.to][l] = memory[s.to][l]
          /\ memory'[s.to][j] = s.to
      BY <1>0, <1>6, <2>2, <3>1, PutWord
    <3>3. QED BY <1>2, <3>2
  <2>3. QED BY <1>7, <2>1, <2>2
<1>11. ASSUME NEW m \in Plain, NEW i \in 1 .. Words
       PROVE  memory'[m][i] \in {"old", m}
  BY <1>10, <1>11 DEF WordsInv
<1>12. ASSUME NEW m \in Plain, NEW u \in RegThreads, call'[u] \in Calls,
              WrittenBy(m, call'[u])
       PROVE  /\ next'[u] > First(m) => memory'[m][1] = m
              /\ next'[u] > First(m) + 1 => memory'[m][2] = m
  <2>1. CASE u # t
    <3>1. call'[u] = call[u] /\ next'[u] = next[u]
      BY <2>1, OthersStay
    <3>2. /\ next[u] > First(m) => memory[m][1] = m
          /\ next[u] > First(m) + 1 => memory[m][2] = m
      BY <1>12, <3>1 DEF WordsInv
    <3>3. QED BY <1>8, <1>10, <3>1, <3>2
  <2>2. CASE u = t
    <3>1. call'[u] = c /\ next'[u] = k + 1
      BY <2>2, OthersStay
    <3>2. /\ k > First(m) => memory[m][1] = m
          /\ k > First(m) + 1 => memory[m][2] = m
      BY <1>1, <1>12, <2>2, <3>1 DEF WordsInv
    <3>3. ASSUME k = First(m) \/ k = First(m) + 1
          PROVE  /\ k = First(m) => memory'[m][1] = m
                 /\ k = First(m) + 1 => memory'[m][2] = m
      <4>1. s.do = "word" /\ s.to = m
        BY <1>1, <1>12, <3>1, <3>3 DEF WordSteps
      <4>2. BlockOf(c) # "seq"
        <5>1. WrittenBy(m, c) /\ m \in Plain
          BY <1>12, <3>1
        <5>2. QED BY <5>1 DEF WrittenBy, BlockOf, TapBlocks
      <4>3. \/ k = First(m) /\ memory' = [memory EXCEPT ![m][1] = m]
            \/ k = First(m) + 1 /\ memory' = [memory EXCEPT ![m][2] = m]
        BY <1>4, <4>1, <4>2
      <4>4. m \in Memory
        BY <1>2
      <4>5. memory' = [memory EXCEPT ![m][1] = m] => memory'[m][1] = m
        BY <1>0, <1>8, <4>4, PutWord
      <4>6. memory' = [memory EXCEPT ![m][2] = m] => memory'[m][2] = m
        BY <1>0, <1>8, <4>4, PutWord
      <4>7. QED BY <1>1, <1>3, <4>3, <4>5, <4>6
    <3>4. QED BY <1>1, <1>3, <1>8, <1>10, <3>1, <3>2, <3>3
  <2>3. QED BY <2>1, <2>2
<1>13. QED
  BY <1>9, <1>11, <1>12 DEF WordsInv

(***************************************************************************)
(* A call begins.  Nothing is said of a thread that is at its first step.  *)
(***************************************************************************)
LEMMA FirstStep ==
  ASSUME NEW c \in Calls
  PROVE  /\ ~Inside(c, 1) /\ 1 \notin Stores(c)
         /\ 1 \notin AtOne(c) /\ 1 \notin AtTwo(c)
         /\ \A r : ~Dirty(c, 1, r)
         /\ \A m \in Plain : First(m) > 1
BY DEF Inside, Stores, AtOne, AtTwo, Dirty, First

LEMMA MakeCallStep ==
  ASSUME RegInv, NEW t \in RegThreads, MakeCall(t)
  PROVE  RegInv'
<1>1. PICK c \in Calls : call' = [call EXCEPT ![t] = c] /\ called' = called \cup {c}
  BY DEF MakeCall
<1>2. /\ call[t] = NoCall
      /\ UNCHANGED <<next, mirror, reg, latch, memory, address, spi, answer, regLock>>
  BY DEF MakeCall
<1>3. /\ CallsInv /\ ValuesInv /\ RegLockInv /\ LatchInv /\ HeldRegsInv /\ AddressInv
      /\ BankInv /\ WordsInv /\ SpiInv
  BY DEF RegInv
<1>4. /\ NoCall \notin Calls /\ NoCall.kind = "none"
  BY CallKinds, NoCallKind
<1>5. next[t] = 1
  BY <1>2, <1>3, <1>4 DEF CallsInv
<1>6. /\ call'[t] = c /\ next'[t] = 1
      /\ \A u \in RegThreads \ {t} : call'[u] = call[u] /\ next'[u] = next[u]
  BY <1>1, <1>2, <1>3, <1>5 DEF CallsInv
<1>7. /\ ~Inside(c, 1) /\ 1 \notin Stores(c) /\ 1 \notin AtOne(c)
      /\ 1 \notin AtTwo(c) /\ \A r : ~Dirty(c, 1, r)
      /\ \A m \in Plain : First(m) > 1
  BY FirstStep
<1>8. CallsInv'
  <2>1. Len(Programs[c]) \in Nat
    BY CallsSound DEF CallSound
  <2>2. \A u \in RegThreads :
          \/ call'[u] = NoCall /\ next'[u] = 1
          \/ call'[u] \in Calls /\ next'[u] \in 1 .. Len(Programs[call'[u]]) + 1
    BY <1>3, <1>6, <2>1 DEF CallsInv
  <2>3. \A d \in called' : \E u \in RegThreads : call'[u] = d
    <3>1. SUFFICES ASSUME NEW d \in called' PROVE \E u \in RegThreads : call'[u] = d
      OBVIOUS
    <3>2. CASE d = c BY <1>6, <3>2
    <3>3. CASE d \in called
      <4>1. PICK u \in RegThreads : call[u] = d
        BY <1>3, <3>3 DEF CallsInv
      <4>2. u # t
        BY <1>2, <1>3, <1>4, <3>3, <4>1 DEF CallsInv
      <4>3. QED BY <1>6, <4>1, <4>2
    <3>4. QED BY <1>1, <3>2, <3>3
  <2>4. QED BY <1>1, <1>2, <1>3, <2>2, <2>3 DEF CallsInv
<1>9. ValuesInv'
  BY <1>2, <1>3 DEF ValuesInv
<1>10. RegLockInv'
  <2>1. \A u \in RegThreads : Holding(u)' <=> Holding(u)
    BY <1>2, <1>4, <1>6, <1>7 DEF Holding
  <2>2. ~Holding(t)
    BY <1>2, <1>4 DEF Holding
  <2>3. \A u \in RegThreads, l \in RegLock :
          regLock'[l] = u <=> Holding(u)' /\ LockOf(call'[u]) = l
    BY <1>2, <1>3, <1>6, <2>1, <2>2 DEF RegLockInv
  <2>4. QED BY <1>2, <1>3, <2>3 DEF RegLockInv
<1>11. \A u \in RegThreads : Latched(u)' => Latched(u) /\ u # t
  BY <1>6, <1>7 DEF Latched
<1>12. LatchInv'
  BY <1>2, <1>3, <1>6, <1>11 DEF LatchInv
<1>13. HeldRegsInv'
  <2>1. \A u \in RegThreads, r \in HeldRegs : DirtyIn(u, r) => DirtyIn(u, r)'
    BY <1>2, <1>4, <1>6 DEF DirtyIn
  <2>2. QED BY <1>2, <1>3, <1>6, <1>11, <2>1 DEF HeldRegsInv
<1>14. AddressInv'
  BY <1>2, <1>3, <1>6, <1>7 DEF AddressInv
<1>15. BankInv'
  <2>1. SUFFICES ASSUME NEW u \in RegThreads, call'[u] \in Calls, u # t
                 PROVE  /\ call'[u].kind = "fir" =>
                             /\ next'[u] \in {3, 4} =>
                                  mirror'["fir_config"]["bank"] = call'[u].n
                             /\ next'[u] \in {5, 6} =>
                                  reg'["fir_config"]["bank"] = call'[u].n
                        /\ call'[u].kind = "det" =>
                             /\ next'[u] \in 3 .. 6 => reg'["det_config"]["bank"] = 0
                             /\ next'[u] \in 7 .. 10 => reg'["det_config"]["bank"] = 1
    BY <1>6 DEF BankInv
  <2>2. QED BY <1>2, <1>3, <1>6, <2>1 DEF BankInv
<1>16. WordsInv'
  <2>1. SUFFICES ASSUME NEW m \in Plain, NEW u \in RegThreads,
                        call'[u] \in Calls, WrittenBy(m, call'[u])
                 PROVE  /\ next'[u] > First(m) => memory'[m][1] = m
                        /\ next'[u] > First(m) + 1 => memory'[m][2] = m
    BY <1>2, <1>3 DEF WordsInv
  <2>2. First(m) \in Nat
    BY DEF First
  <2>3. CASE u = t BY <1>6, <1>7, <2>2, <2>3
  <2>4. CASE u # t BY <1>2, <1>3, <1>6, <2>1, <2>4 DEF WordsInv
  <2>5. QED BY <2>3, <2>4
<1>17. SpiInv'
  <2>1. answer[t] = 0
    BY <1>2, <1>3, <1>4 DEF SpiInv
  <2>2. \A u \in RegThreads :
          /\ call'[u].kind = "spi" /\ next'[u] = 3 => spi' = call'[u].n + 1
          /\ answer'[u] = 0 \/ (call'[u].kind = "spi" /\ answer'[u] = call'[u].n + 1)
    BY <1>2, <1>3, <1>6, <2>1 DEF SpiInv
  <2>3. QED BY <1>2, <1>3, <2>2 DEF SpiInv
<1>18. QED
  BY <1>8, <1>9, <1>10, <1>12, <1>13, <1>14, <1>15, <1>16, <1>17 DEF RegInv

LEMMA RegInvInit == RegInit => RegInv
<1> SUFFICES ASSUME RegInit PROVE RegInv
  OBVIOUS
<1>1. NoCall \notin Calls /\ NoCall.kind = "none"
  BY CallKinds, NoCallKind
<1>2. \A t \in RegThreads : call[t] = NoCall /\ next[t] = 1
  BY DEF RegInit
<1>3. ValuesInv
  <2>1. ASSUME NEW r \in Register
        PROVE  ValueOf(r, [f \in Fields[r] |-> IF f \in WrittenOnce THEN 1 ELSE 0])
    <3>1. "bank" \notin WrittenOnce
      BY DEF WrittenOnce
    <3>2. QED BY <3>1 DEF ValueOf
  <2>2. QED BY <2>1 DEF RegInit, ValuesInv
<1>4. CallsInv
  BY <1>2 DEF RegInit, CallsInv
<1>5. RegLockInv
  BY <1>1, <1>2, RegAssumption DEF RegInit, RegLockInv, Holding
<1>6. LatchInv
  BY <1>1, <1>2 DEF LatchInv, Latched
<1>7. HeldRegsInv
  BY <1>1, <1>2 DEF RegInit, HeldRegsInv, Latched
<1>8. AddressInv
  BY <1>1, <1>2 DEF RegInit, AddressInv, Words
<1>9. BankInv
  BY <1>1, <1>2 DEF BankInv
<1>10. WordsInv
  <2>1. memory \in [Memory -> [1 .. Words -> {"old"} \cup Memory]]
    BY DEF RegInit
  <2>2. \A m \in Plain, i \in 1 .. Words : memory[m][i] \in {"old", m}
    BY DEF RegInit, Plain, Memory
  <2>3. QED BY <1>1, <1>2, <2>1, <2>2 DEF WordsInv
<1>11. SpiInv
  BY <1>1, <1>2 DEF RegInit, SpiInv
<1>12. QED
  BY <1>3, <1>4, <1>5, <1>6, <1>7, <1>8, <1>9, <1>10, <1>11 DEF RegInv

LEMMA RegInvStep == RegInv /\ [RegNext]_regVars => RegInv'
<1> SUFFICES ASSUME RegInv, [RegNext]_regVars PROVE RegInv'
  OBVIOUS
<1>1. CASE UNCHANGED regVars
  BY <1>1 DEF regVars, RegInv, ValuesInv, CallsInv, RegLockInv, LatchInv, HeldRegsInv,
     AddressInv, BankInv, WordsInv, SpiInv, Holding, Latched, DirtyIn
<1>2. ASSUME NEW t \in RegThreads,
             \/ TakeLock(t) \/ GiveLock(t) \/ SetMirror(t) \/ PutReg(t)
             \/ LoadMirror(t) \/ WriteReg(t) \/ Restart(t) \/ WriteWord(t)
             \/ StartSpi(t) \/ ReadSpi(t)
      PROVE  RegInv'
  <2>1. /\ CallsInv /\ ValuesInv /\ RegLockInv /\ LatchInv /\ HeldRegsInv /\ AddressInv
        /\ BankInv /\ WordsInv /\ SpiInv
    BY DEF RegInv
  <2>2. PICK c, k, s : Moves(t, c, k, s)
    BY <1>2, <2>1, StepMoves
  <2>3. QED
    BY <2>1, <2>2, CallsStep, ValuesStep, LockStep, LatchStep, HeldStep,
       AddressStep, BankStep, WordsStep, SpiStep DEF RegInv
<1>3. QED
  BY <1>1, <1>2, MakeCallStep DEF RegNext

LEMMA RegInvHolds == RegSpec => []RegInv
<1>1. QED BY RegInvInit, RegInvStep, PTL DEF RegSpec

LEMMA RegInvTypes == RegInv => RegTypeOK
<1> SUFFICES ASSUME RegInv PROVE RegTypeOK
  OBVIOUS
<1>1. \A r \in Register :
        mirror[r] \in [Fields[r] -> 0 .. 2] /\ reg[r] \in [Fields[r] -> 0 .. 2]
  BY DEF RegInv, ValuesInv, ValueOf
<1>2. QED
  BY <1>1 DEF RegInv, RegTypeOK, ValuesInv, AddressInv, WordsInv, RegLockInv,
     SpiInv, CallsInv

LEMMA DirtyHolds ==
  ASSUME NEW c \in Calls, NEW k \in Nat, NEW r, Dirty(c, k, r)
  PROVE  Inside(c, k) /\ LockOf(c) = Holder(r)
<1>1. Inside(c, k)
  BY DEF Dirty, StoreAt, Inside, ReleaseAt
<1>2. LockOf(c) = Holder(r)
  BY CallKinds DEF Dirty, LockOf, Holder, RegOf, CallArguments, CtrlRegs
<1>3. QED BY <1>1, <1>2

LEMMA HeldTruthful == RegInv => HeldRegistersTruthful
<1> SUFFICES ASSUME RegInv PROVE HeldRegistersTruthful
  OBVIOUS
<1>1. ASSUME NEW r \in HeldRegs, Unlocked(Holder(r))
      PROVE  reg[r] = mirror[r]
  <2>1. ASSUME NEW t \in RegThreads, DirtyIn(t, r) PROVE FALSE
    <3>0. next[t] \in Nat
      BY CallsSound DEF RegInv, CallsInv, CallSound
    <3>1. Holding(t) /\ LockOf(call[t]) = Holder(r)
      BY <2>1, <3>0, DirtyHolds DEF DirtyIn, Holding
    <3>2. Holder(r) \in RegLock
      BY DEF Holder, RegLock
    <3>3. regLock[Holder(r)] = t
      BY <3>1, <3>2 DEF RegInv, RegLockInv
    <3>4. QED BY <1>1, <3>3, RegAssumption DEF Unlocked
  <2>2. QED BY <2>1 DEF RegInv, HeldRegsInv
<1>2. ASSUME NEW at \in CtrlFields
      PROVE  at[1] \in HeldRegs /\ Holder(at[1]) = "ctrl"
  BY DEF CtrlFields, ControlFields, TurnFields, TriggerFields, CtrlRegs, HeldRegs,
     Holder
<1>3. \A r \in {"fixed_nco_nco1", "fir_config"} : r \in HeldRegs /\ Holder(r) = "dsp"
  BY DEF CtrlRegs, HeldRegs, Holder
<1>4. QED
  BY <1>1, <1>2, <1>3 DEF HeldRegistersTruthful

LEMMA WrittenWhole ==
  ASSUME RegInv, NEW c, Done(c), NEW m \in Plain, WrittenBy(m, c)
  PROVE  Holds(m)
<1>1. c \in Calls
  BY DEF RegInv, CallsInv, Done
<1>2. PICK t \in RegThreads : call[t] = c
  BY DEF RegInv, CallsInv, Done
<1>3. next[t] > Len(Programs[c])
  BY <1>2 DEF Done, Finished
<1>4. ReleaseAt(c) <= Len(Programs[c]) /\ Len(Programs[c]) \in Nat
      /\ ReleaseAt(c) \in Nat /\ next[t] \in Nat
  BY <1>1, <1>2, CallsSound, CallKinds DEF CallSound, RegInv, CallsInv
<1>5. First(m) \in Nat /\ First(m) + 1 <= ReleaseAt(c)
  BY DEF WrittenBy, First, ReleaseAt, TapBlocks
<1>6. memory[m][1] = m /\ memory[m][2] = m
  BY <1>1, <1>2, <1>3, <1>4, <1>5 DEF RegInv, WordsInv
<1>7. QED BY <1>6 DEF Holds, Words

LEMMA Whole == RegInv => MemoriesWhole
<1> SUFFICES ASSUME RegInv PROVE MemoriesWhole
  OBVIOUS
<1>1. \A b \in TapBlocks : Done(Call("taps", b, "", 0)) => Holds(b)
  <2>1. SUFFICES ASSUME NEW b \in TapBlocks, Done(Call("taps", b, "", 0))
                 PROVE  Holds(b)
    OBVIOUS
  <2>2. b \in Plain /\ WrittenBy(b, Call("taps", b, "", 0))
    BY DEF TapBlocks, Plain, WrittenBy, Call
  <2>3. QED BY <2>1, <2>2, WrittenWhole
<1>2. \A n \in {0, 1} : Done(Call("fir", "", "", n)) => Holds(FirBank(n))
  <2>1. SUFFICES ASSUME NEW n \in {0, 1}, Done(Call("fir", "", "", n))
                 PROVE  Holds(FirBank(n))
    OBVIOUS
  <2>2. FirBank(n) \in Plain /\ WrittenBy(FirBank(n), Call("fir", "", "", n))
    BY DEF Plain, WrittenBy, Call, FirBank
  <2>3. QED BY <2>1, <2>2, WrittenWhole
<1>3. Done(Call("det", "", "", 0)) => Holds("det0") /\ Holds("det1")
  <2>1. \A m \in {"det0", "det1"} : m \in Plain /\ WrittenBy(m, Call("det", "", "", 0))
    BY DEF Plain, WrittenBy, Call
  <2>2. QED BY <2>1, WrittenWhole
<1>4. Done(Call("pll", "", "", 0)) => Holds("pll")
  <2>1. "pll" \in Plain /\ WrittenBy("pll", Call("pll", "", "", 0))
    BY DEF Plain, WrittenBy, Call
  <2>2. QED BY <2>1, WrittenWhole
<1>5. \A m \in Memory \ {"entries", "window", "super"} :
        \A i \in 1 .. Words : memory[m][i] \in {"old", m}
  <2>1. \A m \in Memory \ {"entries", "window", "super"} : m \in Plain
    BY DEF Memory, Plain
  <2>2. QED BY <2>1 DEF RegInv, WordsInv
<1>6. QED
  BY <1>1, <1>2, <1>3, <1>4, <1>5 DEF MemoriesWhole

\* The registers, their mirrors, memories, addresses and locks keep their
\* types: an address never runs past the end of its memory by more than one
\* word, and a bank is always one that the block has (hardware.c).
THEOREM RegTypeCorrect == RegSpec => []RegTypeOK
<1>1. QED BY RegInvHolds, RegInvTypes, PTL

\* For any number of threads: a register that is written with its lock held
\* has every field as the last call wrote it whenever the lock is free, taps
\* and bunch enables reach their memory whole, and the SPI answers for the
\* register asked for (ctrl_lock, dsp_locks, sys_lock).
THEOREM RegistersHold == RegSpec => []RegistersCorrect
<1>1. RegInv => RegistersCorrect
  <2>1. RegInv => SpiAnswers
    BY DEF RegInv, SpiInv, SpiAnswers
  <2>2. QED BY <2>1, HeldTruthful, Whole DEF RegistersCorrect
<1>2. QED BY <1>1, RegInvHolds, PTL

(***************************************************************************)
(* Sums.  What a recursive function is on 0 .. n follows from the least    *)
(* number at which it would not be so.                                     *)
(***************************************************************************)
LEMMA NatMin ==
  ASSUME NEW S \in SUBSET Nat, S # {}
  PROVE  \E x \in S : \A y \in S : x <= y
BY LeastIs

\* The partial sums of x from a on, up to the n-th.
PartialSums(s, x, a, n) ==
  s = [k \in 0 .. n |-> IF k < a THEN 0 ELSE s[k - 1] + x[k]]

LEMMA SumsExist ==
  ASSUME NEW x, NEW a \in Nat \ {0}, NEW n \in Nat
  PROVE  \E s : PartialSums(s, x, a, n)
<1> DEFINE Bad == {m \in Nat : ~ \E s : PartialSums(s, x, a, m)}
<1> SUFFICES ASSUME Bad # {} PROVE FALSE
  OBVIOUS
<1>1. PICK m \in Bad : \A l \in Bad : m <= l
  BY NatMin
<1>2. m \in Nat /\ ~ \E s : PartialSums(s, x, a, m)
  BY <1>1
<1>3. CASE m = 0
  <2> DEFINE s == [k \in 0 .. 0 |-> 0]
  <2>1. s = [k \in 0 .. 0 |-> IF k < a THEN 0 ELSE s[k - 1] + x[k]]
    OBVIOUS
  <2>2. PartialSums(s, x, a, 0)
    BY <2>1 DEF PartialSums
  <2>3. QED BY <1>2, <1>3, <2>2
<1>4. CASE m # 0
  <2>1. m - 1 \in Nat /\ m - 1 \notin Bad
    BY <1>1, <1>2, <1>4
  <2>2. PICK s : PartialSums(s, x, a, m - 1)
    BY <2>1
  <2> DEFINE t == [k \in 0 .. m |-> IF k < a THEN 0
                     ELSE IF k = m THEN s[m - 1] + x[m] ELSE s[k - 1] + x[k]]
  <2>3. \A k \in 0 .. m - 1 : t[k] = s[k]
    BY <1>2, <2>2 DEF PartialSums
  <2>4. t = [k \in 0 .. m |-> IF k < a THEN 0 ELSE t[k - 1] + x[k]]
    <3>1. ASSUME NEW k \in 0 .. m, ~(k < a)
          PROVE  t[k - 1] = s[k - 1]
      <4>1. k - 1 \in 0 .. m - 1
        BY <1>2, <3>1
      <4> HIDE DEF t
      <4>2. QED BY <2>3, <4>1
    <3>2. \A k \in 0 .. m :
            t[k] = IF k < a THEN 0 ELSE s[k - 1] + x[k]
      OBVIOUS
    <3>3. \A k \in 0 .. m :
            t[k] = IF k < a THEN 0 ELSE t[k - 1] + x[k]
      BY <3>1, <3>2
    <3>4. t = [k \in 0 .. m |-> t[k]]
      OBVIOUS
    <3> HIDE DEF t
    <3>5. QED BY <3>3, <3>4
  <2>5. PartialSums(t, x, a, m)
    BY <2>4 DEF PartialSums
  <2>6. QED BY <1>2, <2>5
<1>5. QED BY <1>3, <1>4

LEMMA SumsAgree ==
  ASSUME NEW s, NEW t, NEW x, NEW a \in Nat \ {0}, NEW m \in Nat,
         NEW n \in Nat, m <= n,
         PartialSums(s, x, a, m), PartialSums(t, x, a, n)
  PROVE  \A k \in 0 .. m : s[k] = t[k]
<1> DEFINE Bad == {k \in 0 .. m : s[k] # t[k]}
<1> SUFFICES ASSUME Bad # {} PROVE FALSE
  OBVIOUS
<1>1. Bad \in SUBSET Nat
  OBVIOUS
<1>2. PICK k \in Bad : \A l \in Bad : k <= l
  BY <1>1, NatMin
<1>3. /\ s[k] = IF k < a THEN 0 ELSE s[k - 1] + x[k]
      /\ t[k] = IF k < a THEN 0 ELSE t[k - 1] + x[k]
  BY <1>2 DEF PartialSums
<1>4. ~(k < a) => s[k - 1] = t[k - 1]
  BY <1>2
<1>5. QED BY <1>2, <1>3, <1>4

LEMMA SumOverIs ==
  ASSUME NEW x, NEW a \in Nat \ {0}, NEW n \in Nat
  PROVE  \E s : PartialSums(s, x, a, n) /\ SumOver(x, a, n) = s[n]
<1>1. SumOver(x, a, n) = (CHOOSE s : PartialSums(s, x, a, n))[n]
  BY DEF SumOver, PartialSums
<1>2. PartialSums(CHOOSE s : PartialSums(s, x, a, n), x, a, n)
  BY SumsExist
<1>3. QED BY <1>1, <1>2

LEMMA SumOfNone ==
  ASSUME NEW x, NEW a \in Nat \ {0}, NEW n \in Nat, n < a
  PROVE  SumOver(x, a, n) = 0
<1>1. PICK s : PartialSums(s, x, a, n) /\ SumOver(x, a, n) = s[n]
  BY SumOverIs
<1>2. QED BY <1>1 DEF PartialSums

LEMMA SumOfMore ==
  ASSUME NEW x, NEW a \in Nat \ {0}, NEW n \in Nat, a <= n
  PROVE  SumOver(x, a, n) = SumOver(x, a, n - 1) + x[n]
<1>1. PICK s : PartialSums(s, x, a, n) /\ SumOver(x, a, n) = s[n]
  BY SumOverIs
<1>2. n - 1 \in Nat
  OBVIOUS
<1>3. PICK t : PartialSums(t, x, a, n - 1) /\ SumOver(x, a, n - 1) = t[n - 1]
  BY <1>2, SumOverIs
<1>4. t[n - 1] = s[n - 1]
  BY <1>1, <1>2, <1>3, SumsAgree
<1>5. s[n] = s[n - 1] + x[n]
  BY <1>1 DEF PartialSums
<1>6. QED BY <1>1, <1>3, <1>4, <1>5

LEMMA SumIsInt ==
  ASSUME NEW x, NEW a \in Nat \ {0}, NEW n \in Nat,
         \A k \in a .. n : x[k] \in Int
  PROVE  SumOver(x, a, n) \in Int
<1> DEFINE Bad == {m \in 0 .. n : SumOver(x, a, m) \notin Int}
<1> SUFFICES ASSUME Bad # {} PROVE FALSE
  OBVIOUS
<1>1. Bad \in SUBSET Nat
  OBVIOUS
<1>2. PICK m \in Bad : \A l \in Bad : m <= l
  BY <1>1, NatMin
<1>3. CASE m < a
  <2>1. SumOver(x, a, m) = 0
    BY <1>3, SumOfNone
  <2>2. QED BY <1>2, <2>1
<1>4. CASE ~(m < a)
  <2>1. SumOver(x, a, m) = SumOver(x, a, m - 1) + x[m]
    BY <1>4, SumOfMore
  <2>2. m - 1 \in 0 .. n /\ m - 1 \notin Bad /\ x[m] \in Int
    BY <1>2, <1>4
  <2>3. QED BY <1>2, <2>1, <2>2
<1>5. QED BY <1>3, <1>4

LEMMA SumJoin ==
  ASSUME NEW x, NEW a \in Nat \ {0}, NEW m \in Nat, NEW n \in Nat,
         a <= m + 1, m <= n, \A k \in a .. n : x[k] \in Int
  PROVE  SumOver(x, a, n) = SumOver(x, a, m) + SumOver(x, m + 1, n)
<1> DEFINE F(l) == SumOver(x, a, l) = SumOver(x, a, m) + SumOver(x, m + 1, l)
           Bad == {l \in m .. n : ~F(l)}
<1> SUFFICES ASSUME Bad # {} PROVE FALSE
  OBVIOUS
<1>1. Bad \in SUBSET Nat
  OBVIOUS
<1>2. PICK l \in Bad : \A i \in Bad : l <= i
  BY <1>1, NatMin
<1>3. CASE l = m
  <2>1. SumOver(x, m + 1, m) = 0
    BY SumOfNone
  <2>2. \A k \in a .. m : x[k] \in Int
    OBVIOUS
  <2>3. SumOver(x, a, m) \in Int
    BY <2>2, SumIsInt
  <2>4. QED BY <1>2, <1>3, <2>1, <2>3
<1>4. CASE l # m
  <2>1. l - 1 \in m .. n /\ l - 1 \notin Bad /\ l \in a .. n
    BY <1>2, <1>4
  <2>2. F(l - 1)
    BY <2>1
  <2>3. SumOver(x, a, l) = SumOver(x, a, l - 1) + x[l]
    BY <2>1, SumOfMore
  <2>4. SumOver(x, m + 1, l) = SumOver(x, m + 1, l - 1) + x[l]
    BY <1>2, <1>4, SumOfMore
  <2>5. /\ SumOver(x, a, m) \in Int /\ x[l] \in Int
        /\ SumOver(x, m + 1, l - 1) \in Int
    BY <2>1, SumIsInt
  <2>6. QED BY <1>2, <2>2, <2>3, <2>4, <2>5
<1>5. QED BY <1>3, <1>4

LEMMA SumOfSame ==
  ASSUME NEW x, NEW y, NEW a \in Nat \ {0}, NEW n \in Nat,
         \A k \in a .. n : x[k] = y[k]
  PROVE  SumOver(x, a, n) = SumOver(y, a, n)
<1> DEFINE Bad == {m \in 0 .. n : SumOver(x, a, m) # SumOver(y, a, m)}
<1> SUFFICES ASSUME Bad # {} PROVE FALSE
  OBVIOUS
<1>1. Bad \in SUBSET Nat
  OBVIOUS
<1>2. PICK m \in Bad : \A l \in Bad : m <= l
  BY <1>1, NatMin
<1>3. CASE m < a
  <2>1. SumOver(x, a, m) = 0 /\ SumOver(y, a, m) = 0
    BY <1>3, SumOfNone
  <2>2. QED BY <1>2, <2>1
<1>4. CASE ~(m < a)
  <2>1. SumOver(x, a, m) = SumOver(x, a, m - 1) + x[m]
    BY <1>4, SumOfMore
  <2>2. SumOver(y, a, m) = SumOver(y, a, m - 1) + y[m]
    BY <1>4, SumOfMore
  <2>3. m - 1 \in 0 .. n /\ m - 1 \notin Bad /\ x[m] = y[m]
    BY <1>2, <1>4
  <2>4. QED BY <1>2, <2>1, <2>2, <2>3
<1>5. QED BY <1>3, <1>4

(***************************************************************************)
(* MinMaxSum.  What a row holds of turns a to n of a bunch.  A minimum is  *)
(* below them all, and one of them or what it was reset to.                *)
(***************************************************************************)
MinOver(v, a, n, j) ==
  /\ \A k \in a .. n : v <= Sample(k, j)
  /\ v = High \/ \E k \in a .. n : v = Sample(k, j)
MaxOver(v, a, n, j) ==
  /\ \A k \in a .. n : Sample(k, j) <= v
  /\ v = Low \/ \E k \in a .. n : v = Sample(k, j)
RowIs(row, a, n, j) ==
  /\ MinOver(row.min, a, n, j) /\ MaxOver(row.max, a, n, j)
  /\ row.sum = SumOver(Samples(j), a, n)
  /\ row.sum2 = SumOver(Squares(j), a, n)

\* The same of what SCAN has published: the standard deviations of a bunch.
StdMinOver(v, s, j) ==
  IF s = <<>> THEN v = NoStd
  ELSE /\ \A k \in DOMAIN s : v <= Std(s[k][j])
       /\ \E k \in DOMAIN s : v = Std(s[k][j])
StdMaxOver(v, s, j) ==
  /\ \A k \in DOMAIN s : Std(s[k][j]) <= v
  /\ v \in {NoStd, 0} \/ \E k \in DOMAIN s : v = Std(s[k][j])

MmsRow == [min : Int, max : Int, sum : Int, sum2 : Int]
MmsRows == [MmsBunch -> MmsRow]
OfBunches == [MmsBunch -> Int]

MmsBy == {"none", "init", "poll", "scan", "archive"}
MmsPhase == {"none", "ask", "wait", "rows", "archive"}

MmsData ==
  /\ hw \in [bank : MmsBank, rows : [MmsBank -> MmsRows], frames : Nat,
             ovfl : BOOLEAN, request : BOOLEAN, turns : Nat,
             countOvfl : BOOLEAN, addr : MmsBunch, stale : SUBSET MmsBank,
             switched : Nat]
  /\ mms \in [by : MmsBy, phase : MmsPhase, turns : Nat, ovfl : BOOLEAN,
              rows : Seq(MmsRow)]
  /\ history \in Seq(TapSource)
  /\ accum \in [turns : Int, row : MmsRows]
  /\ window \in [first : Nat \ {0}, last : Nat, doubt : BOOLEAN,
                 stale : BOOLEAN]
  /\ variance \in [count : Nat, sum : OfBunches, min : OfBunches,
                   max : OfBunches]
  /\ scans \in Seq(OfBunches)

\* A switch has been served, and its count or rows are being read.
Served == mms.phase = "rows" \/ (mms.phase = "wait" /\ ~hw.request)

\* The turns counted are those since the last switch, and those in accum end
\* where the banks were switched before.
CountInv ==
  /\ Len(history) <= MaxTurns /\ hw.switched + hw.frames = Len(history)
  /\ ~hw.ovfl => hw.frames < TurnWrap
  /\ window.last <= hw.switched
  /\ ~window.doubt =>
       /\ window.first <= window.last + 1
       /\ IF Served
          THEN /\ window.last < hw.switched
               /\ ~hw.countOvfl => hw.turns + 1 = hw.switched - window.last
          ELSE window.last = hw.switched
       /\ mms.phase \in {"none", "ask", "archive"} => ~hw.request

\* Whose call it is; the rows read so far, in the order of the addresses.
RowInv ==
  /\ mms.phase \in {"ask", "wait", "rows"} => mms.by \in {"init", "poll", "scan"}
  /\ mms.phase = "archive" => mms.by = "archive"
  /\ mms.phase = "wait" /\ ~hw.request => hw.addr = 0
  /\ mms.phase # "rows" => mms.rows = <<>>
  /\ mms.phase = "rows" =>
       /\ ~hw.request
       /\ Len(mms.rows) <= MmsBunches
       /\ hw.addr = Len(mms.rows) % MmsBunches
       /\ mms.turns = hw.turns + 1 /\ mms.ovfl = hw.countOvfl

\* Every one of some turns was of a source.
AllOf(a, n, s) == \A k \in a .. n : history[k] = s

\* The bank that is written has the turns since the switch.
WrittenInv ==
  hw.bank \notin hw.stale =>
    \A s \in TapSource : AllOf(hw.switched + 1, Len(history), s) =>
      \A i \in MmsBunch :
        RowIs(hw.rows[hw.bank][i], hw.switched + 1, Len(history),
              BunchAt(i, s))

\* What has been or will be read of the other one has the turns before.
RowToRead(i) ==
  IF i < Len(mms.rows) THEN mms.rows[i + 1] ELSE hw.rows[1 - hw.bank][i]
ReadoutInv ==
  Served /\ ~window.doubt /\ 1 - hw.bank \notin hw.stale =>
    \A s \in TapSource : AllOf(window.last + 1, hw.switched, s) =>
      \A i \in MmsBunch :
        RowIs(RowToRead(i), window.last + 1, hw.switched, BunchAt(i, s))

AccumInv ==
  ~window.doubt /\ ~window.stale =>
    /\ accum.turns = window.last - window.first + 1
    /\ \A j \in MmsBunch :
         RowIs(accum.row[j], window.first, window.last, j)

\* The variances are those of what SCAN has published, of a given archive.
VarianceIs(v, s, order) ==
  /\ v.count = Len(s)
  /\ \A j \in MmsBunch :
       /\ v.sum[j] = SumOver([k \in DOMAIN s |-> s[k][j]], 1, Len(s))
       /\ StdMaxOver(v.max[j], s, j)
       /\ order # "none" => StdMinOver(v.min[j], s, j)
VarianceInv == VarianceIs(variance, scans, archived.order)

MmsInv ==
  /\ MmsTypeOK /\ MmsData
  /\ CountInv /\ RowInv /\ WrittenInv /\ ReadoutInv /\ AccumInv /\ VarianceInv
  /\ PublishedExact /\ ArchiveExact

LEMMA MinimumIs ==
  ASSUME NEW S \in SUBSET Int, NEW v \in S, \A x \in S : v <= x
  PROVE  Min(S) = v
<1>1. \E y \in S : \A x \in S : y <= x
  OBVIOUS
<1>2. PICK m \in S : m = Min(S) /\ \A x \in S : m <= x
  BY <1>1 DEF Min
<1>3. m = v
  BY <1>2
<1>4. QED BY <1>2, <1>3

LEMMA MaximumIs ==
  ASSUME NEW S \in SUBSET Int, NEW v \in S, \A x \in S : x <= v
  PROVE  Max(S) = v
<1>1. \E y \in S : \A x \in S : y >= x
  OBVIOUS
<1>2. PICK m \in S : m = Max(S) /\ \A x \in S : m >= x
  BY <1>1 DEF Max
<1>3. m = v
  BY <1>2
<1>4. QED BY <1>2, <1>3

LEMMA SampleIs ==
  ASSUME NEW j \in MmsBunch
  PROVE  \A k \in 1 .. MaxTurns :
           /\ Sample(k, j) \in Int /\ Low <= Sample(k, j) /\ Sample(k, j) <= High
           /\ Samples(j)[k] = Sample(k, j) /\ Samples(j)[k] \in Int
           /\ Squares(j)[k] = Sample(k, j) * Sample(k, j)
           /\ Squares(j)[k] \in Int
<1> SUFFICES ASSUME NEW k \in 1 .. MaxTurns
    PROVE /\ Sample(k, j) \in Int /\ Low <= Sample(k, j) /\ Sample(k, j) <= High
          /\ Samples(j)[k] = Sample(k, j) /\ Samples(j)[k] \in Int
          /\ Squares(j)[k] = Sample(k, j) * Sample(k, j)
          /\ Squares(j)[k] \in Int
  OBVIOUS
<1>1. Sample(k, j) \in Low .. High
  BY MmsAssumption
<1>2. Sample(k, j) \in Int /\ Low <= Sample(k, j) /\ Sample(k, j) <= High
  <2>1. Low \in Int /\ High \in Int
    BY DEF Low, High
  <2>2. QED BY <1>1, <2>1
<1>3. Sample(k, j) * Sample(k, j) \in Int
  BY <1>2
<1>4. QED BY <1>2, <1>3 DEF Samples, Squares

LEMMA EmptyRow ==
  ASSUME NEW j \in MmsBunch, NEW a \in Nat \ {0}, NEW n \in Nat, n < a
  PROVE  ResetRow \in MmsRow /\ RowIs(ResetRow, a, n, j)
<1>1. SumOver(Samples(j), a, n) = 0 /\ SumOver(Squares(j), a, n) = 0
  BY SumOfNone
<1>2. \A k \in a .. n : FALSE
  OBVIOUS
<1>3. MinOver(High, a, n, j) /\ MaxOver(Low, a, n, j)
  BY <1>2 DEF MinOver, MaxOver
<1>4. QED BY <1>1, <1>3 DEF RowIs, ResetRow, MmsRow, High, Low

LEMMA RowIsOne ==
  ASSUME NEW j \in MmsBunch, NEW k \in 1 .. MaxTurns
  PROVE  /\ MinOver(Sample(k, j), k, k, j) /\ MaxOver(Sample(k, j), k, k, j)
         /\ SumOver(Samples(j), k, k) = Sample(k, j)
         /\ SumOver(Squares(j), k, k) = Sample(k, j) * Sample(k, j)
<1>1. Sample(k, j) \in Int
  BY SampleIs
<1>2. MinOver(Sample(k, j), k, k, j) /\ MaxOver(Sample(k, j), k, k, j)
  BY <1>1 DEF MinOver, MaxOver
<1>3. /\ SumOver(Samples(j), k, k - 1) = 0
      /\ SumOver(Squares(j), k, k - 1) = 0
  BY SumOfNone
<1>4. /\ SumOver(Samples(j), k, k) = 0 + Samples(j)[k]
      /\ SumOver(Squares(j), k, k) = 0 + Squares(j)[k]
  BY <1>3, SumOfMore
<1>5. QED BY <1>2, <1>4, SampleIs

LEMMA MinOfBoth ==
  ASSUME NEW j \in MmsBunch, NEW a \in Nat \ {0}, NEW m \in Nat, NEW n \in Nat,
         a <= m + 1, m <= n, n <= MaxTurns, NEW u \in Int, NEW v \in Int,
         MinOver(u, a, m, j), MinOver(v, m + 1, n, j)
  PROVE  MinOver(Lower(u, v), a, n, j)
<1>1. \A k \in a .. n : k \in a .. m \/ k \in m + 1 .. n
  OBVIOUS
<1>2. \A k \in a .. n : Sample(k, j) \in Int
  BY SampleIs, MmsAssumption
<1>3. \A k \in a .. n : u <= Sample(k, j) \/ v <= Sample(k, j)
  BY <1>1 DEF MinOver
<1>4. \A k \in a .. n : Lower(u, v) <= Sample(k, j)
  BY <1>2, <1>3 DEF Lower
<1>5. /\ u = High \/ \E k \in a .. n : u = Sample(k, j)
      /\ v = High \/ \E k \in a .. n : v = Sample(k, j)
  <2>1. \A k \in a .. m : k \in a .. n
    OBVIOUS
  <2>2. \A k \in m + 1 .. n : k \in a .. n
    OBVIOUS
  <2>3. QED BY <2>1, <2>2 DEF MinOver
<1>6. Lower(u, v) = u \/ Lower(u, v) = v
  BY DEF Lower
<1>7. QED BY <1>4, <1>5, <1>6 DEF MinOver

LEMMA MaxOfBoth ==
  ASSUME NEW j \in MmsBunch, NEW a \in Nat \ {0}, NEW m \in Nat, NEW n \in Nat,
         a <= m + 1, m <= n, n <= MaxTurns, NEW u \in Int, NEW v \in Int,
         MaxOver(u, a, m, j), MaxOver(v, m + 1, n, j)
  PROVE  MaxOver(Higher(u, v), a, n, j)
<1>1. \A k \in a .. n : k \in a .. m \/ k \in m + 1 .. n
  OBVIOUS
<1>2. \A k \in a .. n : Sample(k, j) \in Int
  BY SampleIs, MmsAssumption
<1>3. \A k \in a .. n : Sample(k, j) <= u \/ Sample(k, j) <= v
  BY <1>1 DEF MaxOver
<1>4. \A k \in a .. n : Sample(k, j) <= Higher(u, v)
  BY <1>2, <1>3 DEF Higher
<1>5. /\ u = Low \/ \E k \in a .. n : u = Sample(k, j)
      /\ v = Low \/ \E k \in a .. n : v = Sample(k, j)
  <2>1. \A k \in a .. m : k \in a .. n
    OBVIOUS
  <2>2. \A k \in m + 1 .. n : k \in a .. n
    OBVIOUS
  <2>3. QED BY <2>1, <2>2 DEF MaxOver
<1>6. Higher(u, v) = u \/ Higher(u, v) = v
  BY DEF Higher
<1>7. QED BY <1>4, <1>5, <1>6 DEF MaxOver

\* A row for more turns.
Joined(p, q) ==
  [min |-> Lower(p.min, q.min), max |-> Higher(p.max, q.max),
   sum |-> p.sum + q.sum, sum2 |-> p.sum2 + q.sum2]

LEMMA JoinedRow ==
  ASSUME NEW j \in MmsBunch, NEW a \in Nat \ {0}, NEW m \in Nat, NEW n \in Nat,
         a <= m + 1, m <= n, n <= MaxTurns,
         NEW p \in MmsRow, NEW q \in MmsRow,
         RowIs(p, a, m, j), RowIs(q, m + 1, n, j)
  PROVE  RowIs(Joined(p, q), a, n, j)
<1>1. p.min \in Int /\ q.min \in Int /\ p.max \in Int /\ q.max \in Int
  BY DEF MmsRow
<1>2. MinOver(Lower(p.min, q.min), a, n, j)
  BY <1>1, MinOfBoth DEF RowIs
<1>3. MaxOver(Higher(p.max, q.max), a, n, j)
  BY <1>1, MaxOfBoth DEF RowIs
<1>4. \A k \in a .. n : Samples(j)[k] \in Int /\ Squares(j)[k] \in Int
  BY SampleIs, MmsAssumption
<1>5. SumOver(Samples(j), a, n) = p.sum + q.sum
  BY <1>4, SumJoin DEF RowIs
<1>6. SumOver(Squares(j), a, n) = p.sum2 + q.sum2
  BY <1>4, SumJoin DEF RowIs
<1>7. QED BY <1>2, <1>3, <1>5, <1>6 DEF RowIs, Joined

LEMMA JoinedType ==
  ASSUME NEW p \in MmsRow, NEW q \in MmsRow
  PROVE  Joined(p, q) \in MmsRow
BY DEF Joined, MmsRow, Lower, Higher

LEMMA UpdatedRow ==
  ASSUME NEW j \in MmsBunch, NEW a \in Nat \ {0}, NEW n \in Nat,
         a <= n + 1, n + 1 <= MaxTurns, NEW p \in MmsRow, RowIs(p, a, n, j)
  PROVE  RowIs(Updated(p, Sample(n + 1, j)), a, n + 1, j)
<1> DEFINE x == Sample(n + 1, j)
           q == [min |-> x, max |-> x, sum |-> x, sum2 |-> x * x]
<1>1. n + 1 \in 1 .. MaxTurns
  BY MmsAssumption
<1>2. x \in Int /\ x * x \in Int
  BY <1>1, SampleIs
<1>3. RowIs(q, n + 1, n + 1, j)
  BY <1>1, RowIsOne DEF RowIs
<1>4. q \in MmsRow
  BY <1>2 DEF MmsRow
<1>5. RowIs(Joined(p, q), a, n + 1, j)
  BY <1>3, <1>4, JoinedRow
<1>6. Joined(p, q) = Updated(p, x)
  <2>1. Lower(p.min, x) = IF p.min < x THEN p.min ELSE x
    BY DEF Lower
  <2>2. QED BY DEF Joined, Updated
<1>7. QED BY <1>5, <1>6

LEMMA UpdatedType ==
  ASSUME NEW j \in MmsBunch, NEW k \in 1 .. MaxTurns, NEW p \in MmsRow
  PROVE  Updated(p, Sample(k, j)) \in MmsRow
<1>1. Sample(k, j) \in Int /\ Sample(k, j) * Sample(k, j) \in Int
  BY SampleIs
<1>2. QED BY <1>1 DEF Updated, MmsRow, Lower, Higher

LEMMA RowIsExact ==
  ASSUME NEW j \in MmsBunch, NEW w, w.first \in Nat \ {0}, w.last \in Nat,
         w.first <= w.last, w.last <= MaxTurns, NEW row \in MmsRow,
         RowIs(row, w.first, w.last, j)
  PROVE  row = RowOf(w, j)
<1> DEFINE S == {Sample(k, j) : k \in Turns(w)}
<1>1. \A k \in Turns(w) : k \in 1 .. MaxTurns
  BY MmsAssumption DEF Turns
<1>2. S \in SUBSET Int /\ \A x \in S : Low <= x /\ x <= High
  BY <1>1, SampleIs
<1>3. w.first \in Turns(w) /\ Sample(w.first, j) \in S
  BY DEF Turns
<1>4. row.min \in Int /\ row.max \in Int
  BY DEF MmsRow
<1>5. \A x \in S : row.min <= x /\ x <= row.max
  BY DEF RowIs, MinOver, MaxOver, Turns
<1>6. row.min = High \/ row.min \in S
  BY DEF RowIs, MinOver, Turns
<1>7. row.max = Low \/ row.max \in S
  BY DEF RowIs, MaxOver, Turns
<1>8. row.min \in S /\ row.max \in S
  BY <1>2, <1>3, <1>5, <1>6, <1>7 DEF High, Low
<1>9. Min(S) = row.min /\ Max(S) = row.max
  BY <1>2, <1>5, <1>8, MinimumIs, MaximumIs
<1>10. RowOf(w, j) = [min |-> row.min, max |-> row.max, sum |-> row.sum,
                      sum2 |-> row.sum2]
  BY <1>9 DEF RowOf, RowIs
<1>11. QED BY <1>10 DEF MmsRow

LEMMA Wrapped ==
  ASSUME NEW m \in Nat, NEW n \in Nat, m < n
  PROVE  m % n = m /\ (m + n) % n = m
OBVIOUS

LEMMA WrapsToBunch ==
  ASSUME NEW m \in Int
  PROVE  m % MmsBunches \in MmsBunch
<1>1. MmsBunches \in Nat /\ 0 < MmsBunches
  BY MmsAssumption
<1>2. QED BY <1>1 DEF MmsBunch

LEMMA BunchAtIs ==
  /\ \A i \in MmsBunch, s \in TapSource : BunchAt(i, s) \in MmsBunch
  /\ \A j \in MmsBunch, s \in TapSource :
       /\ (j + s) % MmsBunches \in MmsBunch
       /\ BunchAt((j + s) % MmsBunches, s) = j
<1>1. MmsBunches \in Nat /\ 0 < MmsBunches
  BY MmsAssumption
<1>2. \A m \in Int : m % MmsBunches \in MmsBunch
  BY WrapsToBunch
<1>3. ASSUME NEW i \in MmsBunch, NEW s \in TapSource
      PROVE  BunchAt(i, s) \in MmsBunch
  <2>1. i + MmsBunches - s \in Int
    BY <1>1 DEF TapSource, MmsBunch
  <2>2. QED BY <1>2, <2>1 DEF BunchAt
<1>4. ASSUME NEW j \in MmsBunch, NEW s \in TapSource
      PROVE  /\ (j + s) % MmsBunches \in MmsBunch
             /\ BunchAt((j + s) % MmsBunches, s) = j
  <2>1. j \in Nat /\ j < MmsBunches /\ s \in {0, 1}
    BY <1>1 DEF MmsBunch, TapSource
  <2>2. CASE j + s < MmsBunches
    <3>1. (j + s) % MmsBunches = j + s
      BY <1>1, <2>1, <2>2, Wrapped
    <3>2. (j + MmsBunches) % MmsBunches = j
      BY <1>1, <2>1, Wrapped
    <3>3. (j + s) + MmsBunches - s = j + MmsBunches
      BY <1>1, <2>1
    <3>4. QED BY <1>1, <2>1, <2>2, <3>1, <3>2, <3>3 DEF BunchAt, MmsBunch
  <2>3. CASE ~(j + s < MmsBunches)
    <3>1. s = 1 /\ j + s = 0 + MmsBunches /\ j = MmsBunches - 1
      BY <1>1, <2>1, <2>3
    <3>2. (0 + MmsBunches) % MmsBunches = 0
      BY <1>1, Wrapped
    <3>3. j % MmsBunches = j
      BY <1>1, <2>1, Wrapped
    <3>4. 0 + MmsBunches - s = j
      BY <1>1, <3>1
    <3>5. QED BY <1>1, <2>1, <3>1, <3>2, <3>3, <3>4 DEF BunchAt, MmsBunch
  <2>4. QED BY <2>2, <2>3
<1>5. QED BY <1>3, <1>4

LEMMA AccumulatedIs ==
  ASSUME MmsData, MmsTypeOK, RowInv, mms.phase = "rows",
         Len(mms.rows) = MmsBunches
  PROVE  /\ Accumulated \in [turns : Int, row : MmsRows]
         /\ Accumulated.turns = accum.turns + mms.turns
         /\ \A j \in MmsBunch :
              Accumulated.row[j] =
                Joined(accum.row[j], mms.rows[((j + offset) % MmsBunches) + 1])
<1> DEFINE r(j) == mms.rows[((j + offset) % MmsBunches) + 1]
<1>1. accum.turns \in Int /\ mms.turns \in Int /\ accum.row \in MmsRows
  BY DEF MmsData
<1>2. mms.rows \in Seq(MmsRow) /\ offset \in TapSource
  BY DEF MmsData, MmsTypeOK
<1>3. \A j \in MmsBunch : (j + offset) % MmsBunches \in MmsBunch
  BY <1>2, BunchAtIs
<1>4. \A j \in MmsBunch : r(j) \in MmsRow
  <2>1. \A j \in MmsBunch : j + 1 \in 1 .. MmsBunches
    BY MmsAssumption DEF MmsBunch
  <2>2. QED BY <1>2, <1>3, <2>1
<1>5. \A j \in MmsBunch : Joined(accum.row[j], r(j)) \in MmsRow
  BY <1>1, <1>4, JoinedType DEF MmsRows
<1>6. Accumulated = [turns |-> accum.turns + mms.turns,
                     row |-> [j \in MmsBunch |-> Joined(accum.row[j], r(j))]]
  BY DEF Accumulated, Joined
<1> HIDE DEF r
<1>7. /\ Accumulated.turns = accum.turns + mms.turns
      /\ Accumulated.row = [j \in MmsBunch |-> Joined(accum.row[j], r(j))]
  BY <1>6
<1>8. Accumulated.row \in MmsRows
  BY <1>5, <1>7 DEF MmsRows
<1>9. Accumulated \in [turns : Int, row : MmsRows]
  BY <1>1, <1>6, <1>7, <1>8
<1>10. QED BY <1>7, <1>9 DEF r

LEMMA SpreadIs ==
  ASSUME NEW a \in [turns : Int, row : MmsRows]
  PROVE  Spread(a) \in OfBunches
<1>1. \A j \in MmsBunch :
        a.turns * a.row[j].sum2 - a.row[j].sum * a.row[j].sum \in Int
  <2> SUFFICES ASSUME NEW j \in MmsBunch
      PROVE a.turns * a.row[j].sum2 - a.row[j].sum * a.row[j].sum \in Int
    OBVIOUS
  <2>1. a.row[j] \in MmsRow
    BY DEF MmsRows
  <2>2. a.row[j].sum2 \in Int /\ a.row[j].sum \in Int /\ a.turns \in Int
    BY <2>1 DEF MmsRow
  <2>3. QED BY <2>2
<1>2. QED BY <1>1 DEF Spread, OfBunches

LEMMA AddVarianceIs ==
  ASSUME MmsData, NEW v \in OfBunches
  PROVE  /\ AddVariance(v) \in [count : Nat, sum : OfBunches, min : OfBunches,
                                max : OfBunches]
         /\ AddVariance(v).count = variance.count + 1
         /\ \A j \in MmsBunch :
              /\ Std(v[j]) \in Nat
              /\ AddVariance(v).sum[j] = variance.sum[j] + v[j]
              /\ AddVariance(v).min[j] = LowerStd(variance.min[j], Std(v[j]))
              /\ AddVariance(v).max[j] = Higher(variance.max[j], Std(v[j]))
<1>1. /\ variance.count \in Nat /\ variance.sum \in OfBunches
      /\ variance.min \in OfBunches /\ variance.max \in OfBunches
  BY DEF MmsData
<1>2. \A j \in MmsBunch :
        /\ v[j] \in Int /\ variance.sum[j] \in Int
        /\ variance.min[j] \in Int /\ variance.max[j] \in Int
  BY <1>1 DEF OfBunches
<1>3. \A j \in MmsBunch : Std(v[j]) \in Nat
  BY <1>2 DEF Std, Higher
<1>4. \A j \in MmsBunch :
        /\ LowerStd(variance.min[j], Std(v[j])) \in Int
        /\ Higher(variance.max[j], Std(v[j])) \in Int
  BY <1>2, <1>3 DEF LowerStd, Lower, Higher
<1>5. /\ AddVariance(v).count = variance.count + 1
      /\ AddVariance(v).sum = [j \in MmsBunch |-> variance.sum[j] + v[j]]
      /\ AddVariance(v).min =
           [j \in MmsBunch |-> LowerStd(variance.min[j], Std(v[j]))]
      /\ AddVariance(v).max =
           [j \in MmsBunch |-> Higher(variance.max[j], Std(v[j]))]
      /\ AddVariance(v) = [count |-> AddVariance(v).count,
           sum |-> AddVariance(v).sum, min |-> AddVariance(v).min,
           max |-> AddVariance(v).max]
  BY DEF AddVariance
<1>6. /\ AddVariance(v).sum \in OfBunches /\ AddVariance(v).min \in OfBunches
      /\ AddVariance(v).max \in OfBunches
  BY <1>2, <1>4, <1>5 DEF OfBunches
<1>7. AddVariance(v) \in [count : Nat, sum : OfBunches, min : OfBunches,
                          max : OfBunches]
  BY <1>1, <1>5, <1>6
<1>8. QED BY <1>3, <1>5, <1>7

\* The turns just read, joined to those accumulated.
LEMMA AccumulatedExact ==
  ASSUME MmsData, MmsTypeOK, CountInv, RowInv, ReadoutInv, AccumInv,
         mms.phase = "rows", Len(mms.rows) = MmsBunches,
         ~Widened.doubt, ~Widened.stale
  PROVE  /\ window.first <= hw.switched /\ hw.switched <= MaxTurns
         /\ Accumulated.turns = hw.switched - window.first + 1
         /\ \A j \in MmsBunch :
              RowIs(Accumulated.row[j], window.first, hw.switched, j)
<1>1. PICK first, last, switched : /\ first = window.first
                                   /\ last = window.last
                                   /\ switched = hw.switched
  OBVIOUS
<1>2. first \in Nat \ {0} /\ last \in Nat /\ switched \in Nat
  BY <1>1 DEF MmsData
<1>3. /\ ~window.doubt /\ ~mms.ovfl /\ AllOf(last + 1, switched, offset)
      /\ ~window.stale /\ 1 - hw.bank \notin hw.stale
  <2>1. /\ Widened.doubt = (window.doubt \/ mms.ovfl
                 \/ \E k \in window.last + 1 .. hw.switched :
                      history[k] # offset)
        /\ Widened.stale = (window.stale \/ 1 - hw.bank \in hw.stale)
    BY DEF Widened, MmsData
  <2>2. QED BY <1>1, <2>1 DEF AllOf
<1>4. Served
  BY DEF Served
<1>5. first <= last + 1 /\ last < switched /\ switched <= MaxTurns
  <2>1. PICK n, f : n = Len(history) /\ f = hw.frames /\ n \in Nat /\ f \in Nat
    BY SMTT(30) DEF MmsData
  <2>2. n <= MaxTurns /\ switched + f = n
    BY <1>1, <2>1 DEF CountInv
  <2>3. switched <= MaxTurns
    BY <1>2, <2>1, <2>2, MmsAssumption
  <2>4. QED BY <1>1, <1>3, <1>4, <2>3 DEF CountInv
<1>6. mms.turns = switched - last
  BY <1>1, <1>3, <1>4 DEF CountInv, RowInv
<1>7. accum.turns = last - first + 1
  BY <1>1, <1>3 DEF AccumInv
<1>8. Accumulated.turns = switched - first + 1
  <2>1. Accumulated.turns = accum.turns + mms.turns
    BY AccumulatedIs
  <2>2. QED BY <1>2, <1>6, <1>7, <2>1
<1>9. ASSUME NEW j \in MmsBunch
      PROVE  RowIs(Accumulated.row[j], first, switched, j)
  <2>1. PICK i \in MmsBunch :
          i = (j + offset) % MmsBunches /\ BunchAt(i, offset) = j
    BY BunchAtIs DEF MmsTypeOK
  <2>2. i < Len(mms.rows) /\ i + 1 \in 1 .. Len(mms.rows)
    BY MmsAssumption DEF MmsBunch
  <2>3. RowToRead(i) = mms.rows[i + 1]
    BY <2>2 DEF RowToRead
  <2>4. RowIs(mms.rows[i + 1], last + 1, switched, j)
    BY <1>1, <1>3, <1>4, <2>1, <2>3 DEF ReadoutInv, MmsTypeOK
  <2>5. RowIs(accum.row[j], first, last, j)
    BY <1>1, <1>3 DEF AccumInv
  <2>6. accum.row[j] \in MmsRow /\ mms.rows[i + 1] \in MmsRow
    BY <2>2 DEF MmsData, MmsRows
  <2>7. RowIs(Joined(accum.row[j], mms.rows[i + 1]), first, switched, j)
    BY <1>2, <1>5, <2>4, <2>5, <2>6, JoinedRow
  <2>8. QED BY <2>1, <2>7, AccumulatedIs
<1>10. QED BY <1>1, <1>2, <1>5, <1>8, <1>9

\* What SCAN publishes then is exact.
LEMMA ScanIsExact ==
  ASSUME MmsData, MmsTypeOK, CountInv, RowInv, ReadoutInv, AccumInv,
         mms.phase = "rows", Len(mms.rows) = MmsBunches,
         ~Widened.doubt, ~Widened.stale
  PROVE  /\ Accumulated.turns = Cardinality(Turns(Widened))
         /\ \A j \in MmsBunch : Accumulated.row[j] = RowOf(Widened, j)
<1>1. /\ window.first <= hw.switched /\ hw.switched <= MaxTurns
      /\ Accumulated.turns = hw.switched - window.first + 1
      /\ \A j \in MmsBunch :
           RowIs(Accumulated.row[j], window.first, hw.switched, j)
  BY AccumulatedExact
<1>2. Widened.first = window.first /\ Widened.last = hw.switched
  BY DEF Widened, MmsData
<1>3. window.first \in Nat \ {0} /\ hw.switched \in Nat
  BY DEF MmsData
<1>4. Cardinality(window.first .. hw.switched) = hw.switched - window.first + 1
  BY <1>1, <1>3, FS_Interval, SMTT(30)
<1>5. \A j \in MmsBunch : Accumulated.row[j] \in MmsRow
  BY AccumulatedIs DEF MmsRows
<1>6. \A j \in MmsBunch : Accumulated.row[j] = RowOf(Widened, j)
  BY <1>1, <1>2, <1>3, <1>5, RowIsExact
<1>7. QED BY <1>1, <1>2, <1>4, <1>6 DEF Turns

LEMMA VarianceAdded ==
  ASSUME MmsData, NEW order, VarianceIs(variance, scans, order),
         NEW v \in OfBunches
  PROVE  VarianceIs(AddVariance(v), Append(scans, v), order)
<1> DEFINE n == Len(scans)
           t == Append(scans, v)
<1>1. n \in Nat /\ scans \in Seq(OfBunches) /\ t \in Seq(OfBunches)
  BY DEF MmsData
<1>2. /\ Len(t) = n + 1 /\ DOMAIN t = 1 .. n + 1 /\ DOMAIN scans = 1 .. n
      /\ t[n + 1] = v /\ \A k \in 1 .. n : t[k] = scans[k]
  BY <1>1
<1> HIDE DEF n, t
<1>3. AddVariance(v).count = Len(t)
  BY <1>2, AddVarianceIs DEF VarianceIs, n
<1>4. ASSUME NEW j \in MmsBunch
      PROVE  AddVariance(v).sum[j] =
               SumOver([k \in DOMAIN t |-> t[k][j]], 1, Len(t))
  <2> DEFINE x == [k \in DOMAIN t |-> t[k][j]]
             y == [k \in DOMAIN scans |-> scans[k][j]]
  <2>1. \A k \in 1 .. n : x[k] = y[k]
    BY <1>1, <1>2
  <2>2. x[n + 1] = v[j]
    BY <1>1, <1>2
  <2>3. variance.sum[j] = SumOver(y, 1, n)
    BY DEF VarianceIs, n
  <2> HIDE DEF x, y
  <2>4. SumOver(x, 1, n) = SumOver(y, 1, n)
    <3>1. n \in Nat /\ 1 \in Nat \ {0}
      BY <1>1
    <3>2. \A X, Y : (\A k \in 1 .. n : X[k] = Y[k]) =>
            SumOver(X, 1, n) = SumOver(Y, 1, n)
      BY <3>1, SumOfSame
    <3>3. QED BY <2>1, <3>2
  <2>5. SumOver(x, 1, n + 1) = SumOver(x, 1, n) + x[n + 1]
    <3>1. n + 1 \in Nat /\ 1 <= n + 1 /\ (n + 1) - 1 = n
      BY <1>1
    <3>2. SumOver(x, 1, n + 1) = SumOver(x, 1, (n + 1) - 1) + x[n + 1]
      BY <3>1, SumOfMore
    <3>3. QED BY <3>1, <3>2
  <2>6. AddVariance(v).sum[j] = variance.sum[j] + v[j]
    BY AddVarianceIs
  <2>7. QED BY <1>2, <2>2, <2>3, <2>4, <2>5, <2>6 DEF x
<1>5. ASSUME NEW j \in MmsBunch
      PROVE  /\ Std(v[j]) \in Nat
             /\ \A k \in 1 .. n : Std(scans[k][j]) \in Nat
             /\ variance.min[j] \in Int /\ variance.max[j] \in Int
  <2>1. Std(v[j]) \in Nat
    BY AddVarianceIs
  <2>2. \A k \in 1 .. n : scans[k][j] \in Int
    BY <1>1, <1>2 DEF OfBunches
  <2>3. \A k \in 1 .. n : Std(scans[k][j]) \in Nat
    BY <2>2 DEF Std, Higher
  <2>4. variance.min \in OfBunches /\ variance.max \in OfBunches
    BY DEF MmsData
  <2>5. QED BY <2>1, <2>3, <2>4 DEF OfBunches
<1>6. ASSUME NEW j \in MmsBunch
      PROVE  \A k \in 1 .. n + 1 :
               \/ k \in 1 .. n /\ Std(t[k][j]) = Std(scans[k][j])
               \/ k = n + 1 /\ Std(t[k][j]) = Std(v[j])
  BY <1>1, <1>2
<1>7. n + 1 \in 1 .. n + 1 /\ \A k \in 1 .. n : k \in 1 .. n + 1
  BY <1>1
<1>8. ASSUME NEW j \in MmsBunch
      PROVE  StdMaxOver(AddVariance(v).max[j], t, j)
  <2> DEFINE m == variance.max[j]
             d == Std(v[j])
  <2>1. /\ \A k \in 1 .. n : Std(scans[k][j]) <= m
        /\ m \in {NoStd, 0} \/ \E k \in 1 .. n : m = Std(scans[k][j])
    BY <1>2 DEF VarianceIs, StdMaxOver
  <2>2. d \in Nat /\ m \in Int /\ \A k \in 1 .. n : Std(scans[k][j]) \in Nat
    BY <1>5
  <2>3. Std(t[n + 1][j]) = d /\ \A k \in 1 .. n : Std(t[k][j]) = Std(scans[k][j])
    BY <1>2
  <2>4. \/ d >= m /\ Higher(m, d) = d
        \/ d < m /\ Higher(m, d) = m
    BY <2>2 DEF Higher
  <2> HIDE DEF m, d
  <2>5. \A k \in 1 .. n + 1 : Std(t[k][j]) <= Higher(m, d)
    BY <1>6, <2>1, <2>2, <2>4 DEF d
  <2>6. \/ Higher(m, d) \in {NoStd, 0}
        \/ \E k \in 1 .. n + 1 : Higher(m, d) = Std(t[k][j])
    BY <1>7, <2>1, <2>3, <2>4
  <2>7. AddVariance(v).max[j] = Higher(m, d)
    BY AddVarianceIs DEF m, d
  <2>8. QED BY <1>2, <2>5, <2>6, <2>7 DEF StdMaxOver
<1>9. ASSUME NEW j \in MmsBunch, order # "none"
      PROVE  StdMinOver(AddVariance(v).min[j], t, j)
  <2> DEFINE m == variance.min[j]
             d == Std(v[j])
  <2>1. StdMinOver(m, scans, j)
    BY <1>9 DEF VarianceIs
  <2>2. d \in Nat /\ m \in Int /\ \A k \in 1 .. n : Std(scans[k][j]) \in Nat
    BY <1>5
  <2>3. Std(t[n + 1][j]) = d /\ \A k \in 1 .. n : Std(t[k][j]) = Std(scans[k][j])
    BY <1>2
  <2>4. AddVariance(v).min[j] = LowerStd(m, d)
    BY AddVarianceIs
  <2>5. t # <<>>
    BY <1>1, <1>2
  <2> HIDE DEF m, d
  <2>6. CASE scans = <<>>
    <3>1. m = NoStd /\ n = 0
      BY <2>1, <2>6 DEF StdMinOver, n
    <3>2. LowerStd(m, d) = d
      BY <3>1 DEF LowerStd
    <3>3. \A k \in 1 .. n + 1 : Std(t[k][j]) = d
      BY <1>6, <3>1 DEF d
    <3>4. QED BY <1>2, <1>7, <2>2, <2>4, <2>5, <3>2, <3>3 DEF StdMinOver
  <2>7. CASE scans # <<>>
    <3>1. /\ \A k \in 1 .. n : m <= Std(scans[k][j])
          /\ \E k \in 1 .. n : m = Std(scans[k][j])
      BY <1>2, <2>1, <2>7 DEF StdMinOver
    <3>2. m # NoStd
      BY <2>2, <3>1 DEF NoStd
    <3>3. \/ m < d /\ LowerStd(m, d) = m
          \/ d <= m /\ LowerStd(m, d) = d
      BY <2>2, <3>2 DEF LowerStd, Lower
    <3>4. \A k \in 1 .. n + 1 : LowerStd(m, d) <= Std(t[k][j])
      BY <1>6, <2>2, <3>1, <3>3 DEF d
    <3>5. \E k \in 1 .. n + 1 : LowerStd(m, d) = Std(t[k][j])
      BY <1>7, <2>3, <3>1, <3>3
    <3>6. QED BY <1>2, <2>4, <2>5, <3>4, <3>5 DEF StdMinOver
  <2>8. QED BY <2>6, <2>7
<1>10. QED BY <1>3, <1>4, <1>8, <1>9 DEF VarianceIs, t

LEMMA NoneScanned ==
  ASSUME NEW v, v.count = 0, v.sum = All(0), v.max \in {All(0), All(NoStd)},
         NEW order, order # "none" => v.min = All(NoStd)
  PROVE  VarianceIs(v, <<>>, order)
<1>1. ASSUME NEW j \in MmsBunch
      PROVE  SumOver([k \in DOMAIN <<>> |-> <<>>[k][j]], 1, 0) = 0
  BY SumOfNone
<1>2. DOMAIN <<>> = {} /\ Len(<<>>) = 0
  OBVIOUS
<1>3. ASSUME NEW j \in MmsBunch
      PROVE  /\ v.sum[j] = 0 /\ v.max[j] \in {0, NoStd}
             /\ order # "none" => v.min[j] = NoStd
  BY DEF All
<1>4. ASSUME NEW j \in MmsBunch
      PROVE  /\ StdMaxOver(v.max[j], <<>>, j)
             /\ order # "none" => StdMinOver(v.min[j], <<>>, j)
  BY <1>2, <1>3 DEF StdMaxOver, StdMinOver
<1>5. QED BY <1>1, <1>2, <1>3, <1>4 DEF VarianceIs

\* An archive of what has been scanned is exact.
LEMMA ArchiveIs ==
  ASSUME MmsData, NEW order, VarianceIs(variance, scans, order),
         scans # <<>>, NEW j \in MmsBunch
  PROVE  /\ variance.max[j] = Max({Std(scans[k][j]) : k \in DOMAIN scans})
         /\ order # "none" =>
              variance.min[j] = Min({Std(scans[k][j]) : k \in DOMAIN scans})
<1> DEFINE S == {Std(scans[k][j]) : k \in DOMAIN scans}
<1>1. scans \in Seq(OfBunches) /\ 1 \in DOMAIN scans
  BY DEF MmsData
<1>2. \A k \in DOMAIN scans : Std(scans[k][j]) \in Nat
  <2>1. \A k \in DOMAIN scans : scans[k][j] \in Int
    BY <1>1 DEF OfBunches
  <2>2. QED BY <2>1 DEF Std, Higher
<1>3. S \in SUBSET Int /\ (\A x \in S : x >= 0) /\ Std(scans[1][j]) \in S
  BY <1>1, <1>2
<1>4. variance.max[j] \in Int /\ variance.min[j] \in Int
  BY DEF MmsData, OfBunches
<1>5. variance.max[j] \in S /\ \A x \in S : x <= variance.max[j]
  <2>1. /\ \A x \in S : x <= variance.max[j]
        /\ variance.max[j] \in {NoStd, 0} \/ variance.max[j] \in S
    BY DEF VarianceIs, StdMaxOver
  <2>2. PICK m, x : /\ m = variance.max[j] /\ m \in Int
                    /\ x \in S /\ x \in Int /\ x >= 0
    BY <1>3, <1>4
  <2> HIDE DEF S
  <2>3. x <= m
    BY <2>1, <2>2
  <2>4. m \in {NoStd, 0} => m = x
    BY <2>2, <2>3 DEF NoStd
  <2>5. QED BY <2>1, <2>2, <2>4
<1>6. order # "none" =>
        variance.min[j] \in S /\ \A x \in S : variance.min[j] <= x
  BY DEF VarianceIs, StdMinOver
<1>7. Max(S) = variance.max[j]
  BY <1>3, <1>5, MaximumIs
<1>8. order # "none" => Min(S) = variance.min[j]
  BY <1>3, <1>6, MinimumIs
<1>9. QED BY <1>7, <1>8

LEMMA MmsInitial == MmsInit => MmsInv
<1> SUFFICES ASSUME MmsInit PROVE MmsInv
  OBVIOUS
<1> USE DEF MmsInit
<1>1. MmsBunches \in Nat /\ 0 \in MmsBunch /\ TurnWrap - 1 \in Nat
      /\ MaxTurns \in Nat
  BY MmsAssumption DEF MmsBunch
<1>2. All(ZeroRow) \in MmsRows /\ All(0) \in OfBunches
  BY DEF All, ZeroRow, MmsRows, MmsRow, OfBunches
<1>3. MmsData
  <2>1. hw \in [bank : MmsBank, rows : [MmsBank -> MmsRows], frames : Nat,
                ovfl : BOOLEAN, request : BOOLEAN, turns : Nat,
                countOvfl : BOOLEAN, addr : MmsBunch, stale : SUBSET MmsBank,
                switched : Nat]
    BY <1>1, <1>2 DEF MmsBank
  <2>2. mms \in [by : MmsBy, phase : MmsPhase, turns : Nat, ovfl : BOOLEAN,
                 rows : Seq(MmsRow)]
    <3>1. <<>> \in Seq(MmsRow)
      OBVIOUS
    <3>2. QED BY <3>1 DEF NoMms, MmsBy, MmsPhase
  <2>3. accum \in [turns : Int, row : MmsRows]
    BY <1>2 DEF Accum0
  <2>4. window \in [first : Nat \ {0}, last : Nat, doubt : BOOLEAN,
                    stale : BOOLEAN]
    BY DEF NoWindow
  <2>5. variance \in [count : Nat, sum : OfBunches, min : OfBunches,
                      max : OfBunches]
    BY <1>2 DEF NoVariance
  <2>6. QED BY <2>1, <2>2, <2>3, <2>4, <2>5 DEF MmsData
<1>4. MmsTypeOK
  <2>1. /\ hw.bank \in MmsBank /\ hw.frames \in 0 .. MaxTurns
        /\ hw.turns \in 0 .. TurnWrap - 1 /\ hw.addr \in MmsBunch
    BY <1>1 DEF MmsBank
  <2>2. /\ tap \in TapSource /\ offset \in TapSource
        /\ choice \subseteq TapSource
        /\ poller \in {"start", "poll", "polled"} /\ reading \in BOOLEAN
    BY DEF TapSource
  <2>3. mms.by = "none" /\ mms.phase = "none" /\ mms.turns = 0
    BY DEF NoMms
  <2>4. window.last = 0 /\ Len(history) = 0
    BY DEF NoWindow
  <2>5. 0 \in 0 .. TurnWrap
    BY MmsAssumption
  <2>6. QED BY <2>1, <2>2, <2>3, <2>4, <2>5 DEF MmsTypeOK
<1>5. CountInv /\ RowInv
  BY <1>1, MmsAssumption DEF CountInv, RowInv, NoMms, NoWindow
<1>6. WrittenInv /\ ReadoutInv /\ AccumInv
  BY DEF WrittenInv, ReadoutInv, AccumInv, NoWindow
<1>7. VarianceInv
  <2>1. VarianceIs(NoVariance, <<>>, "none")
    BY NoneScanned DEF NoVariance
  <2>2. QED BY <2>1 DEF VarianceInv, Archived0
<1>8. PublishedExact /\ ArchiveExact
  BY DEF PublishedExact, ArchiveExact, Shown0, NoWindow, Archived0
<1>9. QED BY <1>3, <1>4, <1>5, <1>6, <1>7, <1>8 DEF MmsInv

LEMMA ShownSame ==
  ASSUME MmsInv, UNCHANGED mmsShown
  PROVE  VarianceInv' /\ PublishedExact' /\ ArchiveExact'
BY DEF MmsInv, VarianceInv, VarianceIs, PublishedExact, ArchiveExact, Exact,
   mmsShown

\* The turn added to the bank that is written.
LEMMA TurnRow ==
  ASSUME MmsInv, Len(history) < MaxTurns, tap \in TapSource,
         hw.bank \notin hw.stale, NEW s \in TapSource, NEW i \in MmsBunch,
         \A k \in hw.switched + 1 .. Len(history) + 1 :
           Append(history, tap)[k] = s
  PROVE  RowIs(Updated(hw.rows[hw.bank][i],
                       Sample(Len(history) + 1, BunchAt(i, tap))),
               hw.switched + 1, Len(history) + 1, BunchAt(i, s))
<1>1. PICK n, m : n = Len(history) /\ m = hw.switched /\ n \in Nat /\ m \in Nat
  <2>1. Len(history) \in Nat
    BY DEF MmsInv, MmsData
  <2>2. hw.switched \in Nat
    BY DEF MmsInv, MmsData
  <2>3. QED BY <2>1, <2>2
<1>2. m <= n /\ n < MaxTurns /\ history \in Seq(TapSource)
  <2>1. PICK f : f = hw.frames /\ f \in Nat
    BY DEF MmsInv, MmsData
  <2>2. QED BY <1>1, <2>1 DEF MmsInv, MmsData, CountInv
<1>3. /\ Append(history, tap)[n + 1] = tap
      /\ \A k \in 1 .. n : Append(history, tap)[k] = history[k]
  BY <1>1, <1>2
<1>4. tap = s
  BY <1>1, <1>2, <1>3
<1>5. AllOf(m + 1, n, s)
  <2>1. \A k \in m + 1 .. n : k \in 1 .. n /\ k \in m + 1 .. n + 1
    BY <1>1
  <2>2. QED BY <1>1, <1>3, <2>1 DEF AllOf
<1>6. RowIs(hw.rows[hw.bank][i], m + 1, n, BunchAt(i, s))
  BY <1>1, <1>5 DEF MmsInv, WrittenInv
<1>7. BunchAt(i, s) \in MmsBunch
  BY BunchAtIs
<1>8. hw.rows[hw.bank][i] \in MmsRow
  BY DEF MmsInv, MmsData, MmsRows
<1>9. RowIs(Updated(hw.rows[hw.bank][i], Sample(n + 1, BunchAt(i, s))),
            m + 1, n + 1, BunchAt(i, s))
  <2>1. m + 1 \in Nat \ {0} /\ m + 1 <= n + 1 /\ n + 1 <= MaxTurns
    BY <1>1, <1>2, MmsAssumption
  <2>2. QED BY <1>1, <1>6, <1>7, <1>8, <2>1, UpdatedRow
<1>10. QED BY <1>1, <1>4, <1>9

LEMMA TurnStep ==
  ASSUME MmsInv, Turn
  PROVE  MmsInv'
<1> DEFINE b == hw.bank
           other == 1 - hw.bank
           old == hw.rows[b]
           turn == Len(history) + 1
           row == [i \in MmsBunch |->
                     Updated(old[i], Sample(turn, BunchAt(i, tap)))]
           rows == [hw.rows EXCEPT ![b] = row]
           marked == IF rows[other] = All(ResetRow)
                    THEN hw.stale \ {other} ELSE hw.stale \cup {other}
<1>1. /\ Len(history) < MaxTurns
      /\ history' = Append(history, tap)
      /\ UNCHANGED <<tap, mmsSource, poller, mms, accum, window, mmsShown,
                     restarted>>
  BY DEF Turn
<1>2. /\ hw.request =>
           hw' = [hw EXCEPT !.rows = rows, !.bank = other, !.request = FALSE,
                    !.turns = CountRegister(hw.frames), !.countOvfl = hw.ovfl,
                    !.frames = 0, !.ovfl = FALSE, !.addr = 0, !.stale = marked,
                    !.switched = turn]
      /\ ~hw.request =>
           hw' = [hw EXCEPT !.rows = rows, !.frames = hw.frames + 1,
                    !.ovfl = (hw.ovfl \/ hw.frames + 1 >= TurnWrap)]
  BY DEF Turn
<1>3. /\ hw \in [bank : MmsBank, rows : [MmsBank -> MmsRows], frames : Nat,
                 ovfl : BOOLEAN, request : BOOLEAN, turns : Nat,
                 countOvfl : BOOLEAN, addr : MmsBunch,
                 stale : SUBSET MmsBank, switched : Nat]
      /\ history \in Seq(TapSource) /\ tap \in TapSource
  BY DEF MmsInv, MmsData, MmsTypeOK
<1>4. /\ b \in MmsBank /\ other \in MmsBank /\ b # other /\ 1 - other = b
      /\ hw.rows \in [MmsBank -> MmsRows] /\ hw.stale \subseteq MmsBank
  BY <1>3 DEF MmsBank
<1>5. PICK n, m, f, l : /\ n = Len(history) /\ m = hw.switched /\ f = hw.frames
                        /\ l = window.last
                        /\ n \in Nat /\ m \in Nat /\ f \in Nat /\ l \in Nat
  BY <1>3, SMTT(30) DEF MmsInv, MmsData
<1>6. n + 1 \in 1 .. MaxTurns /\ turn = n + 1 /\ m + f = n
  BY <1>1, <1>5, MmsAssumption DEF MmsInv, CountInv
<1>7. row \in MmsRows
  <2>1. old \in MmsRows
    BY <1>4
  <2>2. \A i \in MmsBunch :
          Updated(old[i], Sample(turn, BunchAt(i, tap))) \in MmsRow
    BY <1>3, <1>6, <2>1, BunchAtIs, UpdatedType DEF MmsRows
  <2>3. QED BY <2>2 DEF MmsRows
<1>8. rows \in [MmsBank -> MmsRows] /\ rows[b] = row
      /\ rows[other] = hw.rows[other]
  BY <1>4, <1>7
<1>9. /\ Len(history') = n + 1 /\ history' \in Seq(TapSource)
      /\ \A k \in 1 .. n : history'[k] = history[k]
  BY <1>1, <1>3, <1>5
<1>10. 0 \in MmsBunch /\ TurnWrap \in Nat /\ TurnWrap # 0
  BY MmsAssumption DEF MmsBunch
<1>11. /\ CountRegister(f) \in 0 .. TurnWrap - 1
       /\ f < TurnWrap => CountRegister(f) = f
  BY <1>5, <1>10, SMTT(30) DEF CountRegister
<1>12. marked \subseteq MmsBank
  BY <1>4
<1>13. ASSUME b \notin hw.stale, NEW s \in TapSource,
              \A k \in m + 1 .. n + 1 : history'[k] = s, NEW i \in MmsBunch
       PROVE  RowIs(row[i], m + 1, n + 1, BunchAt(i, s))
  BY <1>1, <1>3, <1>5, <1>13, TurnRow
<1> HIDE DEF rows, row, marked
<1>14. CASE hw.request
  <2>1. /\ hw'.rows = rows /\ hw'.bank = other /\ hw'.request = FALSE
        /\ hw'.turns = CountRegister(f) /\ hw'.countOvfl = hw.ovfl
        /\ hw'.frames = 0 /\ hw'.ovfl = FALSE /\ hw'.addr = 0
        /\ hw'.stale = marked /\ hw'.switched = n + 1
    BY <1>2, <1>3, <1>5, <1>6, <1>14
  <2>2. MmsData'
    <3>1. hw' \in [bank : MmsBank, rows : [MmsBank -> MmsRows], frames : Nat,
                   ovfl : BOOLEAN, request : BOOLEAN, turns : Nat,
                   countOvfl : BOOLEAN, addr : MmsBunch,
                   stale : SUBSET MmsBank, switched : Nat]
      <4>1. CountRegister(hw.frames) \in Nat /\ turn \in Nat
        BY <1>5, <1>6, <1>10, <1>11
      <4>2. QED BY <1>2, <1>3, <1>4, <1>8, <1>10, <1>12, <1>14, <4>1, SMTT(30)
    <3>2. QED BY <1>1, <1>9, <3>1 DEF MmsInv, MmsData, mmsShown
  <2>3. CountInv'
    <3>1. l <= m
      BY <1>5 DEF MmsInv, CountInv
    <3>2. mms.phase \in {"none", "ask", "archive"} => window.doubt
      BY <1>14 DEF MmsInv, CountInv
    <3>3. ~window.doubt => window.first <= l + 1 /\ l = m
      BY <1>5, <1>14 DEF MmsInv, CountInv, Served, RowInv
    <3>4. ~hw.ovfl => f < TurnWrap
      BY <1>5 DEF MmsInv, CountInv
    <3>5. mms'.phase = mms.phase /\ window' = window
      BY <1>1
    <3>6. mms.phase \in {"none", "ask", "wait", "rows", "archive"}
      BY DEF MmsInv, MmsTypeOK
    <3>7. ~window.doubt => Served'
      BY <2>1, <3>2, <3>5, <3>6 DEF Served
    <3>8. Len(history') <= MaxTurns /\ hw'.switched + hw'.frames = Len(history')
      BY <1>6, <1>9, <2>1
    <3>9. window'.last <= hw'.switched
      BY <1>5, <1>6, <2>1, <3>1, <3>5
    <3>10. 0 < TurnWrap
      BY <1>10
    <3>11. ~window.doubt =>
             /\ window.last < hw'.switched
             /\ ~hw'.countOvfl => hw'.turns + 1 = hw'.switched - window.last
      BY <1>5, <1>6, <1>11, <2>1, <3>3, <3>4
    <3>12. ~window.doubt => window.first <= window.last + 1
      BY <1>5, <3>3
    <3>13. QED
      BY <2>1, <3>5, <3>7, <3>8, <3>9, <3>10, <3>11, <3>12 DEF CountInv
  <2>4. RowInv'
    BY <1>1, <1>14, <2>1 DEF MmsInv, RowInv
  <2>5. WrittenInv'
    <3> SUFFICES ASSUME other \notin marked, NEW i \in MmsBunch,
                        NEW s \in TapSource
        PROVE RowIs(rows[other][i], n + 1 + 1, n + 1, BunchAt(i, s))
      BY <1>9, <2>1 DEF WrittenInv
    <3>1. rows[other] = All(ResetRow)
      BY DEF marked
    <3>2. rows[other][i] = ResetRow
      BY <3>1 DEF All
    <3>3. QED BY <1>5, <3>2, BunchAtIs, EmptyRow
  <2>6. ReadoutInv'
    <3> SUFFICES ASSUME Served', ~window.doubt, 1 - other \notin marked,
                        NEW s \in TapSource, NEW i \in MmsBunch,
                        \A k \in l + 1 .. n + 1 : history'[k] = s
        PROVE RowIs(RowToRead(i)', l + 1, n + 1, BunchAt(i, s))
      BY <1>1, <1>5, <1>9, <2>1 DEF ReadoutInv, AllOf
    <3>1. b \notin hw.stale
      BY <1>4 DEF marked
    <3>2. l = m
      BY <1>5, <1>14 DEF MmsInv, CountInv, Served, RowInv
    <3>3. mms' = mms /\ mms.rows = <<>>
      BY <1>1, <1>14 DEF MmsInv, RowInv
    <3>4. ~(i < Len(mms'.rows))
      BY <3>3 DEF MmsBunch
    <3>5. RowToRead(i)' = rows[b][i]
      BY <1>4, <2>1, <3>4 DEF RowToRead
    <3>6. QED BY <1>8, <1>13, <3>1, <3>2, <3>5
  <2>7. MmsTypeOK'
    <3>1. window'.last <= Len(history')
      BY <1>5, <1>9, <2>1, <2>3, <1>1 DEF CountInv
    <3>2. hw'.frames \in 0 .. MaxTurns
      BY <2>1, MmsAssumption
    <3>3. hw'.bank \in MmsBank /\ hw'.addr \in MmsBunch
          /\ hw'.turns \in 0 .. TurnWrap - 1
      BY <1>4, <1>10, <1>11, <2>1
    <3>4. QED
      BY <1>1, <3>1, <3>2, <3>3 DEF MmsInv, MmsTypeOK, mmsSource, mmsShown
  <2>8. QED
    BY <1>1, <2>2, <2>3, <2>4, <2>5, <2>6, <2>7, ShownSame
    DEF MmsInv, AccumInv
<1>15. CASE ~hw.request
  <2>1. /\ hw'.rows = rows /\ hw'.bank = b /\ hw'.request = hw.request
        /\ hw'.turns = hw.turns /\ hw'.countOvfl = hw.countOvfl
        /\ hw'.frames = f + 1 /\ hw'.ovfl = (hw.ovfl \/ f + 1 >= TurnWrap)
        /\ hw'.addr = hw.addr /\ hw'.stale = hw.stale /\ hw'.switched = m
    BY <1>2, <1>3, <1>5, <1>15
  <2>2. MmsData'
    <3>1. hw' \in [bank : MmsBank, rows : [MmsBank -> MmsRows], frames : Nat,
                   ovfl : BOOLEAN, request : BOOLEAN, turns : Nat,
                   countOvfl : BOOLEAN, addr : MmsBunch,
                   stale : SUBSET MmsBank, switched : Nat]
      <4>1. hw.frames + 1 \in Nat
            /\ (hw.ovfl \/ hw.frames + 1 >= TurnWrap) \in BOOLEAN
        BY <1>3
      <4>2. QED BY <1>2, <1>3, <1>8, <1>15, <4>1
    <3>2. QED BY <1>1, <1>9, <3>1 DEF MmsInv, MmsData, mmsShown
  <2>3. Served' = Served
    BY <1>1, <2>1 DEF Served
  <2>4. CountInv'
    <3>1. /\ l <= m
          /\ ~window.doubt =>
               /\ window.first <= window.last + 1
               /\ IF Served
                  THEN /\ window.last < hw.switched
                       /\ ~hw.countOvfl =>
                            hw.turns + 1 = hw.switched - window.last
                  ELSE window.last = hw.switched
               /\ mms.phase \in {"none", "ask", "archive"} => ~hw.request
      BY <1>5 DEF MmsInv, CountInv
    <3>2. Len(history') <= MaxTurns /\ hw'.switched + hw'.frames = Len(history')
      <4>1. hw'.frames = f + 1 /\ hw'.switched = m
        BY <2>1
      <4>2. m + (f + 1) = n + 1 /\ n + 1 <= MaxTurns
        BY <1>5, <1>6, SMTT(30)
      <4>3. QED BY <1>9, <4>1, <4>2
    <3>3. ~hw'.ovfl => hw'.frames < TurnWrap
      <4>1. hw'.frames = f + 1 /\ (~hw'.ovfl => ~(f + 1 >= TurnWrap))
        BY <2>1
      <4>2. ~(f + 1 >= TurnWrap) => f + 1 < TurnWrap
        BY <1>5, <1>10
      <4>3. QED BY <4>1, <4>2
    <3>4. QED BY <1>1, <1>5, <2>1, <2>3, <3>1, <3>2, <3>3 DEF CountInv
  <2>5. RowInv'
    BY <1>1, <2>1 DEF MmsInv, RowInv
  <2>6. WrittenInv'
    <3> SUFFICES ASSUME b \notin hw.stale, NEW i \in MmsBunch,
                        NEW s \in TapSource,
                        \A k \in m + 1 .. n + 1 : history'[k] = s
        PROVE RowIs(rows[b][i], m + 1, n + 1, BunchAt(i, s))
      BY <1>9, <2>1 DEF WrittenInv, AllOf
    <3>1. QED BY <1>8, <1>13
  <2>7. ReadoutInv'
    <3> SUFFICES ASSUME Served, ~window.doubt, other \notin hw.stale,
                        NEW s \in TapSource, NEW i \in MmsBunch,
                        \A k \in l + 1 .. m : history'[k] = s
        PROVE RowIs(RowToRead(i)', l + 1, m, BunchAt(i, s))
      BY <1>1, <1>5, <2>1, <2>3 DEF ReadoutInv, AllOf
    <3>1. AllOf(l + 1, m, s)
      <4>1. \A k \in l + 1 .. m : k \in 1 .. n
        BY <1>5, <1>6
      <4>2. QED BY <1>9, <4>1 DEF AllOf
    <3>2. RowToRead(i)' = RowToRead(i)
      BY <1>1, <1>8, <2>1 DEF RowToRead
    <3>3. QED BY <1>5, <3>1, <3>2 DEF MmsInv, ReadoutInv
  <2>8. MmsTypeOK'
    <3>1. window'.last <= Len(history')
      <4>1. window'.last = l /\ l <= m
        BY <1>1, <1>5 DEF MmsInv, CountInv
      <4>2. QED BY <1>5, <1>6, <1>9, <4>1
    <3>2. hw'.frames \in 0 .. MaxTurns
      BY <1>5, <1>6, <2>1, MmsAssumption
    <3>3. hw'.bank \in MmsBank /\ hw'.addr \in MmsBunch
          /\ hw'.turns \in 0 .. TurnWrap - 1
      BY <1>4, <2>1 DEF MmsInv, MmsTypeOK
    <3>4. QED
      BY <1>1, <3>1, <3>2, <3>3 DEF MmsInv, MmsTypeOK, mmsSource, mmsShown
  <2>9. QED
    BY <1>1, <2>2, <2>4, <2>5, <2>6, <2>7, <2>8, ShownSame
    DEF MmsInv, AccumInv
<1>16. QED
  <2>1. hw.request \in BOOLEAN
    BY <1>3
  <2>2. QED BY <1>14, <1>15

\* A step that only has the mutex change hands, outside a readout.
LEMMA MutexStep ==
  ASSUME MmsInv, UNCHANGED <<hw, history, accum, window>>,
         mms' \in [by : MmsBy, phase : {"none", "ask", "archive"},
                   turns : {0}, ovfl : {FALSE}, rows : {<<>>}],
         mms'.phase = "ask" => mms'.by \in {"init", "poll", "scan"},
         mms'.phase = "archive" => mms'.by = "archive",
         mms.phase \in {"none", "archive"}
  PROVE  /\ mms' \in [by : MmsBy, phase : MmsPhase, turns : Nat,
                      ovfl : BOOLEAN, rows : Seq(MmsRow)]
         /\ CountInv' /\ RowInv' /\ WrittenInv' /\ ReadoutInv' /\ AccumInv'
         /\ mms'.turns \in 0 .. TurnWrap
<1>1. /\ mms'.phase \in {"none", "ask", "archive"} /\ mms'.rows = <<>>
      /\ mms'.turns = 0
  OBVIOUS
<1>2. ~Served /\ ~Served'
  BY <1>1 DEF Served
<1>3. CountInv'
  BY <1>1, <1>2 DEF MmsInv, CountInv
<1>4. RowInv'
  BY <1>1 DEF RowInv
<1>5. WrittenInv' /\ AccumInv'
  BY DEF MmsInv, WrittenInv, AccumInv, AllOf
<1>6. ReadoutInv'
  BY <1>2 DEF ReadoutInv
<1>7. <<>> \in Seq(MmsRow) /\ 0 \in Nat /\ 0 \in 0 .. TurnWrap
  BY MmsAssumption
<1>8. mms' \in [by : MmsBy, phase : MmsPhase, turns : Nat, ovfl : BOOLEAN,
                rows : Seq(MmsRow)]
  BY <1>7 DEF MmsPhase
<1>9. QED BY <1>1, <1>3, <1>4, <1>5, <1>6, <1>7, <1>8

LEMMA TakeStep ==
  ASSUME MmsInv, NEW by \in {"init", "poll", "scan", "archive"}, TakeMms(by),
         poller' \in {"start", "poll", "polled"}
  PROVE  MmsInv'
<1>1. /\ mms.by = "none" /\ UNCHANGED <<mmsHw, mmsSource, accum, window,
                                        mmsShown, restarted>>
      /\ mms' = [by |-> by, phase |-> IF by = "archive" THEN "archive"
                                      ELSE "ask",
                 turns |-> 0, ovfl |-> FALSE, rows |-> <<>>]
  BY DEF TakeMms, NoMms
<1>2. mms.phase \in {"none", "archive"}
  BY <1>1 DEF MmsInv, RowInv, MmsTypeOK
<1>3. /\ mms' \in [by : MmsBy, phase : {"none", "ask", "archive"},
                   turns : {0}, ovfl : {FALSE}, rows : {<<>>}]
      /\ mms'.phase = "ask" => mms'.by \in {"init", "poll", "scan"}
      /\ mms'.phase = "archive" => mms'.by = "archive"
  BY <1>1 DEF MmsBy
<1>4. UNCHANGED <<hw, history, accum, window>>
  BY <1>1 DEF mmsHw
<1>5. /\ mms' \in [by : MmsBy, phase : MmsPhase, turns : Nat,
                   ovfl : BOOLEAN, rows : Seq(MmsRow)]
      /\ CountInv' /\ RowInv' /\ WrittenInv' /\ ReadoutInv' /\ AccumInv'
      /\ mms'.turns \in 0 .. TurnWrap
  BY <1>2, <1>3, <1>4, MutexStep
<1>6. MmsData'
  BY <1>1, <1>5 DEF MmsInv, MmsData, mmsHw, mmsShown
<1>7. MmsTypeOK'
  <2>1. mms'.by \in {"none", "init", "poll", "scan", "archive"}
        /\ mms'.phase \in {"none", "ask", "wait", "rows", "archive"}
    BY <1>3 DEF MmsBy
  <2>2. QED
    BY <1>1, <1>5, <2>1 DEF MmsInv, MmsTypeOK, mmsHw, mmsSource, mmsShown
<1>8. QED BY <1>1, <1>5, <1>6, <1>7, ShownSame DEF MmsInv

LEMMA PollStep ==
  ASSUME MmsInv, PollMms
  PROVE  MmsInv'
<1>1. poller' \in {"start", "poll", "polled"}
  BY DEF PollMms
<1>2. \E by \in {"init", "poll", "scan", "archive"} : TakeMms(by)
  BY DEF PollMms
<1>3. QED BY <1>1, <1>2, TakeStep

LEMMA ScanStep ==
  ASSUME MmsInv, ScanMms
  PROVE  MmsInv'
<1>1. poller' \in {"start", "poll", "polled"}
  BY DEF ScanMms, MmsInv, MmsTypeOK
<1>2. TakeMms("scan")
  BY DEF ScanMms
<1>3. QED BY <1>1, <1>2, TakeStep

LEMMA AskStep ==
  ASSUME MmsInv, AskCount
  PROVE  MmsInv'
<1>1. /\ mms.phase = "ask" /\ hw' = [hw EXCEPT !.request = TRUE]
      /\ mms' = [mms EXCEPT !.phase = "wait"]
      /\ UNCHANGED <<tap, history, mmsSource, poller, accum, window, mmsShown,
                     restarted>>
  BY DEF AskCount
<1>2. MmsData'
  <2>1. hw' \in [bank : MmsBank, rows : [MmsBank -> MmsRows], frames : Nat,
                 ovfl : BOOLEAN, request : BOOLEAN, turns : Nat,
                 countOvfl : BOOLEAN, addr : MmsBunch, stale : SUBSET MmsBank,
                 switched : Nat]
    BY <1>1 DEF MmsInv, MmsData
  <2>2. mms' \in [by : MmsBy, phase : MmsPhase, turns : Nat, ovfl : BOOLEAN,
                  rows : Seq(MmsRow)]
    BY <1>1 DEF MmsInv, MmsData, MmsPhase
  <2>3. QED BY <1>1, <2>1, <2>2 DEF MmsInv, MmsData, mmsShown
<1>3. /\ hw'.bank = hw.bank /\ hw'.rows = hw.rows /\ hw'.frames = hw.frames
      /\ hw'.ovfl = hw.ovfl /\ hw'.turns = hw.turns /\ hw'.request
      /\ hw'.countOvfl = hw.countOvfl /\ hw'.addr = hw.addr
      /\ hw'.stale = hw.stale /\ hw'.switched = hw.switched
  BY <1>1 DEF MmsInv, MmsData
<1>4. /\ mms'.by = mms.by /\ mms'.phase = "wait" /\ mms'.turns = mms.turns
      /\ mms'.rows = mms.rows
  BY <1>1 DEF MmsInv, MmsData
<1>5. ~Served /\ ~Served'
  BY <1>1, <1>3, <1>4 DEF Served
<1>6. CountInv'
  BY <1>1, <1>3, <1>4, <1>5 DEF MmsInv, CountInv
<1>7. RowInv' /\ ReadoutInv'
  BY <1>1, <1>3, <1>4, <1>5 DEF MmsInv, RowInv, ReadoutInv
<1>8. WrittenInv' /\ AccumInv'
  BY <1>1, <1>3 DEF MmsInv, WrittenInv, AccumInv, AllOf
<1>9. MmsTypeOK'
  BY <1>1, <1>3, <1>4 DEF MmsInv, MmsTypeOK, mmsSource, mmsShown
<1>10. QED BY <1>1, <1>2, <1>6, <1>7, <1>8, <1>9, ShownSame DEF MmsInv

LEMMA CountStep ==
  ASSUME MmsInv, ReadCount
  PROVE  MmsInv'
<1>1. /\ mms.phase = "wait" /\ ~hw.request
      /\ mms' = [mms EXCEPT !.phase = "rows", !.turns = TurnsRead,
                            !.ovfl = hw.countOvfl]
      /\ UNCHANGED <<mmsHw, mmsSource, poller, accum, window, mmsShown,
                     restarted>>
  BY DEF ReadCount
<1>2. UNCHANGED <<hw, tap, history>>
  BY <1>1 DEF mmsHw
<1>3. /\ TurnsRead \in Nat /\ TurnsRead \in 0 .. TurnWrap
      /\ hw.countOvfl \in BOOLEAN
  <2>1. hw.turns \in 0 .. TurnWrap - 1
    BY DEF MmsInv, MmsTypeOK
  <2>2. TurnWrap \in Nat
    BY MmsAssumption
  <2>3. hw.countOvfl \in BOOLEAN
    BY DEF MmsInv, MmsData
  <2>4. QED BY <2>1, <2>2, <2>3 DEF TurnsRead
<1>4. mms' \in [by : MmsBy, phase : MmsPhase, turns : Nat, ovfl : BOOLEAN,
                rows : Seq(MmsRow)]
  BY <1>1, <1>3 DEF MmsInv, MmsData, MmsPhase
<1>5. /\ mms'.by = mms.by /\ mms'.phase = "rows" /\ mms'.turns = TurnsRead
      /\ mms'.ovfl = hw.countOvfl /\ mms'.rows = <<>>
  BY <1>1 DEF MmsInv, MmsData, RowInv
<1>6. Served /\ Served'
  BY <1>1, <1>5 DEF Served
<1>7. MmsData'
  BY <1>1, <1>2, <1>4 DEF MmsInv, MmsData, mmsShown
<1>8. CountInv'
  BY <1>1, <1>2, <1>5, <1>6 DEF MmsInv, CountInv
<1>9. RowInv'
  <2>1. hw.addr = 0 /\ mms.by \in {"init", "poll", "scan"}
    BY <1>1 DEF MmsInv, RowInv
  <2>2. MmsBunches \in Nat /\ 0 < MmsBunches /\ 0 % MmsBunches = 0
    BY MmsAssumption, Wrapped
  <2>3. QED BY <1>1, <1>2, <1>5, <2>1, <2>2 DEF RowInv, TurnsRead
<1>10. WrittenInv' /\ AccumInv'
  BY <1>1, <1>2 DEF MmsInv, WrittenInv, AccumInv, AllOf
<1>11. ReadoutInv'
  <2>1. \A i \in MmsBunch : RowToRead(i)' = RowToRead(i)
    <3>1. mms.rows = <<>>
      BY <1>1 DEF MmsInv, RowInv
    <3>2. QED BY <1>2, <1>5, <3>1 DEF RowToRead
  <2>2. QED BY <1>1, <1>2, <1>6, <2>1 DEF MmsInv, ReadoutInv, AllOf
<1>12. MmsTypeOK'
  BY <1>1, <1>2, <1>3, <1>5 DEF MmsInv, MmsTypeOK, mmsSource, mmsShown
<1>13. QED BY <1>1, <1>7, <1>8, <1>9, <1>10, <1>11, <1>12, ShownSame DEF MmsInv

LEMMA RowStep ==
  ASSUME MmsInv, ReadRow
  PROVE  MmsInv'
<1> DEFINE b == 1 - hw.bank
           n == Len(mms.rows)
           row == hw.rows[b][hw.addr]
<1>1. /\ mms.phase = "rows" /\ n < MmsBunches
      /\ mms' = [mms EXCEPT !.rows = Append(mms.rows, row)]
      /\ hw' = [hw EXCEPT !.rows[b][hw.addr] = ResetRow,
                          !.addr = (hw.addr + 1) % MmsBunches]
      /\ UNCHANGED <<tap, history, mmsSource, poller, accum, window, mmsShown,
                     restarted>>
  BY DEF ReadRow
<1>2. /\ hw.bank \in MmsBank /\ b \in MmsBank /\ b # hw.bank
      /\ hw.rows \in [MmsBank -> MmsRows] /\ hw.addr \in MmsBunch
      /\ mms.rows \in Seq(MmsRow) /\ n \in Nat
  <2>1. hw.bank \in MmsBank /\ hw.rows \in [MmsBank -> MmsRows]
        /\ hw.addr \in MmsBunch
    BY DEF MmsInv, MmsData
  <2>2. mms.rows \in Seq(MmsRow) /\ n \in Nat
    BY DEF MmsInv, MmsData
  <2>3. QED BY <2>1, <2>2 DEF MmsBank
<1>3. hw.addr = n /\ n \in MmsBunch /\ ~hw.request
  <2>1. hw.addr = n % MmsBunches /\ ~hw.request
    BY <1>1 DEF MmsInv, RowInv
  <2>2. n % MmsBunches = n
    BY <1>1, <1>2, MmsAssumption, Wrapped
  <2>3. QED BY <1>2, <2>1, <2>2
<1>4. row \in MmsRow /\ ResetRow \in MmsRow
      /\ (hw.addr + 1) % MmsBunches \in MmsBunch
  <2>1. row \in MmsRow
    BY <1>2 DEF MmsRows
  <2>2. ResetRow \in MmsRow
    BY DEF ResetRow, MmsRow, High, Low
  <2>3. (n + 1) % MmsBunches \in MmsBunch
    BY <1>2, WrapsToBunch
  <2>4. QED BY <1>3, <2>1, <2>2, <2>3
<1>5. /\ hw'.bank = hw.bank /\ hw'.frames = hw.frames /\ hw'.ovfl = hw.ovfl
      /\ hw'.turns = hw.turns /\ hw'.request = hw.request
      /\ hw'.countOvfl = hw.countOvfl /\ hw'.addr = (n + 1) % MmsBunches
      /\ hw'.stale = hw.stale /\ hw'.switched = hw.switched
      /\ hw'.rows = [hw.rows EXCEPT ![b][n] = ResetRow]
  BY <1>1, <1>3 DEF MmsInv, MmsData
<1>6. /\ hw'.rows \in [MmsBank -> MmsRows]
      /\ hw'.rows[hw.bank] = hw.rows[hw.bank]
      /\ \A i \in MmsBunch : i # n => hw'.rows[b][i] = hw.rows[b][i]
  <2>1. [hw.rows[b] EXCEPT ![n] = ResetRow] \in MmsRows
    BY <1>2, <1>4 DEF MmsRows
  <2>2. hw'.rows = [hw.rows EXCEPT ![b] = [hw.rows[b] EXCEPT ![n] = ResetRow]]
    BY <1>5
  <2>3. hw.rows[b] \in MmsRows
    BY <1>2
  <2>4. \A i \in MmsBunch : i # n =>
          [hw.rows[b] EXCEPT ![n] = ResetRow][i] = hw.rows[b][i]
    BY <2>3 DEF MmsRows
  <2>5. hw'.rows[b] = [hw.rows[b] EXCEPT ![n] = ResetRow]
    BY <1>2, <2>2
  <2>6. QED BY <1>2, <2>1, <2>2, <2>4, <2>5
<1>7. /\ mms'.by = mms.by /\ mms'.phase = "rows" /\ mms'.turns = mms.turns
      /\ mms'.ovfl = mms.ovfl /\ mms'.rows = Append(mms.rows, row)
  BY <1>1 DEF MmsInv, MmsData
<1>8. /\ mms'.rows \in Seq(MmsRow) /\ Len(mms'.rows) = n + 1
      /\ mms'.rows[n + 1] = row
      /\ \A k \in 1 .. n : mms'.rows[k] = mms.rows[k]
  BY <1>2, <1>4, <1>7
<1>9. MmsData'
  <2>1. hw' = [bank |-> hw'.bank, rows |-> hw'.rows, frames |-> hw'.frames,
               ovfl |-> hw'.ovfl, request |-> hw'.request,
               turns |-> hw'.turns, countOvfl |-> hw'.countOvfl,
               addr |-> hw'.addr, stale |-> hw'.stale,
               switched |-> hw'.switched]
    BY <1>1 DEF MmsInv, MmsData
  <2>2. hw' \in [bank : MmsBank, rows : [MmsBank -> MmsRows], frames : Nat,
                 ovfl : BOOLEAN, request : BOOLEAN, turns : Nat,
                 countOvfl : BOOLEAN, addr : MmsBunch, stale : SUBSET MmsBank,
                 switched : Nat]
    <3>1. /\ hw.frames \in Nat /\ hw.ovfl \in BOOLEAN /\ hw.request \in BOOLEAN
          /\ hw.turns \in Nat /\ hw.countOvfl \in BOOLEAN
          /\ hw.stale \in SUBSET MmsBank /\ hw.switched \in Nat
      BY DEF MmsInv, MmsData
    <3>2. QED BY <1>2, <1>3, <1>4, <1>5, <1>6, <2>1, <3>1
  <2>3. mms' \in [by : MmsBy, phase : MmsPhase, turns : Nat, ovfl : BOOLEAN,
                  rows : Seq(MmsRow)]
    <3>1. mms \in [by : MmsBy, phase : MmsPhase, turns : Nat, ovfl : BOOLEAN,
                   rows : Seq(MmsRow)]
      BY DEF MmsInv, MmsData
    <3>2. QED BY <1>1, <1>7, <1>8, <3>1
  <2>4. QED BY <1>1, <2>2, <2>3 DEF MmsInv, MmsData, mmsShown
<1>10. Served /\ Served'
  BY <1>1, <1>7 DEF Served
<1>11. CountInv'
  BY <1>1, <1>5, <1>7, <1>10 DEF MmsInv, CountInv
<1>12. RowInv'
  <2>1. n + 1 <= MmsBunches
    BY <1>1, <1>2, MmsAssumption
  <2>2. QED BY <1>1, <1>3, <1>5, <1>7, <1>8, <2>1 DEF MmsInv, RowInv
<1>13. WrittenInv' /\ AccumInv'
  BY <1>1, <1>5, <1>6 DEF MmsInv, WrittenInv, AccumInv, AllOf
<1>14. ASSUME NEW i \in MmsBunch
       PROVE  RowToRead(i)' = RowToRead(i)
  <2>1. RowToRead(i)' = IF i < n + 1 THEN mms'.rows[i + 1] ELSE hw'.rows[b][i]
    BY <1>5, <1>8 DEF RowToRead
  <2>2. RowToRead(i) = IF i < n THEN mms.rows[i + 1] ELSE hw.rows[b][i]
    BY DEF RowToRead
  <2>3. i \in Nat
    BY MmsAssumption DEF MmsBunch
  <2>4. CASE i < n
    <3>1. i + 1 \in 1 .. n /\ i < n + 1
      BY <1>2, <2>3, <2>4
    <3>2. QED BY <1>8, <2>1, <2>2, <2>4, <3>1
  <2>5. CASE i = n
    BY <1>2, <1>3, <1>8, <2>1, <2>2, <2>5
  <2>6. CASE n < i
    <3>1. ~(i < n + 1) /\ ~(i < n) /\ i # n
      BY <1>2, <2>3, <2>6
    <3>2. QED BY <1>6, <2>1, <2>2, <3>1
  <2>7. QED BY <1>2, <2>3, <2>4, <2>5, <2>6
<1>15. ReadoutInv'
  BY <1>1, <1>5, <1>10, <1>14 DEF MmsInv, ReadoutInv, AllOf
<1>16. MmsTypeOK'
  BY <1>1, <1>3, <1>4, <1>5, <1>7 DEF MmsInv, MmsTypeOK, mmsSource, mmsShown
<1>17. QED BY <1>1, <1>9, <1>11, <1>12, <1>13, <1>15, <1>16, ShownSame DEF MmsInv

\* What a call that has read all the rows leaves of the readout.
LEMMA DoneStep ==
  ASSUME MmsInv, RowsRead
  PROVE  /\ mms.by \in {"init", "poll", "scan"} /\ Len(mms.rows) = MmsBunches
         /\ Served /\ mms.phase = "rows" /\ ~hw.request
         /\ UNCHANGED <<hw, tap, history, mmsSource, poller, archived, reading,
                        restarted>>
         /\ RowInv' /\ WrittenInv' /\ ReadoutInv' /\ ~Served'
         /\ mms' \in [by : MmsBy, phase : MmsPhase, turns : Nat,
                      ovfl : BOOLEAN, rows : Seq(MmsRow)]
         /\ mms' = NoMms
         /\ window' = NextWindow \/ window' = Widened
<1>1. /\ mms.phase = "rows" /\ Len(mms.rows) = MmsBunches /\ mms' = NoMms
      /\ UNCHANGED <<mmsHw, mmsSource, poller, archived, reading, restarted>>
  BY DEF RowsRead
<1>2. UNCHANGED <<hw, tap, history>>
  BY <1>1 DEF mmsHw
<1>3. mms.by \in {"init", "poll", "scan"} /\ ~hw.request
  BY <1>1 DEF MmsInv, RowInv
<1>4. /\ mms'.phase = "none" /\ mms'.rows = <<>> /\ mms'.turns = 0
      /\ mms'.by = "none"
  BY <1>1 DEF NoMms
<1>5. Served /\ ~Served'
  BY <1>1, <1>4 DEF Served
<1>6. RowInv' /\ ReadoutInv'
  BY <1>4, <1>5 DEF RowInv, ReadoutInv
<1>7. WrittenInv'
  BY <1>2 DEF MmsInv, WrittenInv, AllOf
<1>8. <<>> \in Seq(MmsRow) /\ 0 \in Nat
  OBVIOUS
<1>9. mms' \in [by : MmsBy, phase : MmsPhase, turns : Nat, ovfl : BOOLEAN,
                rows : Seq(MmsRow)]
  BY <1>1, <1>8 DEF NoMms, MmsBy, MmsPhase
<1>10. window' = NextWindow \/ window' = Widened
  BY <1>3 DEF RowsRead
<1>11. QED BY <1>1, <1>2, <1>3, <1>5, <1>6, <1>7, <1>9, <1>10

LEMMA WindowStep ==
  ASSUME MmsInv, RowsRead
  PROVE  /\ window' \in [first : Nat \ {0}, last : Nat, doubt : BOOLEAN,
                         stale : BOOLEAN]
         /\ window'.last = hw.switched
         /\ ~window'.doubt => window'.first <= window'.last + 1
         /\ CountInv' /\ MmsTypeOK'
<1>1. /\ hw.switched \in Nat /\ Len(history) \in Nat /\ hw.frames \in Nat
      /\ hw.switched <= Len(history)
  <2>1. hw.switched \in Nat /\ hw.frames \in Nat
    BY DEF MmsInv, MmsData
  <2>2. Len(history) \in Nat
    BY DEF MmsInv, MmsData
  <2>3. hw.switched + hw.frames = Len(history)
    BY DEF MmsInv, CountInv
  <2>4. QED BY <2>1, <2>2, <2>3
<1>2. /\ window' \in [first : Nat \ {0}, last : Nat, doubt : BOOLEAN,
                      stale : BOOLEAN]
      /\ window'.last = hw.switched
      /\ ~window'.doubt => window'.first <= window'.last + 1
  <2>1. CASE window' = NextWindow
    <3>1. hw.switched + 1 \in Nat \ {0}
      BY <1>1
    <3>2. QED BY <1>1, <2>1, <3>1 DEF NextWindow
  <2>2. CASE window' = Widened
    <3>1. /\ window \in [first : Nat \ {0}, last : Nat, doubt : BOOLEAN,
                         stale : BOOLEAN]
          /\ mms.ovfl \in BOOLEAN
      BY DEF MmsInv, MmsData
    <3>2. /\ Widened.first = window.first /\ Widened.last = hw.switched
          /\ Widened.doubt = (window.doubt \/ mms.ovfl
                 \/ \E k \in window.last + 1 .. hw.switched :
                      history[k] # offset)
          /\ Widened.stale = (window.stale \/ 1 - hw.bank \in hw.stale)
      BY <3>1 DEF Widened
    <3>3. Widened \in [first : Nat \ {0}, last : Nat, doubt : BOOLEAN,
                       stale : BOOLEAN]
      <4> DEFINE d == window.doubt \/ mms.ovfl
                        \/ \E k \in window.last + 1 .. hw.switched :
                             history[k] # offset
                 t == window.stale \/ 1 - hw.bank \in hw.stale
      <4>1. Widened = [window EXCEPT !.last = hw.switched, !.doubt = d,
                                     !.stale = t]
        BY DEF Widened
      <4>2. d \in BOOLEAN /\ t \in BOOLEAN
        OBVIOUS
      <4> HIDE DEF d, t
      <4>3. QED BY <1>1, <3>1, <4>1, <4>2
    <3>4. ~window.doubt =>
            window.first <= window.last + 1 /\ window.last <= hw.switched
      BY DEF MmsInv, CountInv
    <3>5. ~window.doubt => window.first <= hw.switched + 1
      BY <1>1, <3>1, <3>4
    <3>6. QED BY <2>2, <3>2, <3>3, <3>5
  <2>3. QED BY <2>1, <2>2, DoneStep
<1>3. UNCHANGED <<hw, tap, history, mmsSource, poller, reading>> /\ ~Served'
      /\ ~hw.request /\ mms' = NoMms
  BY DoneStep
<1>4. CountInv'
  BY <1>1, <1>2, <1>3 DEF MmsInv, CountInv
<1>5. MmsTypeOK'
  <2>1. /\ mms'.phase = "none" /\ mms'.by = "none" /\ mms'.turns = 0
        /\ 0 \in 0 .. TurnWrap
    BY <1>3, MmsAssumption DEF NoMms
  <2>2. QED BY <1>1, <1>2, <1>3, <2>1 DEF MmsInv, MmsTypeOK, mmsSource
<1>6. QED BY <1>2, <1>4, <1>5

LEMMA NothingAccumulated ==
  ASSUME MmsData, accum' = NoAccum, window' = NextWindow
  PROVE  accum' \in [turns : Int, row : MmsRows] /\ AccumInv'
<1>1. hw.switched \in Nat
  BY DEF MmsData
<1>2. hw.switched + 1 \in Nat \ {0} /\ hw.switched < hw.switched + 1
      /\ hw.switched - (hw.switched + 1) + 1 = 0
  BY <1>1
<1>3. ResetRow \in MmsRow
  BY DEF ResetRow, MmsRow, High, Low
<1>4. All(ResetRow) \in MmsRows
  BY <1>3 DEF All, MmsRows
<1>5. accum' \in [turns : Int, row : MmsRows]
  BY <1>4 DEF NoAccum
<1>6. ASSUME NEW j \in MmsBunch
      PROVE  /\ accum'.row[j] = ResetRow
             /\ RowIs(ResetRow, hw.switched + 1, hw.switched, j)
  BY <1>1, <1>2, EmptyRow DEF NoAccum, All
<1>7. accum'.turns = 0 /\ window'.first = hw.switched + 1
      /\ window'.last = hw.switched
  BY DEF NoAccum, NextWindow
<1>8. QED BY <1>2, <1>5, <1>6, <1>7 DEF AccumInv

LEMMA RowsStep ==
  ASSUME MmsInv, RowsRead
  PROVE  MmsInv'
<1>1. /\ mms.by \in {"init", "poll", "scan"} /\ Len(mms.rows) = MmsBunches
      /\ mms.phase = "rows"
      /\ UNCHANGED <<hw, tap, history, mmsSource, poller, archived, reading,
                     restarted>>
      /\ RowInv' /\ WrittenInv' /\ ReadoutInv'
      /\ mms' \in [by : MmsBy, phase : MmsPhase, turns : Nat,
                   ovfl : BOOLEAN, rows : Seq(MmsRow)]
  BY DoneStep
<1>2. /\ window' \in [first : Nat \ {0}, last : Nat, doubt : BOOLEAN,
                      stale : BOOLEAN]
      /\ window'.last = hw.switched
      /\ CountInv' /\ MmsTypeOK'
  BY WindowStep
<1>3. MmsData /\ MmsTypeOK /\ CountInv /\ RowInv /\ ReadoutInv /\ AccumInv
  BY DEF MmsInv
<1>4. Accumulated \in [turns : Int, row : MmsRows]
  BY <1>1, <1>3, AccumulatedIs
<1>5. /\ hw' \in [bank : MmsBank, rows : [MmsBank -> MmsRows], frames : Nat,
                  ovfl : BOOLEAN, request : BOOLEAN, turns : Nat,
                  countOvfl : BOOLEAN, addr : MmsBunch,
                  stale : SUBSET MmsBank, switched : Nat]
      /\ history' \in Seq(TapSource)
  BY <1>1 DEF MmsInv, MmsData
<1>6. CASE mms.by = "init"
  <2>1. /\ accum' = NoAccum /\ window' = NextWindow
        /\ UNCHANGED <<shown, variance, scans>>
    BY <1>6 DEF RowsRead
  <2>2. accum' \in [turns : Int, row : MmsRows] /\ AccumInv'
    BY <1>3, <2>1, NothingAccumulated
  <2>3. MmsData'
    BY <1>1, <1>2, <1>5, <2>1, <2>2 DEF MmsInv, MmsData
  <2>4. UNCHANGED mmsShown
    BY <1>1, <2>1 DEF mmsShown
  <2>5. QED BY <1>1, <1>2, <2>2, <2>3, <2>4, ShownSame DEF MmsInv
<1>7. CASE mms.by = "poll"
  <2>1. /\ accum' = Accumulated /\ window' = Widened
        /\ UNCHANGED <<shown, variance, scans>>
    BY <1>7 DEF RowsRead
  <2>2. AccumInv'
    <3>1. Widened.first = window.first /\ Widened.last = hw.switched
      BY DEF Widened, MmsInv, MmsData
    <3>2. ~Widened.doubt /\ ~Widened.stale =>
            /\ Accumulated.turns = hw.switched - window.first + 1
            /\ \A j \in MmsBunch :
                 RowIs(Accumulated.row[j], window.first, hw.switched, j)
      BY <1>1, <1>3, AccumulatedExact
    <3>3. QED BY <2>1, <3>1, <3>2 DEF AccumInv
  <2>3. MmsData'
    BY <1>1, <1>2, <1>4, <1>5, <2>1 DEF MmsInv, MmsData
  <2>4. UNCHANGED mmsShown
    BY <1>1, <2>1 DEF mmsShown
  <2>5. QED BY <1>1, <1>2, <2>2, <2>3, <2>4, ShownSame DEF MmsInv
<1>8. CASE mms.by = "scan"
  <2> DEFINE v == Spread(Accumulated)
  <2>1. /\ shown' = [turns |-> Accumulated.turns, row |-> Accumulated.row,
                     window |-> Widened]
        /\ variance' = AddVariance(v) /\ scans' = Append(scans, v)
        /\ accum' = NoAccum /\ window' = NextWindow
    BY <1>8 DEF RowsRead
  <2>2. v \in OfBunches
    BY <1>4, SpreadIs
  <2> HIDE DEF v
  <2>3. accum' \in [turns : Int, row : MmsRows] /\ AccumInv'
    BY <1>3, <2>1, NothingAccumulated
  <2>4. variance' \in [count : Nat, sum : OfBunches, min : OfBunches,
                       max : OfBunches]
    BY <1>3, <2>1, <2>2, AddVarianceIs
  <2>5. scans' \in Seq(OfBunches)
    BY <1>3, <2>1, <2>2 DEF MmsData
  <2>6. MmsData'
    BY <1>1, <1>2, <1>5, <2>3, <2>4, <2>5 DEF MmsData
  <2>7. VarianceInv'
    <3>1. VarianceIs(variance, scans, archived.order)
      BY DEF MmsInv, VarianceInv
    <3>2. VarianceIs(AddVariance(v), Append(scans, v), archived.order)
      BY <1>3, <2>2, <3>1, VarianceAdded
    <3>3. QED BY <1>1, <2>1, <3>2 DEF VarianceInv
  <2>8. PublishedExact'
    <3>1. ~Widened.doubt /\ ~Widened.stale =>
            /\ Accumulated.turns = Cardinality(Turns(Widened))
            /\ \A j \in MmsBunch : Accumulated.row[j] = RowOf(Widened, j)
      BY <1>1, <1>3, ScanIsExact
    <3>2. /\ shown'.turns = Accumulated.turns /\ shown'.row = Accumulated.row
          /\ shown'.window = Widened
      BY <2>1
    <3>3. QED BY <3>1, <3>2 DEF PublishedExact, Exact
  <2>9. ArchiveExact'
    <3>1. ArchiveExact /\ archived' = archived
      BY <1>1 DEF MmsInv
    <3>2. QED BY <3>1 DEF ArchiveExact
  <2>10. QED
    BY <1>1, <1>2, <2>3, <2>6, <2>7, <2>8, <2>9 DEF MmsInv
<1>9. QED BY <1>1, <1>6, <1>7, <1>8

\* What ArchiveExact says, of an archive.
IsArchive(v, s, order) ==
  s # <<>> =>
    /\ v.count = Len(s)
    /\ \A j \in MmsBunch :
         /\ v.sum[j] = SumOver([k \in DOMAIN s |-> s[k][j]], 1, Len(s))
         /\ v.max[j] = Max({Std(s[k][j]) : k \in DOMAIN s})
         /\ order # "first" => v.min[j] = Min({Std(s[k][j]) : k \in DOMAIN s})

LEMMA ArchiveStep ==
  ASSUME MmsInv, UpdateArchive
  PROVE  MmsInv'
<1> DEFINE order == IF archived.order = "none" THEN "first" ELSE "later"
<1>1. /\ mms.phase = "archive" /\ mms' = NoMms
      /\ archived' = [value |-> variance, scans |-> scans, order |-> order]
      /\ variance' = [count |-> 0, sum |-> All(0), min |-> All(NoStd),
                      max |-> All(NoStd)]
      /\ scans' = <<>> /\ reading' = TRUE
      /\ UNCHANGED <<mmsHw, mmsSource, poller, accum, window, shown, restarted>>
  BY DEF UpdateArchive
<1>2. UNCHANGED <<hw, tap, history>>
  BY <1>1 DEF mmsHw
<1>3. /\ mms' \in [by : MmsBy, phase : {"none", "ask", "archive"},
                   turns : {0}, ovfl : {FALSE}, rows : {<<>>}]
      /\ mms'.phase = "none" /\ mms'.by = "none"
  BY <1>1 DEF NoMms, MmsBy
<1>4. /\ mms' \in [by : MmsBy, phase : MmsPhase, turns : Nat,
                   ovfl : BOOLEAN, rows : Seq(MmsRow)]
      /\ CountInv' /\ RowInv' /\ WrittenInv' /\ ReadoutInv' /\ AccumInv'
      /\ mms'.turns \in 0 .. TurnWrap
  BY <1>1, <1>2, <1>3, MutexStep
<1>5. variance' \in [count : Nat, sum : OfBunches, min : OfBunches,
                     max : OfBunches]
  <2>1. All(0) \in OfBunches /\ All(NoStd) \in OfBunches
    BY DEF All, OfBunches, NoStd
  <2>2. QED BY <1>1, <2>1
<1>6. scans' \in Seq(OfBunches)
  BY <1>1
<1>7. MmsData'
  BY <1>1, <1>2, <1>4, <1>5, <1>6 DEF MmsInv, MmsData
<1>8. MmsTypeOK'
  BY <1>1, <1>2, <1>3, <1>4 DEF MmsInv, MmsTypeOK, mmsSource
<1>9. VarianceInv'
  <2>1. /\ variance'.count = 0 /\ variance'.sum = All(0)
        /\ variance'.max = All(NoStd) /\ variance'.min = All(NoStd)
    BY <1>1
  <2>2. VarianceIs(variance', <<>>, archived'.order)
    BY <2>1, NoneScanned
  <2>3. QED BY <1>1, <2>2 DEF VarianceInv
<1>10. PublishedExact'
  BY <1>1 DEF MmsInv, PublishedExact, Exact
<1>11. ArchiveExact'
  <2>1. MmsData /\ VarianceIs(variance, scans, archived.order)
    BY DEF MmsInv, VarianceInv
  <2>2. order # "first" => archived.order # "none"
    OBVIOUS
  <2>3. /\ archived'.value = variance /\ archived'.scans = scans
        /\ archived'.order = order
    BY <1>1
  <2> HIDE DEF order
  <2>4. ASSUME scans # <<>>, NEW j \in MmsBunch
        PROVE  /\ variance.max[j] =
                    Max({Std(scans[k][j]) : k \in DOMAIN scans})
               /\ order # "first" => variance.min[j] =
                    Min({Std(scans[k][j]) : k \in DOMAIN scans})
    BY <2>1, <2>2, <2>4, ArchiveIs
  <2>5. /\ variance.count = Len(scans)
        /\ \A j \in MmsBunch : variance.sum[j] =
             SumOver([k \in DOMAIN scans |-> scans[k][j]], 1, Len(scans))
    BY <2>1 DEF VarianceIs
  <2>6. IsArchive(variance, scans, order)
    BY <2>4, <2>5 DEF IsArchive
  <2>7. IsArchive(archived'.value, archived'.scans, archived'.order)
    BY <2>3, <2>6
  <2>8. QED BY <2>7 DEF ArchiveExact, IsArchive
<1>12. QED BY <1>4, <1>7, <1>8, <1>9, <1>10, <1>11 DEF MmsInv

LEMMA RestartStep ==
  ASSUME MmsInv, RestartIoc
  PROVE  MmsInv'
<1>1. /\ poller' = "start" /\ mms' = NoMms /\ accum' = Accum0
      /\ variance' = NoVariance /\ shown' = Shown0 /\ archived' = Archived0
      /\ reading' = FALSE /\ window' = NoWindow /\ scans' = <<>>
      /\ offset' = tap /\ choice' = {} /\ UNCHANGED <<hw, tap, history>>
  BY DEF RestartIoc, mmsHw
<1>2. All(ZeroRow) \in MmsRows /\ All(0) \in OfBunches
  BY DEF All, ZeroRow, MmsRows, MmsRow, OfBunches
<1>3. MmsData'
  <2>1. mms' \in [by : MmsBy, phase : MmsPhase, turns : Nat, ovfl : BOOLEAN,
                  rows : Seq(MmsRow)]
    <3>1. <<>> \in Seq(MmsRow)
      OBVIOUS
    <3>2. QED BY <1>1, <3>1 DEF NoMms, MmsBy, MmsPhase
  <2>2. accum' \in [turns : Int, row : MmsRows]
    BY <1>1, <1>2 DEF Accum0
  <2>3. window' \in [first : Nat \ {0}, last : Nat, doubt : BOOLEAN,
                     stale : BOOLEAN]
    BY <1>1 DEF NoWindow
  <2>4. variance' \in [count : Nat, sum : OfBunches, min : OfBunches,
                       max : OfBunches]
    BY <1>1, <1>2 DEF NoVariance
  <2>5. scans' \in Seq(OfBunches)
    BY <1>1
  <2>6. QED BY <1>1, <2>1, <2>2, <2>3, <2>4, <2>5 DEF MmsInv, MmsData
<1>4. mms'.phase = "none" /\ mms'.by = "none" /\ mms'.rows = <<>>
      /\ mms'.turns = 0 /\ 0 \in 0 .. TurnWrap
  BY <1>1, MmsAssumption DEF NoMms
<1>5. window'.doubt /\ window'.last = 0
  BY <1>1 DEF NoWindow
<1>6. hw.switched \in Nat
  BY DEF MmsInv, MmsData
<1>7. Len(history) \in Nat
  BY DEF MmsInv, MmsData
<1>8. MmsTypeOK'
  <2>1. /\ hw'.bank \in MmsBank /\ hw'.frames \in 0 .. MaxTurns
        /\ hw'.turns \in 0 .. TurnWrap - 1 /\ hw'.addr \in MmsBunch
        /\ tap' \in TapSource /\ offset' \in TapSource
    BY <1>1 DEF MmsInv, MmsTypeOK
  <2>2. window'.last <= Len(history')
    BY <1>1, <1>5, <1>7
  <2>3. QED BY <1>1, <1>4, <2>1, <2>2 DEF MmsTypeOK
<1>9. CountInv' /\ RowInv'
  BY <1>1, <1>4, <1>5, <1>6 DEF MmsInv, CountInv, RowInv
<1>10. WrittenInv' /\ ReadoutInv' /\ AccumInv'
  BY <1>1, <1>5 DEF MmsInv, WrittenInv, ReadoutInv, AccumInv, AllOf
<1>11. VarianceInv'
  <2>1. VarianceIs(NoVariance, <<>>, "none")
    BY NoneScanned DEF NoVariance
  <2>2. QED BY <1>1, <2>1 DEF VarianceInv, Archived0
<1>12. PublishedExact' /\ ArchiveExact'
  BY <1>1 DEF PublishedExact, ArchiveExact, Shown0, NoWindow, Archived0
<1>13. QED BY <1>3, <1>8, <1>9, <1>10, <1>11, <1>12 DEF MmsInv

\* EPICS has read the archive, or a source is written.
LEMMA OtherStep ==
  ASSUME MmsInv, ReadArchive \/ WriteTap \/ UNCHANGED mmsVars
  PROVE  MmsInv'
<1>1. /\ UNCHANGED <<hw, history, mms, accum, window, shown, archived,
                     variance, scans, poller>>
      /\ tap' \in TapSource /\ offset' \in TapSource
      /\ choice' \subseteq TapSource /\ reading' \in BOOLEAN
  <2>1. CASE ReadArchive
    BY <2>1 DEF MmsInv, MmsTypeOK, ReadArchive, mmsHw, mmsSource
  <2>2. CASE WriteTap
    BY <2>2 DEF MmsInv, MmsTypeOK, WriteTap, mmsShown, TapSource
  <2>3. CASE UNCHANGED mmsVars
    BY <2>3 DEF MmsInv, MmsTypeOK, mmsVars, mmsHw, mmsSource, mmsShown
  <2>4. QED BY <2>1, <2>2, <2>3
<1>2. MmsTypeOK' /\ MmsData'
  BY <1>1 DEF MmsInv, MmsTypeOK, MmsData
<1>3. CountInv' /\ RowInv'
  BY <1>1 DEF MmsInv, CountInv, RowInv, Served
<1>4. WrittenInv' /\ AccumInv'
  BY <1>1 DEF MmsInv, WrittenInv, AccumInv, AllOf
<1>5. ReadoutInv'
  BY <1>1 DEF MmsInv, ReadoutInv, AllOf, Served, RowToRead
<1>6. VarianceInv' /\ PublishedExact' /\ ArchiveExact'
  BY <1>1, ZenonT(60) DEF MmsInv, VarianceInv, VarianceIs, PublishedExact, ArchiveExact,
     Exact
<1>7. QED BY <1>2, <1>3, <1>4, <1>5, <1>6 DEF MmsInv

LEMMA MmsInductive == MmsInv /\ [MmsNext]_mmsVars => MmsInv'
<1> SUFFICES ASSUME MmsInv, [MmsNext]_mmsVars PROVE MmsInv'
  OBVIOUS
<1>1. CASE Turn
  BY <1>1, TurnStep
<1>2. CASE PollMms
  BY <1>2, PollStep
<1>3. CASE ScanMms
  BY <1>3, ScanStep
<1>4. CASE AskCount
  BY <1>4, AskStep
<1>5. CASE ReadCount
  BY <1>5, CountStep
<1>6. CASE ReadRow
  BY <1>6, RowStep
<1>7. CASE RowsRead
  BY <1>7, RowsStep
<1>8. CASE UpdateArchive
  BY <1>8, ArchiveStep
<1>9. CASE RestartIoc
  BY <1>9, RestartStep
<1>10. CASE ReadArchive \/ WriteTap \/ UNCHANGED mmsVars
  BY <1>10, OtherStep
<1>11. QED
  BY <1>1, <1>2, <1>3, <1>4, <1>5, <1>6, <1>7, <1>8, <1>9, <1>10 DEF MmsNext

LEMMA ArchiveLeftAlone == [MmsNext]_mmsVars => ArchiveKept
<1> SUFFICES ASSUME [MmsNext]_mmsVars, reading, reading',
                    restarted' = restarted, archived' # archived
    PROVE FALSE
  BY DEF ArchiveKept
<1>1. CASE Turn \/ PollMms \/ ScanMms \/ AskCount \/ ReadCount \/ ReadRow
  BY <1>1 DEF Turn, PollMms, ScanMms, TakeMms, AskCount, ReadCount, ReadRow,
     mmsShown
<1>2. CASE RowsRead
  BY <1>2 DEF RowsRead
<1>3. CASE UpdateArchive
  BY <1>3 DEF UpdateArchive, ArchiveIdle
<1>4. CASE ReadArchive \/ WriteTap
  BY <1>4 DEF ReadArchive, WriteTap, mmsShown
<1>5. CASE RestartIoc
  BY <1>5 DEF RestartIoc
<1>6. CASE UNCHANGED mmsVars
  BY <1>6 DEF mmsVars, mmsShown
<1>7. QED BY <1>1, <1>2, <1>3, <1>4, <1>5, <1>6 DEF MmsNext

\* The state of the readout has its types: the count that is read fits its
\* register and the window never ends after the turns gone by (mms.c,
\* min_max_sum_bank.vhd).
THEOREM MmsTypeCorrect == MmsSpec => []MmsTypeOK
<1>1. MmsInv => MmsTypeOK
  BY DEF MmsInv
<1>2. QED BY <1>1, MmsInitial, MmsInductive, PTL DEF MmsSpec

\* SCAN publishes the minimum, maximum, sum and sum of squares of the turns it
\* claims, each turn once and each bunch in its place; an archive sums up all
\* that SCAN has published since the last one, and is left alone while EPICS
\* reads it: for any samples, any number of bunches and turns and any width of
\* the count of turns (mms.c, min_max_sum_bank.vhd).
THEOREM StatisticsAreCorrect == MmsSpec => StatisticsCorrect
<1>1. MmsInv /\ [MmsNext]_mmsVars =>
        [PublishedExact' /\ ArchiveExact' /\ ArchiveKept]_mmsVars
  <2> SUFFICES ASSUME MmsInv, [MmsNext]_mmsVars
      PROVE PublishedExact' /\ ArchiveExact' /\ ArchiveKept
    OBVIOUS
  <2>1. PublishedExact' /\ ArchiveExact'
    BY MmsInductive DEF MmsInv
  <2>2. QED BY <2>1, ArchiveLeftAlone
<1>2. QED
  BY <1>1, MmsInitial, MmsInductive, PTL DEF MmsSpec, StatisticsCorrect

-----------------------------------------------------------------------------
(***************************************************************************)
(* What records share, see MCRecords.                                      *)
(***************************************************************************)
\* A behaviour of all the parts is one of each: registers, banks, texts,
\* statistics, converters and filters keep their types (hardware.c,
\* bunch_select.c, mms.c, adc.c and dac.c, bunch_fir.c).
THEOREM RecordTypesCorrect == MCSpec => []TypesOK
<1>1. MCSpec => RegSpec
  <2>1. MCInit => RegInit
    BY DEF MCInit
  <2>2. [MCNext]_mcVars => [RegNext]_regVars
    BY DEF MCNext, MCRegisters, MCBanks, MCText, MCMms, MCConverter, MCFir,
       mcVars
  <2>3. QED BY <2>1, <2>2, PTL DEF MCSpec, RegSpec
<1>2. MCSpec => BankSpec
  <2>1. MCInit => BankInit
    BY DEF MCInit
  <2>2. [MCNext]_mcVars => [BankNext]_bankVars
    BY DEF MCNext, MCRegisters, MCBanks, MCText, MCMms, MCConverter, MCFir,
       mcVars
  <2>3. QED BY <2>1, <2>2, PTL DEF MCSpec, BankSpec
<1>3. MCSpec => TextSpec
  <2>1. MCInit => TextInit
    BY DEF MCInit
  <2>2. [MCNext]_mcVars => [TextNext]_textVars
    BY DEF MCNext, MCRegisters, MCBanks, MCText, MCMms, MCConverter, MCFir,
       mcVars
  <2>3. QED BY <2>1, <2>2, PTL DEF MCSpec, TextSpec
<1>4. MCSpec => MmsSpec
  <2>1. MCInit => MmsInit
    BY DEF MCInit
  <2>2. [MCNext]_mcVars => [MmsNext]_mmsVars
    BY DEF MCNext, MCRegisters, MCBanks, MCText, MCMms, MCConverter, MCFir,
       mcVars
  <2>3. QED BY <2>1, <2>2, PTL DEF MCSpec, MmsSpec
<1>5. MCSpec => ConverterSpec
  <2>1. MCInit => ConverterInit
    BY DEF MCInit
  <2>2. [MCNext]_mcVars => [ConverterNext]_converterVars
    BY DEF MCNext, MCRegisters, MCBanks, MCText, MCMms, MCConverter, MCFir,
       mcVars
  <2>3. QED BY <2>1, <2>2, PTL DEF MCSpec, ConverterSpec
<1>6. MCSpec => FirSpec
  <2>1. MCInit => FirInit
    BY DEF MCInit
  <2>2. [MCNext]_mcVars => [FirNext]_firVars
    BY DEF MCNext, MCRegisters, MCBanks, MCText, MCMms, MCConverter, MCFir,
       mcVars
  <2>3. QED BY <2>1, <2>2, PTL DEF MCSpec, FirSpec
<1>7. /\ RegTypeOK /\ BankTypeOK /\ TextTypeOK
      /\ MmsTypeOK /\ ConverterTypeOK /\ FirTypeOK
      => TypesOK
  BY DEF TypesOK
<1>8. QED
  BY <1>1, <1>2, <1>3, <1>4, <1>5, <1>6, <1>7, RegTypeCorrect,
     BankTypeCorrect, TextTypeCorrect, MmsTypeCorrect, ConverterTypeCorrect,
     FirTypeCorrect, PTL

=============================================================================
