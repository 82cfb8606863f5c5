------------------------------ MODULE Converter ------------------------------
(***************************************************************************)
(* Records of a converter that share more than a register: epics/src/dac.c *)
(* and, for the sources, adc.c.  MMS_SOURCE and DRAM_SOURCE of an axis are *)
(* two records that nothing links, so that EPICS processes them side by    *)
(* side; either sets the delays of both.  ENABLE of each axis meets the    *)
(* scan that enables the outputs of both, once all has been configured.    *)
(*                                                                         *)
(* Left out: filters, thresholds, the events that the scan reads, and the  *)
(* registers themselves (HwRegisters).                                     *)
(***************************************************************************)
EXTENDS Naturals

CONSTANT MaxSelections   \* bound: writes of sources and of enables

ASSUME ConverterAssumption == MaxSelections \in Nat

VARIABLES
  converter,    \* which of the two files
  selected,     \* mms_source or mms_after_fir, dram_after_fir
  inHardware,   \* the source registers
  delay,        \* what set_mms_offset(), set_memory_dac_offset() have set
  sourceStep,   \* what each source record is doing
  fetched,      \* the delay it is about to set
  replaced,     \* history: the source of that delay has been replaced since
  stale,        \* history: such a delay was the last one set
  enabled,      \* output_enable of each axis
  output,       \* the output bits of the control register
  ticks,        \* output_enable_delay
  scan,         \* the axis that the first tick enables next
  enableStep,   \* what each ENABLE record is doing
  missed,       \* history: ENABLE was written between the two ticks
  selections    \* bound

sourceVars == <<converter, selected, inHardware, delay, sourceStep, fetched,
                replaced, stale>>
enableVars == <<enabled, output, ticks, scan, enableStep, missed>>
converterVars == <<sourceVars, enableVars, selections>>

Kind == {"mms", "dram"}
AxisCount == 2
OutputAxis == 0 .. AxisCount - 1

\* enum adc_output_select, enum dac_mms_source and the bool of DRAM_SOURCE.
SourcesOf(c, k) ==
  IF c = "ADC" THEN {"RAW", "FIR", "REJECT"}
  ELSE {"BEFORE", "AFTER"} \cup (IF k = "mms" THEN {"FEEDBACK"} ELSE {})
AnySource == UNION {SourcesOf(c, k) : c \in {"ADC", "DAC"}, k \in Kind}

\* Each use of each source has a delay of its own in hardware_delays.
DelayOf(k, source) == [of |-> k, source |-> source]
AnyDelay == {DelayOf(k, s) : k \in Kind, s \in AnySource}

ConverterTypeOK ==
  /\ converter \in {"ADC", "DAC"}
  /\ selected \in [Kind -> AnySource] /\ inHardware \in [Kind -> AnySource]
  /\ delay \in [Kind -> AnyDelay] /\ fetched \in [Kind -> AnyDelay]
  /\ sourceStep \in [Kind -> [step : {"idle", "write", "fetch", "set"},
                              delay : Kind]]
  /\ enabled \in [OutputAxis -> BOOLEAN] /\ output \in [OutputAxis -> BOOLEAN]
  /\ ticks \in 0 .. 2 /\ scan \in 0 .. AxisCount
  /\ enableStep \in [OutputAxis -> {"idle", "test", "write"}]
  /\ replaced \in [Kind -> BOOLEAN] /\ stale \in [Kind -> BOOLEAN]
  /\ missed \in [OutputAxis -> BOOLEAN]
  /\ selections \in 0 .. MaxSelections

\* Each record has been processed once with what was saved; outputs are off.
ConverterInit ==
  /\ converter \in {"ADC", "DAC"}
  /\ selected = [k \in Kind |-> IF converter = "ADC" THEN "RAW" ELSE "BEFORE"]
  /\ inHardware = selected
  /\ delay = [k \in Kind |-> DelayOf(k, selected[k])] /\ fetched = delay
  /\ sourceStep = [k \in Kind |-> [step |-> "idle", delay |-> "mms"]]
  /\ enabled \in [OutputAxis -> BOOLEAN]
  /\ output = [a \in OutputAxis |-> FALSE]
  /\ ticks = 2 /\ scan = AxisCount
  /\ enableStep = [a \in OutputAxis |-> "idle"]
  /\ replaced = [k \in Kind |-> FALSE] /\ stale = replaced
  /\ missed = [a \in OutputAxis |-> FALSE]
  /\ selections = 0

-----------------------------------------------------------------------------
(* Sources.                                                                *)

SourceGoes(k, step, d) ==
  sourceStep' = [sourceStep EXCEPT ![k] = [step |-> step, delay |-> d]]

\* A record's own setting is written first.
SelectSource(k) ==
  /\ sourceStep[k].step = "idle" /\ selections < MaxSelections
  /\ \E s \in SourcesOf(converter, k) : selected' = [selected EXCEPT ![k] = s]
  /\ replaced' = [o \in Kind |->
       replaced[o] \/ sourceStep[o] = [step |-> "set", delay |-> k]]
  /\ SourceGoes(k, "write", "mms")
  /\ selections' = selections + 1
  /\ UNCHANGED <<converter, inHardware, delay, fetched, stale, enableVars>>

WriteSourceRegister(k) ==
  /\ sourceStep[k].step = "write"
  /\ inHardware' = [inHardware EXCEPT ![k] = selected[k]]
  /\ SourceGoes(k, "fetch", "mms")
  /\ UNCHANGED <<converter, selected, delay, fetched, replaced, stale,
                 enableVars, selections>>

\* Mutant of FetchDelay: both delays are those of the source just written.
FetchDelayOfOwn(k) ==
  /\ sourceStep[k].step = "fetch"
  /\ LET d == sourceStep[k].delay
     IN  /\ fetched' = [fetched EXCEPT ![k] = DelayOf(d, selected[k])]
         /\ SourceGoes(k, "set", d)
  /\ replaced' = [replaced EXCEPT ![k] = FALSE]
  /\ UNCHANGED <<converter, selected, inHardware, delay, stale, enableVars,
                 selections>>

\* update_delays(): the delay is looked up ...
FetchDelay(k) ==
  /\ sourceStep[k].step = "fetch"
  /\ LET d == sourceStep[k].delay
     IN  /\ fetched' = [fetched EXCEPT ![k] = DelayOf(d, selected[d])]
         /\ SourceGoes(k, "set", d)
  /\ replaced' = [replaced EXCEPT ![k] = FALSE]
  /\ UNCHANGED <<converter, selected, inHardware, delay, stale, enableVars,
                 selections>>

\* ... and then set, that of the statistics before that of the memory.
SetDelay(k) ==
  /\ sourceStep[k].step = "set"
  /\ LET d == sourceStep[k].delay
     IN  /\ delay' = [delay EXCEPT ![d] = fetched[k]]
         /\ stale' = [stale EXCEPT ![d] = replaced[k]]
         /\ SourceGoes(k, IF d = "mms" THEN "fetch" ELSE "idle", "dram")
  /\ UNCHANGED <<converter, selected, inHardware, fetched, replaced, enableVars,
                 selections>>

-----------------------------------------------------------------------------
(* Output enable.                                                          *)

\* write_dac_output_enable()
WriteEnable(a) ==
  /\ enableStep[a] = "idle" /\ selections < MaxSelections
  /\ \E e \in BOOLEAN : enabled' = [enabled EXCEPT ![a] = e]
  /\ enableStep' = [enableStep EXCEPT ![a] = "test"]
  /\ selections' = selections + 1
  /\ UNCHANGED <<sourceVars, output, ticks, scan, missed>>

\* Only after the last tick does a record write the output; what it does not
\* write is left to the first tick, if that is still to come.
TestTicks(a) ==
  /\ enableStep[a] = "test"
  /\ enableStep' =
       [enableStep EXCEPT ![a] = IF ticks = 0 THEN "write" ELSE "idle"]
  /\ missed' = [missed EXCEPT ![a] = ticks = 1 /\ scan > a]
  /\ UNCHANGED <<sourceVars, enabled, output, ticks, scan, selections>>

WriteOutput(a) ==
  /\ enableStep[a] = "write"
  /\ output' = [output EXCEPT ![a] = enabled[a]]
  /\ enableStep' = [enableStep EXCEPT ![a] = "idle"]
  /\ UNCHANGED <<sourceVars, enabled, ticks, scan, missed, selections>>

\* tick_output_enable_delay(), called by every scan of the events
Tick ==
  /\ scan = AxisCount /\ ticks > 0
  /\ ticks' = ticks - 1
  /\ scan' = IF ticks' = 1 THEN 0 ELSE AxisCount
  /\ UNCHANGED <<sourceVars, enabled, output, enableStep, missed, selections>>

TickOutput ==
  /\ scan < AxisCount
  /\ output' = [output EXCEPT ![scan] = enabled[scan]]
  /\ scan' = scan + 1
  /\ UNCHANGED <<sourceVars, enabled, ticks, enableStep, missed, selections>>

ConverterNext ==
  \/ \E k \in Kind :
       SelectSource(k) \/ WriteSourceRegister(k) \/ FetchDelay(k) \/ SetDelay(k)
  \/ \E a \in OutputAxis : WriteEnable(a) \/ TestTicks(a) \/ WriteOutput(a)
  \/ Tick \/ TickOutput

ConverterSpec == ConverterInit /\ [][ConverterNext]_converterVars

-----------------------------------------------------------------------------
(* Properties.                                                             *)

\* When no source is being written, the registers have the sources in use, and
\* a delay is that of the source in use if it was when it was set: the record
\* that replaces a source sets its delay again, however the two meet.  The one
\* delay that is wrong is one that was looked up before the other record
\* replaced its source and set after that one's: it stays until the next
\* write of either source (update_delays).
OffsetsFollow ==
  (\A k \in Kind : sourceStep[k].step = "idle") =>
    /\ inHardware = selected
    /\ \A k \in Kind : ~stale[k] => delay[k] = DelayOf(k, selected[k])

\* Outputs stay off until the first tick; when ENABLE says something after the
\* last one, the output agrees, unless ENABLE was last written between the two
\* and after the first had set that output: it is then as it was until ENABLE
\* is written again (write_dac_output_enable, tick_output_enable_delay).
OutputFollows ==
  /\ ticks = 2 => \A a \in OutputAxis : ~output[a]
  /\ ticks = 0 => \A a \in OutputAxis :
       enableStep[a] = "idle" /\ ~missed[a] => output[a] = enabled[a]

\* Delays and outputs are what the records say (dac.c, adc.c).
ConverterCorrect == OffsetsFollow /\ OutputFollows

=============================================================================
