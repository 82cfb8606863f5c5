---------------------------- MODULE MemoryCapture ----------------------------
(***************************************************************************)
(* The capture to memory as EPICS sees it, epics/src/memory.c: which pair  *)
(* of channels is captured, chosen by any of three records, and the        *)
(* waveforms, which the events thread reads at the end of a capture and    *)
(* the OFFSET record when it is written.  Both read into memory_buffer.    *)
(*                                                                         *)
(* The readout itself is in MemoryRead.  Here a half of memory_buffer is   *)
(* known by the capture and the offset it was read at.                     *)
(***************************************************************************)
EXTENDS Naturals, FiniteSets

CONSTANTS
  SavedEntries,   \* values of SELECT that may have been saved
  ReadoutOffsets, \* readout offsets
  MaxCaptures,    \* bound: captures
  MaxWrites       \* bound: writes of records

ASSUME CaptureAssumption ==
  SavedEntries \subseteq 1 .. 15 /\ MaxCaptures \in Nat /\ MaxWrites \in Nat

VARIABLES
  chanSelection, \* chan_selection
  shownSelect,   \* SEL0 and SEL1 as EPICS shows them
  mux,           \* register: the entry of select_map
  wanted,        \* history: what the records were last asked for
  select,        \* a write of SELECT under way: the entry, and how far
  captured,      \* captures completed, and the mux of the last
  event,         \* its event has been raised and not taken
  origin,        \* trigger_origin: the capture it belongs to
  channelDelays, \* channel_delays: the channels they were taken for
  readoutOffset, \* readout_offset
  readout,       \* readout_memory() in each thread: step, origin, offset
  dram,          \* who reads memory
  memoryBuffer,  \* memory_buffer: what each half holds
  interlock,     \* who shows waveforms, "epics" or "free"
  wave,          \* memory_wf0, memory_wf1 by half: contents, delays
  crossed,       \* history: two readouts, or a readout and a capture, met
  writes         \* bound

selectVars == <<chanSelection, shownSelect, mux, wanted, select>>
captureVars == <<captured, event, origin, channelDelays>>
readVars == <<readout, dram, memoryBuffer, interlock, wave, crossed>>
memVars == <<selectVars, captureVars, readoutOffset, readVars, writes>>

Channel == {"ADC0", "FIR0", "DAC0", "ADC1", "FIR1", "DAC1"}
Thread == {"events", "offset"}
Half == {0, 1}

select_map == <<
  <<"ADC0", "ADC1">>, <<"ADC0", "FIR1">>, <<"ADC0", "DAC1">>,
  <<"ADC0", "FIR0">>, <<"FIR0", "ADC1">>, <<"FIR0", "FIR1">>,
  <<"FIR0", "DAC1">>, <<"FIR0", "DAC0">>, <<"DAC0", "ADC1">>,
  <<"DAC0", "FIR1">>, <<"DAC0", "DAC1">>, <<"ADC0", "DAC0">>,
  <<"ADC1", "FIR1">>, <<"FIR1", "DAC1">>, <<"ADC1", "DAC1">> >>

Entry == DOMAIN select_map
Contents == [origin : 0 .. MaxCaptures, offset : ReadoutOffsets]

CaptureTypeOK ==
  /\ chanSelection \in Channel \X Channel
  /\ shownSelect \in Channel \X Channel
  /\ mux \in Entry /\ wanted \in SUBSET Channel
  /\ select \in [entry : Entry, step : 0 .. 3]
  /\ captured \in [number : 0 .. MaxCaptures, mux : Entry]
  /\ event \in BOOLEAN /\ origin \in 0 .. MaxCaptures
  /\ channelDelays \in Channel \X Channel /\ readoutOffset \in ReadoutOffsets
  /\ readout \in [Thread -> [step : {"idle", "offset", "lock", "first",
                                     "second", "wait", "copy", "copied"},
                             from : Contents]]
  /\ dram \in Thread \cup {"free"}
  /\ memoryBuffer \in [Half -> Contents]
  /\ interlock \in Thread \cup {"epics", "free"}
  /\ wave \in [Half -> [from : Contents, delays : Channel \X Channel]]
  /\ crossed \in BOOLEAN /\ writes \in 0 .. MaxWrites

\* SELECT starts with the value that was saved; what is shown of memory
\* before the first capture does not matter.
CaptureInit ==
  /\ mux \in SavedEntries /\ chanSelection = select_map[mux]
  /\ shownSelect = chanSelection
  /\ wanted = {chanSelection[1], chanSelection[2]}
  /\ select = [entry |-> mux, step |-> 0]
  /\ captured = [number |-> 0, mux |-> mux] /\ event = FALSE /\ origin = 0
  /\ channelDelays = chanSelection /\ readoutOffset \in ReadoutOffsets
  /\ LET from == [origin |-> 0, offset |-> readoutOffset]
     IN  /\ readout = [t \in Thread |-> [step |-> "idle", from |-> from]]
         /\ memoryBuffer = [h \in Half |-> from]
         /\ wave = [h \in Half |-> [from |-> from, delays |-> chanSelection]]
  /\ dram = "free" /\ interlock = "free" /\ crossed = FALSE /\ writes = 0

-----------------------------------------------------------------------------
(* Selection.                                                              *)

\* find_paired_selection(): in either order; the first entry if there is none.
PairedSelection(a, b) ==
  LET found == {i \in Entry : select_map[i] \in {<<a, b>>, <<b, a>>}}
  IN  IF found = {} THEN 1 ELSE CHOOSE i \in found : \A j \in found : i <= j

\* find_single_selection(): among the pairs of one kind.
SingleSelection(a) ==
  LET found == {i \in {1, 6, 11} : \E k \in 1 .. 2 : select_map[i][k] = a}
  IN  IF found = {} THEN 1 ELSE CHOOSE i \in found : \A j \in found : i <= j

Selection(a, b) ==
  IF a = b THEN SingleSelection(a) ELSE PairedSelection(a, b)

\* SELECT is processed: written itself, or by SEL0 or SEL1, which give it the
\* entry of their channel and the other one's.
WriteSelect ==
  /\ select.step = 0 /\ writes < MaxWrites
  /\ \/ \E i \in Entry : /\ select' = [entry |-> i, step |-> 1]
                         /\ wanted' = {select_map[i][1], select_map[i][2]}
     \/ \E v \in Channel, pair \in {1, 2} :
          LET other == chanSelection[3 - pair]
          IN  /\ select' = [entry |-> IF pair = 1 THEN Selection(v, other)
                                      ELSE Selection(other, v),
                            step |-> 1]
              /\ wanted' = {v, other}
  /\ crossed' = (crossed \/ event)
  /\ writes' = writes + 1
  /\ UNCHANGED <<chanSelection, shownSelect, mux, captureVars, readoutOffset,
                 readout, dram, memoryBuffer, interlock, wave>>

\* write_memory_select(): each channel and the record that shows it ...
SetSelection ==
  /\ select.step \in {1, 2}
  /\ LET k == select.step
         channel == select_map[select.entry][k]
     IN  /\ chanSelection' = [chanSelection EXCEPT ![k] = channel]
         /\ shownSelect' = [shownSelect EXCEPT ![k] = channel]
  /\ select' = [select EXCEPT !.step = @ + 1]
  /\ UNCHANGED <<mux, wanted, captureVars, readoutOffset, readVars, writes>>

\* ... and the hardware.
SetMux ==
  /\ select.step = 3
  /\ mux' = select.entry
  /\ select' = [select EXCEPT !.step = 0]
  /\ UNCHANGED <<chanSelection, shownSelect, wanted, captureVars,
                 readoutOffset, readVars, writes>>

-----------------------------------------------------------------------------
(* Capture and readout.                                                    *)

Reading == \E t \in Thread : readout[t].step # "idle"

\* The hardware completes a capture.
Complete ==
  /\ captured.number < MaxCaptures
  /\ captured' = [number |-> captured.number + 1, mux |-> mux]
  /\ event' = TRUE
  /\ crossed' = (Reading \/ event \/ select.step # 0)
  /\ UNCHANGED <<selectVars, origin, channelDelays, readoutOffset, readout,
                 dram, memoryBuffer, interlock, wave, writes>>

\* Mutant of CaptureComplete: the delays stay those of the last capture.
CaptureOrigin ==
  /\ event /\ readout["events"].step = "idle"
  /\ event' = FALSE
  /\ origin' = captured.number
  /\ readout' = [readout EXCEPT !["events"].step = "offset"]
  /\ UNCHANGED <<selectVars, captured, channelDelays, readoutOffset, dram,
                 memoryBuffer, interlock, wave, crossed, writes>>

\* capture_complete(): update_channel_delays(), the origin, readout_memory().
CaptureComplete ==
  /\ event /\ readout["events"].step = "idle"
  /\ event' = FALSE
  /\ channelDelays' = chanSelection
  /\ origin' = captured.number
  /\ readout' = [readout EXCEPT !["events"].step = "offset"]
  /\ UNCHANGED <<selectVars, captured, readoutOffset, dram, memoryBuffer,
                 interlock, wave, crossed, writes>>

\* write_readout_offset()
WriteOffset ==
  /\ readout["offset"].step = "idle" /\ writes < MaxWrites
  /\ readoutOffset' \in ReadoutOffsets
  /\ readout' = [readout EXCEPT !["offset"].step = "offset"]
  /\ crossed' = (crossed \/ Reading \/ event)
  /\ writes' = writes + 1
  /\ UNCHANGED <<selectVars, captureVars, dram, memoryBuffer, interlock, wave>>

Readout(t, step, next) ==
  /\ readout[t].step = step
  /\ readout' = [readout EXCEPT ![t].step = next]
  /\ UNCHANGED <<selectVars, captureVars, readoutOffset, crossed, writes>>

\* compute_dram_offset()
ComputeOffset(t) ==
  /\ readout[t].step = "offset"
  /\ readout' = [readout EXCEPT ![t] =
       [step |-> "lock",
        from |-> [origin |-> origin, offset |-> readoutOffset]]]
  /\ UNCHANGED <<selectVars, captureVars, readoutOffset, dram, memoryBuffer,
                 interlock, wave, crossed, writes>>

\* hw_read_dram_memory(): under dram_mutex, memory_buffer is filled bit by bit.
LockDram(t) ==
  /\ Readout(t, "lock", "first")
  /\ dram = "free" /\ dram' = t
  /\ UNCHANGED <<memoryBuffer, interlock, wave>>

FillFirst(t) ==
  /\ Readout(t, "first", "second")
  /\ memoryBuffer' = [memoryBuffer EXCEPT ![0] = readout[t].from]
  /\ UNCHANGED <<dram, interlock, wave>>

FillSecond(t) ==
  /\ Readout(t, "second", "wait")
  /\ memoryBuffer' = [memoryBuffer EXCEPT ![1] = readout[t].from]
  /\ dram' = "free"
  /\ UNCHANGED <<interlock, wave>>

\* interlock_wait(memory_readout): EPICS has the waveforms or has done.
Wait(t) ==
  /\ Readout(t, "wait", "copy")
  /\ interlock = "free" /\ interlock' = t
  /\ UNCHANGED <<dram, memoryBuffer, wave>>

Shown(h) == [from |-> memoryBuffer[h], delays |-> channelDelays]

CopyFirst(t) ==
  /\ Readout(t, "copy", "copied")
  /\ wave' = [wave EXCEPT ![0] = Shown(0)]
  /\ UNCHANGED <<dram, memoryBuffer, interlock>>

\* Mutant of CopySecond: the interlock is not signalled.
CopyUnsignalled(t) ==
  /\ Readout(t, "copied", "idle")
  /\ wave' = [wave EXCEPT ![1] = Shown(1)]
  /\ UNCHANGED <<dram, memoryBuffer, interlock>>

\* The rest, and interlock_signal().
CopySecond(t) ==
  /\ Readout(t, "copied", "idle")
  /\ wave' = [wave EXCEPT ![1] = Shown(1)]
  /\ interlock' = "epics"
  /\ UNCHANGED <<dram, memoryBuffer>>

EpicsDone ==
  /\ interlock = "epics" /\ interlock' = "free"
  /\ UNCHANGED <<selectVars, captureVars, readoutOffset, readout, dram,
                 memoryBuffer, wave, crossed, writes>>

ReadoutStep(t) ==
  \/ ComputeOffset(t) \/ LockDram(t) \/ FillFirst(t) \/ FillSecond(t)
  \/ Wait(t) \/ CopyFirst(t) \/ CopySecond(t)

CaptureNext ==
  \/ WriteSelect \/ SetSelection \/ SetMux
  \/ Complete \/ CaptureComplete \/ WriteOffset
  \/ \E t \in Thread : ReadoutStep(t)
  \/ EpicsDone

CaptureSpec == CaptureInit /\ [][CaptureNext]_memVars

\* Threads run and EPICS processes; waiting threads get their turn.
CaptureFairness ==
  /\ WF_memVars(CaptureComplete) /\ WF_memVars(EpicsDone)
  /\ WF_memVars(ReadoutStep("offset")) /\ SF_memVars(ReadoutStep("events"))

-----------------------------------------------------------------------------
(* Properties.                                                             *)

\* Whichever record was written, the channels asked for are among those
\* captured, and SEL0 and SEL1 show what the multiplexer captures, in its
\* order (find_selection, write_memory_select).
SelectionHonoured ==
  select.step = 0 =>
    /\ wanted \subseteq {select_map[mux][1], select_map[mux][2]}
    /\ chanSelection = select_map[mux] /\ shownSelect = select_map[mux]

\* When all is quiet the waveforms show the last capture, at the offset set,
\* aligned for the channels it captured -- unless OFFSET was written, the
\* selection changed or another capture ended while it was read, as nothing
\* protects memory_buffer and trigger_origin (readout_memory).
WaveCurrent ==
  (~event /\ ~Reading /\ ~crossed) => \A h \in Half : wave[h] =
    [from |-> [origin |-> captured.number, offset |-> readoutOffset],
     delays |-> select_map[captured.mux]]

\* A capture is shown in the end: its readout never waits for ever for memory
\* or for EPICS, whoever reads beside it (interlock_wait, dram_mutex).
CaptureShown == []<>(~event /\ readout["events"].step = "idle")

\* The waveforms are what the records say they are: those of the channels
\* selected, of the capture seen last (write_memory_select, readout_memory).
CaptureCorrect == SelectionHonoured /\ WaveCurrent

=============================================================================
