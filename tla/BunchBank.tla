------------------------------ MODULE BunchBank ------------------------------
(***************************************************************************)
(* The bunch banks of an axis, epics/src/bunch_select.c: per bank and per  *)
(* output a waveform of enables and one of gains, a waveform of FIR        *)
(* selections, and OUTWF, which shows all the enables and can be written   *)
(* too.  Records are processed by EPICS clients side by side, each record  *)
(* by one at a time; a record that writes others (OUTWF, COPY_BANK, the    *)
(* edits of the selected bunches) does so one by one.  ENABLE and GAIN of  *)
(* a source both compute its gains in hardware, from both waveforms.       *)
(* hw_write_bunch_config() (hardware.c) writes a bank bunch by bunch under *)
(* the lock of its axis.                                                   *)
(*                                                                         *)
(* The first source has enables of its own in hardware, the others are     *)
(* disabled by a gain of 0.  In LMBF mode both axes are written.           *)
(***************************************************************************)
EXTENDS Naturals, Sequences, FiniteSets

CONSTANTS
  BankClients,   \* EPICS clients
  BankBunches,   \* bunches per turn
  GainOffset,    \* hardware_delays.BUNCH_GAIN_OFFSET
  FirOffset,     \* hardware_delays.BUNCH_FIR_OFFSET
  Axes,          \* axes written: two in LMBF mode
  Gain,          \* scaled gains
  EnableInput, GainInput, FirInput, OutInput,   \* waveforms that clients write
  BunchInput,    \* bunches that clients select
  BankMaxOps     \* bound: operations of clients

VARIABLES
  record,     \* the waveform records of each bank, as last processed
  bunchSet,   \* bank->bunch_set: the bunches selected for editing
  config,     \* bank->config, in the order of the hardware
  bankHw,     \* what each axis holds of each bank
  port,       \* the bank and bunch that the next word written is for
  dspLock,    \* who holds the lock of each axis
  work,       \* the records each client has still to write, with how
  stage,      \* how far it is with the first of them
  held,       \* the waveform it has in hand
  word,       \* the axis and the word it writes next to the hardware
  banks,      \* the banks its operation is about
  intended,   \* history: the waveforms the clients' operations ask for
  crossed,    \* history: operations of two clients have met on a bank
  overtaken,  \* history: older gains were stored after newer ones
  ops         \* bound

bankVars == <<record, bunchSet, config, bankHw, port, dspLock, work, stage,
              held, word, banks, intended, crossed, overtaken, ops>>

Source == {"fir", "nco"}
Bank == {0, 1}
Bunch == 0 .. BankBunches - 1
Fir == 0 .. 3
Free == "free"

Enables == [Bunch -> BOOLEAN]
Gains == [Bunch -> Gain]
Firs == [Bunch -> Fir]
Outputs == [Bunch -> SUBSET Source]
Records == [enable : [Source -> Enables], gain : [Source -> Gains],
            fir : Firs, outwf : Outputs]
Config == [gain : [Source -> Gains], enable : Enables, fir : Firs]

ASSUME BankAssumption ==
  /\ BankBunches \in Nat \ {0}
  /\ {GainOffset, FirOffset} \subseteq Bunch
  /\ Axes \in {{0}, {0, 1}}
  /\ Free \notin BankClients
  /\ {0, 1} \subseteq Gain
  /\ EnableInput \subseteq Enables /\ GainInput \subseteq Gains
  /\ FirInput \subseteq [Bunch -> Nat] /\ OutInput \subseteq Outputs
  /\ BunchInput \subseteq SUBSET Bunch
  /\ BankMaxOps \in Nat

\* Reading a record, changing what was read, storing the waveform, computing
\* and storing the configuration, writing the bank, gathering OUTWF and
\* showing it.  From "mix" on the record is being processed.
Stage ==
  {"idle", "read", "edit", "put", "mix", "set", "hw", "gather", "show"}
Processing == {"mix", "set", "hw", "gather", "show"}

How == {"given", "edited", "copied"}
FieldName == {"enable", "gain", "fir"}
Waveform(field) ==
  IF field = "enable" THEN Enables ELSE IF field = "gain" THEN Gains ELSE Firs
Value(field) ==
  IF field = "enable" THEN BOOLEAN ELSE IF field = "gain" THEN Gain ELSE Fir

\* The types of a record to write, and of what is in hand.
EntryOK(w) ==
  /\ w.how \in How /\ w.bank \in Bank
  /\ w.field \in FieldName /\ w.source \in Source
  /\ w.arg \in IF w.how = "given" THEN Waveform(w.field)
              ELSE IF w.how = "edited" THEN Value(w.field) ELSE Bank
HeldOK(c) ==
  /\ stage[c] = "edit" \/ (stage[c] = "put" /\ Head(work[c]).how # "given") =>
       held[c] \in Waveform(Head(work[c]).field)
  /\ stage[c] = "set" => held[c] \in [gain : Gains, enable : Enables]
  /\ stage[c] = "show" => held[c] \in Outputs

BankTypeOK ==
  /\ record \in [Bank -> Records] /\ config \in [Bank -> Config]
  /\ bunchSet \in [Bank -> SUBSET Bunch]
  /\ bankHw \in [Axes -> [Bank -> Config]]
  /\ dspLock \in [Axes -> BankClients \cup {Free}]
  /\ port \in [Axes -> [bank : Bank, bunch : Bunch]]
  /\ intended \in [Bank -> Records]
  /\ crossed \in BOOLEAN /\ overtaken \in BOOLEAN /\ ops \in 0 .. BankMaxOps
  /\ stage \in [BankClients -> Stage]
  /\ word \in [BankClients -> [axis : {0, 1}, at : 0 .. BankBunches]]
  /\ banks \in [BankClients -> SUBSET Bank]
  /\ \A c \in BankClients :
       /\ Len(work[c]) <= 5 /\ \A i \in DOMAIN work[c] : EntryOK(work[c][i])
       /\ HeldOK(c)

-----------------------------------------------------------------------------
(* From records to the hardware's order.                                   *)

Const(value) == [i \in Bunch |-> value]

\* FOR_BUNCHES_OFFSET
Offset(wf, offset) == [i \in Bunch |-> wf[(i + offset) % BankBunches]]

\* What update_source_gains_enables() computes for a source; only the first
\* one has enables in hardware.
Mixed(rec, s) ==
  [gain |-> Offset([i \in Bunch |-> IF s = "fir" \/ rec.enable[s][i]
                                   THEN rec.gain[s][i] ELSE 0], GainOffset),
   enable |-> Offset(rec.enable[s], GainOffset)]

OutWf(rec) == [i \in Bunch |-> {s \in Source : rec.enable[s][i]}]

ConfigOf(rec) ==
  [gain |-> [s \in Source |-> Mixed(rec, s).gain],
   enable |-> Mixed(rec, "fir").enable,
   fir |-> Offset(rec.fir, FirOffset)]

\* Every record has been processed once, with the values that were saved.
BankInit ==
  LET rec == [enable |-> [s \in Source |-> [i \in Bunch |-> i = 0]],
              gain |-> [s \in Source |-> [i \in Bunch |-> 1]],
              fir |-> [i \in Bunch |-> i % 4],
              outwf |-> [i \in Bunch |-> IF i = 0 THEN Source ELSE {}]]
  IN  /\ record = [b \in Bank |-> rec] /\ intended = record
      /\ config = [b \in Bank |-> ConfigOf(rec)]
      /\ bankHw = [a \in Axes |-> config]
      /\ bunchSet = [b \in Bank |-> Bunch]
      /\ port = [a \in Axes |-> [bank |-> 0, bunch |-> 0]]
      /\ dspLock = [a \in Axes |-> Free]
      /\ work = [c \in BankClients |-> <<>>]
      /\ stage = [c \in BankClients |-> "idle"]
      /\ held = [c \in BankClients |-> <<>>]
      /\ word = [c \in BankClients |-> [axis |-> 0, at |-> 0]]
      /\ banks = [c \in BankClients |-> {}]
      /\ crossed = FALSE /\ overtaken = FALSE /\ ops = 0

-----------------------------------------------------------------------------
(* What an operation writes, record by record: a waveform given, that of   *)
(* the record with the selected bunches set to a value, or that of the     *)
(* same record in another bank.                                            *)

Given(b, field, s, wf) ==
  [how |-> "given", bank |-> b, field |-> field, source |-> s, arg |-> wf]
Copied(from, to, field, s) ==
  [how |-> "copied", bank |-> to, field |-> field, source |-> s, arg |-> from]

\* UPDATE_RECORD_BUNCH_SET
Changed(b, field, s, value) ==
  [how |-> "edited", bank |-> b, field |-> field, source |-> s, arg |-> value]

\* update_record_with_bunch_set(): the bunches selected are set.
Edited(wf, b, value) ==
  [i \in Bunch |-> IF i \in bunchSet[b] THEN value ELSE wf[i]]

OutWfEnable(wf, s) == [i \in Bunch |-> s \in wf[i]]

\* Mutant of OutWfSteps: the sources after the first are forgotten.
OutWfFirst(b, wf) == <<Given(b, "enable", "fir", OutWfEnable(wf, "fir"))>>

\* write_out_wf(), with its copy of the waveform
OutWfSteps(b, wf) ==
  <<Given(b, "enable", "fir", OutWfEnable(wf, "fir")),
    Given(b, "enable", "nco", OutWfEnable(wf, "nco"))>>

\* copy_bank_from_to()
CopySteps(from, to) ==
  <<Copied(from, to, "fir", "fir"),
    Copied(from, to, "enable", "fir"), Copied(from, to, "gain", "fir"),
    Copied(from, to, "enable", "nco"), Copied(from, to, "gain", "nco")>>

FirstStage(steps) ==
  IF steps = <<>> THEN "idle"
  ELSE IF Head(steps).how = "given" THEN "put" ELSE "read"

Begin(c, on, steps) ==
  /\ work[c] = <<>> /\ ops < BankMaxOps
  /\ work' = [work EXCEPT ![c] = steps]
  /\ stage' = [stage EXCEPT ![c] = FirstStage(steps)]
  /\ banks' = [banks EXCEPT ![c] = on]
  /\ crossed' = (crossed \/ \E d \in BankClients \ {c} :
                              work[d] # <<>> /\ banks[d] \cap on # {})
  /\ ops' = ops + 1
  /\ UNCHANGED <<config, bankHw, port, dspLock, held, word, overtaken>>

Field(rec, field, s) ==
  IF field = "fir" THEN rec.fir
  ELSE IF field = "gain" THEN rec.gain[s] ELSE rec.enable[s]

\* The records of a bank with one waveform replaced.
Put(rec, field, s, wf) ==
  IF field = "fir" THEN [rec EXCEPT !.fir = wf]
  ELSE IF field = "gain" THEN [rec EXCEPT !.gain[s] = wf]
  ELSE [rec EXCEPT !.enable[s] = wf]

\* What the bank is to be when an operation has written one record; OUTWF
\* follows the enables.
Intend(b, field, s, wf) ==
  LET rec == Put(intended[b], field, s, wf)
  IN  intended' = [intended EXCEPT ![b] = [rec EXCEPT !.outwf = OutWf(rec)]]

WriteOne(c, b, field, s, wf) ==
  Begin(c, {b}, <<Given(b, field, s, wf)>>) /\ Intend(b, field, s, wf)

\* ENABLE and GAIN are written, or all of them set and reset.
WriteSource(c) == \E b \in Bank, s \in Source :
  \/ \E wf \in EnableInput : WriteOne(c, b, "enable", s, wf)
  \/ \E wf \in GainInput : WriteOne(c, b, "gain", s, wf)

\* FIRWF is written: two bits of each value count.
WriteFir(c) == \E b \in Bank, wf \in FirInput :
  WriteOne(c, b, "fir", "fir", [i \in Bunch |-> wf[i] % 4])

EditOne(c, b, field, s, value) ==
  /\ Begin(c, {b}, <<Changed(b, field, s, value)>>)
  /\ Intend(b, field, s, Edited(Field(record[b], field, s), b, value))

\* SET_ENABLE, SET_GAIN and FIRWF:SET, for the bunches selected.
EditSource(c) == \E b \in Bank, s \in Source :
  EditOne(c, b, "enable", s, TRUE) \/ EditOne(c, b, "gain", s, 0)
EditFir(c) == \E b \in Bank : EditOne(c, b, "fir", "fir", 3)

\* reset_all_source_gains()
ResetGains(c) == \E b \in Bank :
  /\ Begin(c, {b}, <<Given(b, "gain", "fir", Const(1)),
                     Given(b, "gain", "nco", Const(1))>>)
  /\ intended' = [intended EXCEPT ![b].gain = [s \in Source |-> Const(1)]]

CopyBank(c) == \E from \in Bank : \E to \in Bank \ {from} :
  /\ Begin(c, {from, to}, CopySteps(from, to))
  /\ intended' = [intended EXCEPT
       ![to] = [record[from] EXCEPT !.outwf = OutWf(record[from])]]

\* OUTWF is written.
WriteOutWf(c) == \E b \in Bank, wf \in OutInput :
  /\ Begin(c, {b}, OutWfSteps(b, wf))
  /\ record' = [record EXCEPT ![b].outwf = wf]
  /\ intended' = [intended EXCEPT
       ![b].enable = [s \in Source |-> OutWfEnable(wf, s)], ![b].outwf = wf]

\* BUNCH_SELECT is written (see BunchText for what it accepts).
SelectBunches(c) == \E b \in Bank, set \in BunchInput :
  /\ Begin(c, {b}, <<>>)
  /\ bunchSet' = [bunchSet EXCEPT ![b] = set]
  /\ UNCHANGED <<record, intended>>

Operate(c) ==
  \/ /\ \/ WriteSource(c) \/ WriteFir(c) \/ EditSource(c) \/ EditFir(c)
        \/ ResetGains(c) \/ CopyBank(c)
     /\ UNCHANGED <<record, bunchSet>>
  \/ WriteOutWf(c) /\ UNCHANGED bunchSet
  \/ SelectBunches(c)

-----------------------------------------------------------------------------
(* Writing one record.                                                     *)

\* READ_RECORD_VALUE_WF
ReadRecord(c) ==
  /\ stage[c] = "read"
  /\ LET w == Head(work[c])
         from == IF w.how = "copied" THEN w.arg ELSE w.bank
     IN  /\ held' = [held EXCEPT ![c] = Field(record[from], w.field, w.source)]
         /\ stage' = [stage EXCEPT ![c] = IF w.how = "copied" THEN "put"
                                          ELSE "edit"]
  /\ UNCHANGED <<record, bunchSet, config, bankHw, port, dspLock, work, word,
                 banks, intended, crossed, overtaken, ops>>

EditWaveform(c) ==
  /\ stage[c] = "edit"
  /\ LET w == Head(work[c])
     IN  held' = [held EXCEPT ![c] = Edited(held[c], w.bank, w.arg)]
  /\ stage' = [stage EXCEPT ![c] = "put"]
  /\ UNCHANGED <<record, bunchSet, config, bankHw, port, dspLock, work, word,
                 banks, intended, crossed, overtaken, ops>>

SameRecord(v, w) ==
  v.bank = w.bank /\ v.field = w.field /\ v.source = w.source

\* Nobody else is processing the record that c writes.
RecordFree(c) ==
  \A d \in BankClients \ {c} :
    stage[d] \in Processing => ~SameRecord(Head(work[d]), Head(work[c]))

\* write_enables(), write_gains() and write_fir_wf() store the waveform, the
\* last one in the configuration too.
PutRecord(c) ==
  /\ stage[c] = "put" /\ RecordFree(c)
  /\ LET w == Head(work[c])
         wf == IF w.how = "given" THEN w.arg ELSE held[c]
     IN  /\ record' = [record EXCEPT
              ![w.bank] = Put(@, w.field, w.source, wf)]
         /\ config' = IF w.field = "fir"
              THEN [config EXCEPT ![w.bank].fir = Offset(wf, FirOffset)]
              ELSE config
         /\ stage' = [stage EXCEPT ![c] =
              IF w.field = "fir" THEN "hw" ELSE "mix"]
  /\ held' = [held EXCEPT ![c] = <<>>]
  /\ UNCHANGED <<bunchSet, bankHw, port, dspLock, work, word, banks, intended,
                 crossed, overtaken, ops>>

\* update_source_gains_enables(): gains and enables are computed ...
MixSource(c) ==
  /\ stage[c] = "mix"
  /\ LET w == Head(work[c])
     IN  held' = [held EXCEPT ![c] = Mixed(record[w.bank], w.source)]
  /\ stage' = [stage EXCEPT ![c] = "set"]
  /\ UNCHANGED <<record, bunchSet, config, bankHw, port, dspLock, work, word,
                 banks, intended, crossed, overtaken, ops>>

\* Client c has still to store what the waveforms of a source give now.
WillSet(c, b, s) ==
  /\ stage[c] \in {"mix", "set"}
  /\ Head(work[c]).bank = b /\ Head(work[c]).source = s
  /\ stage[c] = "set" => held[c] = Mixed(record[b], s)

\* ... and stored.
SetConfig(c) ==
  /\ stage[c] = "set"
  /\ LET w == Head(work[c])
     IN  /\ config' = [config EXCEPT
              ![w.bank].gain[w.source] = held[c].gain,
              ![w.bank].enable = IF w.source = "fir" THEN held[c].enable ELSE @]
         /\ overtaken' = (overtaken \/ ~\E d \in BankClients :
                                 WillSet(d, w.bank, w.source))
  /\ stage' = [stage EXCEPT ![c] = "hw"]
  /\ held' = [held EXCEPT ![c] = <<>>]
  /\ UNCHANGED <<record, bunchSet, bankHw, port, dspLock, work, word, banks,
                 intended, crossed, ops>>

\* On to the next record.
Finish(c) ==
  /\ work' = [work EXCEPT ![c] = Tail(@)]
  /\ stage' = [stage EXCEPT ![c] = FirstStage(Tail(work[c]))]

\* The word at 0 selects the bank; the address of the others advances.
HwWord(w, axis, at) ==
  LET p == port[axis] IN
  IF at = 0
  THEN /\ port' = [port EXCEPT ![axis] = [bank |-> w.bank, bunch |-> 0]]
       /\ UNCHANGED bankHw
  ELSE /\ port' = [port EXCEPT ![axis].bunch = (@ + 1) % BankBunches]
       /\ bankHw' = [bankHw EXCEPT ![axis][p.bank] = [
            gain |-> [s \in Source |-> [@.gain[s] EXCEPT
              ![p.bunch] = config[w.bank].gain[s][at - 1]]],
            enable |-> [@.enable EXCEPT
              ![p.bunch] = config[w.bank].enable[at - 1]],
            fir |-> [@.fir EXCEPT
              ![p.bunch] = config[w.bank].fir[at - 1]]]]

\* write_bunch_config(): for one axis, or for one after the other.
NextWord(c, w, axis, at) ==
  IF at < BankBunches \/ axis + 1 \in Axes
  THEN /\ word' = [word EXCEPT ![c] =
            IF at < BankBunches THEN [axis |-> axis, at |-> at + 1]
            ELSE [axis |-> axis + 1, at |-> 0]]
       /\ UNCHANGED <<work, stage>>
  ELSE /\ word' = [word EXCEPT ![c] = [axis |-> 0, at |-> 0]]
       /\ IF w.field = "enable"
          THEN stage' = [stage EXCEPT ![c] = "gather"] /\ UNCHANGED work
          ELSE Finish(c)

\* hw_write_bunch_config(): the lock, the bank, and a word for each bunch.
WriteHw(c) ==
  /\ stage[c] = "hw"
  /\ LET w == Head(work[c])
         axis == word[c].axis
         at == word[c].at
     IN  /\ dspLock[axis] = IF at = 0 THEN Free ELSE c
         /\ dspLock' = [dspLock EXCEPT ![axis] =
                          IF at = BankBunches THEN Free ELSE c]
         /\ HwWord(w, axis, at)
         /\ NextWord(c, w, axis, at)
  /\ UNCHANGED <<record, bunchSet, config, held, banks, intended, crossed,
                 overtaken, ops>>

\* update_out_wf(): the enables are gathered ...
GatherOutWf(c) ==
  /\ stage[c] = "gather"
  /\ held' = [held EXCEPT ![c] = OutWf(record[Head(work[c]).bank])]
  /\ stage' = [stage EXCEPT ![c] = "show"]
  /\ UNCHANGED <<record, bunchSet, config, bankHw, port, dspLock, work, word,
                 banks, intended, crossed, overtaken, ops>>

\* ... and shown.
ShowOutWf(c) ==
  /\ stage[c] = "show"
  /\ record' = [record EXCEPT ![Head(work[c]).bank].outwf = held[c]]
  /\ held' = [held EXCEPT ![c] = <<>>]
  /\ Finish(c)
  /\ UNCHANGED <<bunchSet, config, bankHw, port, dspLock, word, banks,
                 intended, crossed, overtaken, ops>>

BankNext == \E c \in BankClients :
  \/ Operate(c) \/ ReadRecord(c) \/ EditWaveform(c)
  \/ PutRecord(c) \/ MixSource(c) \/ SetConfig(c) \/ WriteHw(c)
  \/ GatherOutWf(c) \/ ShowOutWf(c)

BankSpec == BankInit /\ [][BankNext]_bankVars

-----------------------------------------------------------------------------
(* Properties.                                                             *)

BankQuiet == \A c \in BankClients : work[c] = <<>>

\* When all clients are done every axis holds, for each bunch of the machine,
\* what the records say of it, whichever records of a bank were written side
\* by side: each writes its part of the configuration before it writes all of
\* it under the lock (update_source_gains_enables, hw_write_bunch_config);
\* unless gains computed before a change of ENABLE or GAIN were the last ones
\* stored.
HwMatchesRecords ==
  (BankQuiet /\ ~overtaken) => \A a \in Axes, b \in Bank, j \in Bunch :
    LET g == (j + BankBunches - GainOffset) % BankBunches
        f == (j + BankBunches - FirOffset) % BankBunches
        rec == record[b]
        hw == bankHw[a][b]
    IN  /\ hw.enable[g] = rec.enable["fir"][j]
        /\ hw.gain["fir"][g] = rec.gain["fir"][j]
        /\ hw.gain["nco"][g] = IF rec.enable["nco"][j]
                               THEN rec.gain["nco"][j] ELSE 0
        /\ hw.fir[f] = rec.fir[j]

\* An operation that writes several records does exactly what it is meant to,
\* OUTWF included, if no other client is at work on its banks
\* (copy_bank_from_to, write_out_wf, update_record_with_bunch_set).
OperationsAtomic == (BankQuiet /\ ~crossed) => record = intended

\* The bank in the hardware is that of the records, and the records are what
\* the operations on them were meant to give (hw_write_bunch_config,
\* copy_bank_from_to).
BanksCorrect == HwMatchesRecords /\ OperationsAtomic

=============================================================================
