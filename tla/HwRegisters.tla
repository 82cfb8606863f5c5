----------------------------- MODULE HwRegisters -----------------------------
(***************************************************************************)
(* Writes to shared registers and memories, epics/src/hardware.c: a        *)
(* register of several fields is kept in a mirror, of which a call changes *)
(* its field and writes the whole; a memory is written a word at a time    *)
(* after restarting its address, to the bank a register selects.  Records  *)
(* and the events thread make calls side by side, never the same call      *)
(* twice at a time: each belongs to one record, or is made under           *)
(* trigger_mutex.                                                          *)
(*                                                                         *)
(* WITH_MUTEX(lock) statement holds the lock for that statement.           *)
(* WRITE_DSP_MIRROR is two statements, the mirror and the register: unless *)
(* braces or a switch are around it, the second is made without the lock.  *)
(***************************************************************************)
EXTENDS Naturals, Sequences

CONSTANTS
  RegThreads,    \* threads that make calls
  RegNobody      \* holds no lock

ASSUME RegAssumption == RegNobody \notin RegThreads

VARIABLES
  mirror, reg,   \* each register's fields, in the mirror and in hardware
  latch,         \* what each thread has read of the mirror
  memory,        \* the words of each memory, "old" or which memory's they are
  address,       \* the next word of each block of memories
  spi,           \* the register the SPI controller has been given
  answer,        \* what each thread was told by a read of the SPI
  regLock,       \* who holds each lock
  call, next,    \* the call each thread makes and its next step
  called         \* calls made

regVars == <<mirror, reg, latch, memory, address, spi, answer, regLock, call,
             next, called>>

Words == 2       \* words of each memory
RegLock == {"sys", "ctrl", "dsp"}

\* The registers with a mirror, and det_config, which has none.
Fields ==
  [control |-> {"adc_mux", "loopback", "output"},
   mem_config |-> {"mux_select"},
   trg_config_turn |-> {"max_bunch", "turn_offset"},
   trg_config_trig_seq0 |-> {"enable", "blanking"},
   trg_config_trig_dram |-> {"enable", "blanking"},
   fixed_nco_nco1 |-> {"gain", "ena_tune_pll"},
   adc_limits |-> {"threshold", "delta"},
   adc_config |-> {"reject_shift", "mms_source", "dram_source"},
   fir_config |-> {"limit", "shift", "bank"},
   dac_limits |-> {"delta"},
   dac_config |-> {"delay", "fir_gain", "mms_source", "dram_source"},
   seq_config |-> {"target", "super_count", "pc", "trigger"},
   det_config |-> {"bank"},
   tune_pll_control_config_extra |-> {"nco_gain"},
   tune_pll_control_config |->
     {"dwell_time", "blanking", "det_shift", "capture_cordic", "select"}]
Register == DOMAIN Fields

Block == {"adc", "dac", "fir", "seq", "det", "pll"}
Memory == {"adc", "dac", "fir0", "fir1", "entries", "window", "super",
           "det0", "det1", "pll"}

SeqMemory(n) == <<"entries", "window", "super">>[n + 1]
FirBank(n) == IF n = 0 THEN "fir0" ELSE "fir1"
DetBank(n) == IF n = 0 THEN "det0" ELSE "det1"

\* The memory that the next word of a block goes to.
Selected(block) ==
  IF block = "fir" THEN FirBank(reg.fir_config.bank)
  ELSE IF block = "det" THEN DetBank(reg.det_config.bank)
  ELSE IF block = "seq" THEN SeqMemory(reg.seq_config.target)
  ELSE block

-----------------------------------------------------------------------------
(* The steps of a call.                                                    *)

SetField(r, f, value) == [do |-> "set", at |-> r, field |-> f, to |-> value]
PutField(r, f, value) == [do |-> "put", at |-> r, field |-> f, to |-> value]
WordTo(block, m) == [do |-> "word", at |-> block, to |-> m]
At(what, where) == [do |-> what, at |-> where]

\* WRITEL of the mirror: the value is read, then written.
Load(r) == At("load", r)
Store(r) == At("store", r)

\* WITH_MUTEX
Lock(lock) == At("lock", lock)
Release(lock) == At("unlock", lock)

\* Mutant of WriteField: the register is written without the lock.
WriteFieldAfter(lock, r, f) ==
  <<Lock(lock), SetField(r, f, 1), Release(lock), Load(r), Store(r)>>

\* WITH_MUTEX(lock) { mirror = value; WRITEL }
WriteField(lock, r, f) ==
  <<Lock(lock), SetField(r, f, 1), Load(r), Store(r), Release(lock)>>

\* WITH_MUTEX(lock) WRITE_DSP_MIRROR
WriteMirror(r, f) ==
  <<Lock("dsp"), SetField(r, f, 1), Release("dsp"), Load(r), Store(r)>>

\* hw_write_adc_taps(), hw_write_dac_taps()
WriteTaps(block) ==
  <<Lock("dsp"), At("restart", block),
    WordTo(block, block), WordTo(block, block), Release("dsp")>>

\* hw_write_bunch_fir_taps(): writing the register restarts the address.
WriteFirTaps(n) ==
  <<Lock("dsp"), SetField("fir_config", "bank", n),
    Load("fir_config"), Store("fir_config"),
    WordTo("fir", FirBank(n)), WordTo("fir", FirBank(n)), Release("dsp")>>

\* hw_write_bunch_decimation()
WriteDecimation ==
  <<Lock("dsp"), SetField("fir_config", "limit", 1),
    SetField("fir_config", "shift", 1),
    Load("fir_config"), Store("fir_config"), Release("dsp")>>

\* write_sequencer_entries(), write_sequencer_window(): select the memory ...
SeqTarget(n) == SetField("seq_config", "target", n)

\* hw_write_seq_config()
WriteSeqConfig ==
  <<Lock("dsp"),
    At("restart", "seq"), SeqTarget(0), Load("seq_config"), Store("seq_config"),
    WordTo("seq", "entries"), WordTo("seq", "entries"),
    At("restart", "seq"), SeqTarget(1), Load("seq_config"), Store("seq_config"),
    WordTo("seq", "window"), WordTo("seq", "window"),
    At("restart", "seq"), SeqTarget(2), SetField("seq_config", "super_count", 1),
    Load("seq_config"), Store("seq_config"),
    WordTo("seq", "super"), WordTo("seq", "super"),
    SetField("seq_config", "pc", 1), Load("seq_config"), Store("seq_config"),
    Release("dsp")>>

\* hw_write_seq_bank0(): the first entry only.
WriteSeqBank0 ==
  <<Lock("dsp"),
    At("restart", "seq"), SeqTarget(0), Load("seq_config"), Store("seq_config"),
    WordTo("seq", "entries"), Release("dsp")>>

\* hw_write_det_config(): bank by bank.
WriteDetConfig ==
  <<Lock("dsp"),
    PutField("det_config", "bank", 0), At("restart", "det"),
    WordTo("det", DetBank(0)), WordTo("det", DetBank(0)),
    PutField("det_config", "bank", 1), At("restart", "det"),
    WordTo("det", DetBank(1)), WordTo("det", DetBank(1)),
    Release("dsp")>>

\* hw_write_pll_det_config()
WritePllDet ==
  <<Lock("dsp"), SetField("tune_pll_control_config", "select", 1),
    Load("tune_pll_control_config"), Store("tune_pll_control_config"),
    At("restart", "pll"), WordTo("pll", "pll"), WordTo("pll", "pll"),
    Release("dsp")>>

\* hw_write_fmc500_spi(), hw_read_fmc500_spi(): both read the reply.
Spi(n) == <<Lock("sys"), At("spi", n), At("reply", n), Release("sys")>>

-----------------------------------------------------------------------------
(* The calls.                                                              *)

\* Fields written by one call each, by how the call writes them.
ControlFields == {<<"control", "loopback">>, <<"control", "output">>,
                  <<"mem_config", "mux_select">>}
TurnFields == {<<"trg_config_turn", "turn_offset">>}
TriggerFields == {"trg_config_trig_seq0", "trg_config_trig_dram"}
                 \X {"enable", "blanking"}
CtrlFields == ControlFields \cup TurnFields \cup TriggerFields

NcoFields == {"fixed_nco_nco1"} \X {"gain", "ena_tune_pll"}

FieldsOf(r) == {r} \X Fields[r]
AdcFields == FieldsOf("adc_limits") \cup FieldsOf("adc_config")
DacFields == FieldsOf("dac_limits") \cup FieldsOf("dac_config")
SeqFields == {<<"seq_config", "trigger">>}
PllFields == FieldsOf("tune_pll_control_config_extra")
             \cup ({"tune_pll_control_config"} \X {"dwell_time", "blanking"})
PllDetFields == {"tune_pll_control_config"} \X {"det_shift", "capture_cordic"}
MirrorFields == UNION {AdcFields, DacFields, SeqFields, PllFields, PllDetFields}

TapBlocks == {"adc", "dac"}

\* A call for a bank, or a device of the SPI, has its number.
Call(kind, r, f, n) == [kind |-> kind, reg |-> r, field |-> f, n |-> n]
Calls ==
  {Call("ctrl", at[1], at[2], 0) : at \in CtrlFields}
  \cup {Call("nco", at[1], at[2], 0) : at \in NcoFields}
  \cup {Call("mirror", at[1], at[2], 0) : at \in MirrorFields}
  \cup {Call("taps", b, "", 0) : b \in TapBlocks}
  \cup {Call("fir", "", "", n) : n \in {0, 1}}
  \cup {Call("spi", "", "", n) : n \in {0, 1}}
  \cup {Call(kind, "", "", 0) : kind \in {"decimation", "seq", "bank0", "det",
                                         "pll"}}
NoCall == Call("none", "", "", 0)

Program(c) ==
  IF c.kind = "ctrl" THEN WriteField("ctrl", c.reg, c.field)
  ELSE IF c.kind = "nco" THEN WriteField("dsp", c.reg, c.field)
  ELSE IF c.kind = "mirror" THEN WriteMirror(c.reg, c.field)
  ELSE IF c.kind = "taps" THEN WriteTaps(c.reg)
  ELSE IF c.kind = "fir" THEN WriteFirTaps(c.n)
  ELSE IF c.kind = "decimation" THEN WriteDecimation
  ELSE IF c.kind = "seq" THEN WriteSeqConfig
  ELSE IF c.kind = "bank0" THEN WriteSeqBank0
  ELSE IF c.kind = "det" THEN WriteDetConfig
  ELSE IF c.kind = "pll" THEN WritePllDet
  ELSE Spi(c.n)

WrittenOnce == {"adc_mux", "max_bunch"}

\* set_hardware_config() has written the fields that are written once.
RegInit ==
  /\ mirror = [r \in Register |-> [f \in Fields[r] |->
                 IF f \in WrittenOnce THEN 1 ELSE 0]]
  /\ reg = mirror
  /\ latch = [t \in RegThreads |-> <<>>]
  /\ memory = [m \in Memory |-> [i \in 1 .. Words |-> "old"]]
  /\ address = [b \in Block |-> 1]
  /\ spi = 0 /\ answer = [t \in RegThreads |-> 0]
  /\ regLock = [l \in RegLock |-> RegNobody]
  /\ call = [t \in RegThreads |-> NoCall]
  /\ next = [t \in RegThreads |-> 1]
  /\ called = {}

-----------------------------------------------------------------------------
(* The calls made, step by step.                                           *)

\* Each thread makes one call here.
MakeCall(t) ==
  /\ call[t] = NoCall
  /\ \E c \in Calls \ called :
       /\ call' = [call EXCEPT ![t] = c]
       /\ called' = called \cup {c}
  /\ UNCHANGED <<next, mirror, reg, latch, memory, address, spi, answer, regLock>>

Programs == [c \in Calls |-> Program(c)]
Finished(t) == next[t] > Len(Programs[call[t]])
Current(t) == Programs[call[t]][next[t]]

StepOf(t, do) ==
  /\ call[t] # NoCall /\ ~Finished(t) /\ Current(t).do = do
  /\ next' = [next EXCEPT ![t] = @ + 1]
  /\ UNCHANGED <<call, called>>

TakeLock(t) ==
  /\ StepOf(t, "lock")
  /\ LET l == Current(t).at
     IN  /\ regLock[l] = RegNobody
         /\ regLock' = [regLock EXCEPT ![l] = t]
  /\ UNCHANGED <<mirror, reg, latch, memory, address, spi, answer>>

GiveLock(t) ==
  /\ StepOf(t, "unlock")
  /\ regLock' = [regLock EXCEPT ![Current(t).at] = RegNobody]
  /\ UNCHANGED <<mirror, reg, latch, memory, address, spi, answer>>

SetMirror(t) ==
  /\ StepOf(t, "set")
  /\ LET s == Current(t)
     IN  mirror' = [mirror EXCEPT ![s.at][s.field] = s.to]
  /\ UNCHANGED <<reg, latch, memory, address, spi, answer, regLock>>

\* det_config has no mirror.
PutReg(t) ==
  /\ StepOf(t, "put")
  /\ LET s == Current(t)
     IN  reg' = [reg EXCEPT ![s.at][s.field] = s.to]
  /\ UNCHANGED <<mirror, latch, memory, address, spi, answer, regLock>>

LoadMirror(t) ==
  /\ StepOf(t, "load")
  /\ latch' = [latch EXCEPT ![t] = mirror[Current(t).at]]
  /\ UNCHANGED <<mirror, reg, memory, address, spi, answer, regLock>>

\* Writing fir_config restarts the address of the taps.
WriteReg(t) ==
  /\ StepOf(t, "store")
  /\ LET r == Current(t).at
     IN  /\ reg' = [reg EXCEPT ![r] = latch[t]]
         /\ address' = IF r = "fir_config" THEN [address EXCEPT !["fir"] = 1]
                       ELSE address
  /\ latch' = [latch EXCEPT ![t] = <<>>]
  /\ UNCHANGED <<mirror, memory, spi, answer, regLock>>

Restart(t) ==
  /\ StepOf(t, "restart")
  /\ address' = [address EXCEPT ![Current(t).at] = 1]
  /\ UNCHANGED <<mirror, reg, latch, memory, spi, answer, regLock>>

\* A word goes to the next address of whatever memory is selected.
WriteWord(t) ==
  /\ StepOf(t, "word")
  /\ LET s == Current(t)
         i == address[s.at]
     IN  /\ memory' = IF i <= Words
                      THEN [memory EXCEPT ![Selected(s.at)][i] = s.to]
                      ELSE memory
         /\ address' = [address EXCEPT ![s.at] = i + 1]
  /\ UNCHANGED <<mirror, reg, latch, spi, answer, regLock>>

\* The SPI controller is given a register, and read.
StartSpi(t) ==
  /\ StepOf(t, "spi")
  /\ spi' = Current(t).at + 1
  /\ UNCHANGED <<mirror, reg, latch, memory, address, answer, regLock>>

ReadSpi(t) ==
  /\ StepOf(t, "reply")
  /\ answer' = [answer EXCEPT ![t] = spi]
  /\ UNCHANGED <<mirror, reg, latch, memory, address, spi, regLock>>

RegNext ==
  \E t \in RegThreads :
    \/ MakeCall(t) \/ TakeLock(t) \/ GiveLock(t)
    \/ SetMirror(t) \/ PutReg(t) \/ LoadMirror(t) \/ WriteReg(t)
    \/ Restart(t) \/ WriteWord(t) \/ StartSpi(t) \/ ReadSpi(t)

RegSpec == RegInit /\ [][RegNext]_regVars

-----------------------------------------------------------------------------
(* Properties.                                                             *)

RegTypeOK ==
  /\ DOMAIN mirror = Register /\ DOMAIN reg = Register
  /\ \A r \in Register :
       /\ mirror[r] \in [Fields[r] -> 0 .. 2]
       /\ reg[r] \in [Fields[r] -> 0 .. 2]
  /\ memory \in [Memory -> [1 .. Words -> {"old"} \cup Memory]]
  /\ address \in [Block -> 1 .. Words + 1]
  /\ regLock \in [RegLock -> RegThreads \cup {RegNobody}]
  /\ spi \in 0 .. 2 /\ answer \in [RegThreads -> 0 .. 2]
  /\ called \subseteq Calls

Unlocked(lock) == regLock[lock] = RegNobody

\* While nobody holds the lock of a register whose calls write it with the
\* lock held, the hardware has every field as the last call wrote it: no
\* call undoes another's field (ctrl_lock, dsp_locks).
HeldRegistersTruthful ==
  /\ Unlocked("ctrl") =>
       \A at \in CtrlFields : reg[at[1]] = mirror[at[1]]
  /\ Unlocked("dsp") =>
       /\ reg.fixed_nco_nco1 = mirror.fixed_nco_nco1
       /\ reg.fir_config = mirror.fir_config

Done(c) == c \in called /\ \A t \in RegThreads : call[t] = c => Finished(t)
Holds(m) == \A i \in 1 .. Words : memory[m][i] = m

\* Taps and bunch enables reach their memory whole, whatever other memories
\* and registers are written meanwhile (hw_write_adc_taps and the like).
MemoriesWhole ==
  /\ \A b \in TapBlocks : Done(Call("taps", b, "", 0)) => Holds(b)
  /\ \A n \in {0, 1} : Done(Call("fir", "", "", n)) =>
       Holds(FirBank(n))
  /\ Done(Call("det", "", "", 0)) => Holds("det0") /\ Holds("det1")
  /\ Done(Call("pll", "", "", 0)) => Holds("pll")
  /\ \A m \in Memory \ {"entries", "window", "super"} :
       \A i \in 1 .. Words : memory[m][i] \in {"old", m}

\* A read of the SPI gives the register asked for (hw_read_fmc500_spi).
SpiAnswers ==
  \A t \in RegThreads :
    call[t].kind = "spi" => answer[t] \in {0, call[t].n + 1}

\* "Writes complete active sequencer configuration in preparation for
\* triggered operation": once it is written, the sequencer has all of it
\* (hw_write_seq_config).
SeqConfigComplete ==
  Done(Call("seq", "", "", 0))
  /\ (\A t \in RegThreads : call[t] # NoCall => Finished(t)) =>
    /\ \A m \in {"entries", "window", "super"} : Holds(m)
    /\ reg.seq_config = mirror.seq_config

\* What records write reaches the hardware whole and is not undone by another
\* record that uses the same register or bus (sys_lock, ctrl_lock, dsp_locks).
RegistersCorrect == HeldRegistersTruthful /\ MemoriesWhole /\ SpiAnswers

=============================================================================
