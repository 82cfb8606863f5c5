# DLS multi-bunch feedback (MBF): specifications

TLA+ specifications, model-checking configurations and machine-checked proofs
for the MBF system: the FPGA gateware (`AMC525/vhd`), the Linux driver
(`driver`) and the EPICS server (`epics/src`).  What is modelled is the part
where several actors share state or where data passes through something of
limited size: the trigger targets and the readers of captured data, the arming
of the sequencer, the interrupt path, the driver's DMA engine and the life of
its state, the socket server and its streams, the tune PLL and its FIFO, the
capture waveforms, and the registers, bunch banks, statistics, sources and
filter taps that records share.

## The system

```
 EPICS records (CA clients)      socket clients (M and D commands)
        |                                |
        v                                v
 triggers.c, sequencer.c, ...     socket_command.c
        |    trigger_target_arm() ...    | lock_trigger_ready()
        +---------------+----------------+
                        v
                trigger_target.c  <----- events.c: events_thread()
                        |                        ^  read()
                        | registers (mmap)       |
                        v                        |
  trigger_handler.vhd -> sequencer / memory -> interrupts -> driver/interrupts.c
```

| Part | State | Operations | Interacts through |
|---|---|---|---|
| trigger targets, `trigger_target.c` | mode, state, `dont_rearm`, `lock_count` of each target; shared state, mode and `dont_rearm` | arm, disarm, set mode, shared arm, disarm and mode, immediate capture; trigger and complete events; lock, wait, unlock | `trigger_mutex`, `trigger_event`; calls into sequencer, detector and memory to prepare |
| trigger hardware, `trigger_handler.vhd`, `trigger_target.vhd`, `sequencer_pc.vhd`, `fast_memory_control.vhd`, `dsp_interrupts.vhd` | trigger state and delay of each target; program counter; capture state | arm, fire, disarm, soft and external triggers; completion | registers, interrupt lines |
| events thread, `events.c` | none but the batch of events it is dispatching | read a batch, call the handlers in the order of `enum interrupt_handler_index` | `read()` of the register device |
| sequencer, `sequencer.c` | `seq_config`, `seq_hw_config` and a dirty flag for each; scale | records that edit the configuration, `UPDATE_COUNT`, `RESET`; `prepare_sequencer()` | `seq->mutex`; called with `trigger_mutex` held |
| detector, `detector.c` | `scale_info`, waveforms | readout event | interlocks with EPICS |
| memory, `memory.c` | readout offset, `memory_buffer`, waveforms | prepare, completion, change of offset | interlock; DRAM device |
| interrupt driver, `interrupts.c`, `registers.c` | the event mask, the wait queue; owner and count of the register device | `mbf_isr()`, `read()`, `poll()`, open, lock, unlock, close | atomic operations on the mask |
| DMA driver, `dma_control.c`, `memory.c` | one engine, one buffer, one completion | read, release, interrupt | mutex, completion |
| driver core, `amc525_mbf_core.c` | board numbers, reference count | probe, open, release, remove | completion |
| tune PLL, `tune_pll.c`, `tune_pll_fifo.c`, `tune_pll_control.vhd`, `tune_pll_readout_fifo.vhd` | run control, status, offset, target phase; buffer and residue of each FIFO | start, stop, poll, frequency, target, input; stop and FIFO events; enable, disable, reset of a FIFO | mutex of each FIFO, interlocks, status update |
| socket server, `socket_server.c`, `socket_command.c`, `buffered_file.c` | connections, input and output buffers, send timeout | accept, read line, lock, reply, stream captured data, shut down | readout locks, DRAM file |
| register access, `hardware.c` | mirror of each shared register, locks, DRAM file | one call for each setting; memories written word by word | `sys_lock`, `ctrl_lock`, `dsp_locks`, `dram_mutex` |
| bunch selection, `bunch_select.c`, `bunch_set.c` | waveforms and configuration of each bank | write, edit, copy, select | axis lock of the registers |
| min/max/sum, `mms.c`, `min_max_sum_bank.vhd` | two banks in hardware, accumulator, waveforms of SCAN and ARCHIVE | poll, scan, archive, change of source | mutex, interlock |
| converters and bunch filter, `adc.c`, `dac.c`, `bunch_fir.c` | sources, output enable and its delay; settings, waveform and taps of each filter bank | choose a source, enable, tick; set length, cycles, phase, waveform, USEWF | delays of the waveforms and statistics; scan of the events; LMBF mode joins the axes |
| other records (NCO, delays), start up, configuration, Python and OPI clients | settings | write through to registers | the registers |

What makes it hard:

* every register write of an operation is a separate step for the hardware, and
  the software learns what the hardware did from interrupts that are merged,
  batched and late;
* operators, up to two sequencers and a memory, socket readers that hold or
  wait for targets, automatic re-arming and shared arming all meet in one
  state machine;
* two mutexes are taken one after the other on the way from a record to the
  sequencer registers, and some records take them in the opposite order;
* the interrupt handler and the readers of its events share a mask without a
  lock;
* some handlers wait for EPICS to process records, holding a mutex that records
  wait for;
* registers with several fields, memories written through one address and one
  bank, and one DRAM file are shared by records that know nothing of each other;
* streams pass through buffers smaller than they are, at four levels.

## What correctness means

* **Trigger targets.** A target is never armed or busy while a reader holds it;
  once ready, it stays so for everybody who holds it or waits for it; lock
  counts are exact; the shared state is what its table says; a postponed arm
  happens; the hardware is armed for prepared targets only.
* **With the hardware.** Readers and readouts see hardware at rest; each event
  finds its target in the state it expects; a capture that was triggered ends.
* **Sequencer.** The published scale is that of the sequence read out; the copy
  of the configuration is the one the sequence runs with; no edit is lost; arming
  gets its mutexes.
* **Interrupts.** No event lost, none invented or delivered twice, no reader
  asleep on a pending event.
* **Driver.** A read gets the data of its own transfer and ends; removal waits
  for every open file and then ends; what it frees is not in use by the engine
  or the interrupt handler; an exclusive lock is exclusive.
* **Socket server.** Lines reach the commands whole, replies the client whole and
  in order; a client that stalls or goes away leaves no lock and no connection
  behind.  A stream has exactly the values asked for, as many as announced.
* **Tune PLL.** What is shown settles on what the hardware does; a stop is shown;
  the target phase follows the frequency.  No gap lies hidden in a buffer of the
  FIFO, and buffers go on being completed.
* **Waveforms.** They are those of the capture and the channels they claim, and a
  capture is shown in the end.
* **Records.** A register holds what its records last wrote, a memory what was
  last written to it; the bunch banks in hardware are those of the records; each
  turn is counted in one published reading of the statistics; delays are those
  of the sources in use, outputs what ENABLE says, and filter taps what the
  records of their bank say.

## Modules

| Module | Models | Role |
|---|---|---|
| `TriggerTarget` | `trigger_target.c` | core state machine, one action per entry point |
| `ReadoutExclusion` | the promise of `lock_trigger_ready()` | abstract specification refined by `TriggerTarget` |
| `TriggerSystem` | `TriggerTarget` with the trigger hardware, interrupts and `events_thread()` | composition |
| `SequencerArm` | `sequencer.c`, `detector.c` readout, arming under two mutexes | one sequencer at the grain of mutexes |
| `InterruptEvents` | `interrupts.c`, `mbf_reg_read()` | lock-free event stream |
| `EventLatch` | the promise of the event stream | abstract specification refined by `InterruptEvents` |
| `DmaControl` | `dma_control.c`, its part of `mbf_isr()` | reads through one engine and one buffer |
| `DriverCore` | `DmaControl` with `amc525_mbf_core.c`, open, release and lock of `registers.c` and `memory.c` | composition: the life of a board |
| `SocketServer` | `socket_server.c`, `buffered_file.c`, the frame of the commands of `socket_command.c` | a connection, its client, the accepting and the main thread |
| `MemoryRead` | the M command of `socket_command.c`, the DRAM file of `hardware.c`, the clipping of `driver/memory.c` | a stream and the waveforms through one file |
| `MemoryCapture` | `memory.c` | channel selection and readout of the waveforms |
| `TunePll` | `tune_pll.c`, `tune_pll_control.vhd` | one axis: run control, status, frequency and phase |
| `PllFifo` | `tune_pll_fifo.c`, `tune_pll_readout_fifo.vhd` | one FIFO from samples to waveform |
| `HwRegisters` | `hardware.c` | mirrors, locks and memories |
| `BunchBank` | `bunch_select.c`, `hw_write_bunch_config()` | the banks of an axis under several clients |
| `BunchText` | `assess_complexity()`, `parse_bunch_select()` | two algorithms against a reference definition |
| `MinMaxSum` | `mms.c`, `min_max_sum_bank.vhd` | two banks, accumulator and archive |
| `Converter` | `dac.c`, the sources of `adc.c` | source records of a converter; output enable of both axes |
| `BunchFir` | `bunch_fir.c` | the taps of a bank under four records |
| `MCTriggerTarget`, `MCTriggerSystem`, `MCSequencerArm` | | symmetry and scenarios for TLC |
| `MCTriggers`, `MCInterfaces`, `MCReadout`, `MCRecords` | | components checked side by side |
| `TriggerProofs`, `TriggerSystemProofs` | | theorems about `TriggerTarget`; about `TriggerSystem` |
| `SequencerArmProofs` | | theorems about `SequencerArm`, and the types of `MCTriggers` |
| `InterfaceProofs` | | theorems about `InterruptEvents`, `DriverCore` with `DmaControl`, `SocketServer`, and the types of `MCInterfaces` |
| `ReadoutProofs` | | theorems about `PllFifo`, `MemoryCapture`, `MemoryRead`, and the types of `MCReadout` |
| `TunePllProofs` | | theorems about `TunePll` |
| `BunchProofs` | | theorems about `BunchText` and `BunchBank` |
| `RecordsProofs` | | theorems about `Converter`, `BunchFir`, `HwRegisters`, `MinMaxSum`, and the types of `MCRecords` |

Definitions whose comment starts with "Mutant of" are not part of the
specifications: each is a plausible mistake in the definition it names, and is
substituted for it to see that a property would notice.

### TriggerTarget

Each function of `trigger_target.h` runs under `trigger_mutex` from beginning
to end and is one action; the variables are the fields of `struct
trigger_target` and `struct shared_triggers` under their names (`shState`,
`shDontRearm` for the shared ones).  `pthread_cond_timedwait()` gives the mutex
up, so that waiting is split into `LockWait`, `WaitReady` and `WaitFail`;
`waiting` and `holding` record which connections are where.  `update_global_state()`
and `arm_shared_targets()` call each other's results: they appear as the
operators `UpdateGlobalState` and `ArmSharedTargets`, which take what the caller
has computed and assign the rest.  `issued` is the set of register writes of the
last operation.  Left out: the list of names of shared targets, log messages.

### TriggerSystem

The writes in `issued` reach the hardware one at a time (`WriteDisarm`,
`WritePrepare`, `WriteArm`, `WriteFire`, `WriteSoft`) while the operation still
holds `trigger_mutex` (`MutexFree` is false); the hardware moves in between.
The trigger delay is the unbounded stay in `TRIGGERED`.  `events` is what the
driver has latched, a set because occurrences merge; that the driver does not
lose any is `InterruptEvents`.  `todo` is the set of handler calls the events
thread has still to make for the batch it has read; `HandledBefore` is the order
of `enum interrupt_handler_index` and of the targets within a handler, and
`Handles` says which call is the next.  The sequencers are numbered, by axis, as
in `enum trigger_target_id`.  The state is updated when an operation starts its writes,
which nobody can tell from its end, since everybody who looks at it takes the
mutex.

### SequencerArm

The same arming seen at the grain of mutexes: `StartArm` takes `trigger_mutex`,
`PrepareSequencer` waits for `seq->mutex` and does the rest; `StartReset` holds
`seq->mutex`, as EPICS does when it processes a record of this device, and
`ResetDisarm` waits for `trigger_mutex`.  A configuration is a value; `scale` is
the configuration it was last computed from.

### InterruptEvents

`FetchIsr` and `Acknowledge` are the two register accesses of `mbf_isr()`,
`LoadEvents` and `ExchangeEvents` the loop of `event_interrupt()`; a read is at
`wait` (about to be queued), `check` (on the queue, about to evaluate the
condition, whose side effect takes the mask), `asleep`, or `done`.  What
`wait_event_interruptible()` and the interrupt controller do is external and
stated in the module.

### DmaControl and DriverCore

`read[f]` is the line of `read_dma_memory()` a read has come to: waiting for the
mutex, after it, deciding whether to reset, about to reinitialise the
completion, about to write `btt`, waiting, copying.  The engine and the
interrupt handler move between any two of them.  A killed read (`Kill`) leaves
by the error path with the transfer running.  The engine holds its interrupt
signal until the status bits are written back and the controller latches the
rising edge, so that interrupts of two transfers merge.

`phase` is how far `amc525_mbf_remove()` has come.  A file is `opening` from
the reference it takes in `amc525_mbf_open()` to the end of the device's own
open, and `closing` before `amc525_mbf_release()`.  The operations on
`locking` hold its mutex from beginning to end and are one action each.  An open
that has found the device in the kernel's tables is assumed to reach the check of
`refcount` before the state is freed, since nothing in the driver could protect
it.  Left out: board numbers, the clean-up when probing fails, mapping of
registers, alignment and size of transfers; the life of the interrupt path of the
events, which is `InterruptEvents`.

### SocketServer

`place` is how far `process_connection()` has come: in `read_line()` (`parse`),
in its `read()` (`read`), about to handle a line (`command`), waiting for a
trigger lock (`lock`), doing what is left of the command (`work`), deleting
the connection.  `todo` is what the command still does, in order: a character, a
text or a block written, the lock released, the connection closed; `Work` and
`Reply` give the orders the two commands have on their way out.  `conn` is the
buffered file.  `write()` sends piece by piece (`Send`), and fails if the client
is gone, or stalls for longer than the send timeout -- which only
`wait_for_lock()` sets.  Line `n` is made of the number `n`, and what is written
is numbered, so that a character lost or out of place shows.  Parsing and the
contents of replies are left out; the lock is granted or refused here, and is
`TriggerTarget`'s.

### MemoryRead

Memory is a ring of words.  A value sent is the list of the addresses it
averages, with the angles they are rotated by: `StreamFaithful` compares it with
`Wanted`, which says directly from the request which words the value should be.
Between the two lie the chunks of `send_memory_data()`, the blocks of each
conversion, the wrap at the end of memory (`Clip`, `NextPos`), the reads the
driver cuts to its buffer, and the delay and the extra turn that is read for it.
Each `read()` of the file is a step, and `Stale` is what a buffer holds when a
read has failed.

### MemoryCapture

`readout_memory()` in the events thread and in the OFFSET record, a step at a
time: the offset is computed, memory is read into the two halves of
`memory_buffer` under `dram_mutex`, the interlock is waited for, each half is
copied.  `SetSelection` and `SetMux` are the steps of `write_memory_select()`
and the records it writes.

### TunePll

The gateware goes through the states of `tune_pll_control.vhd` by itself, with a
reason for a stop.  Updating the status is at most once at a time (`busy`, from
reading the register until EPICS has processed the records), and START, POLL and
the events wait for it.  `TakeStop`, `CheckStopped` and `DisableReadout` are the
steps of `handle_pll_stop()`; `ComputePhase` and `WritePhase` split each of the
unlocked writes of the target phase.  Frequencies are small numbers, without the
scaling.

### PllFifo

A call holds `fifo->mutex` (`call`) and goes through its register accesses one
by one -- status, word, reset, enable of the interrupt -- while samples arrive.
Samples carry numbers modulo `Period`, so that a break shows.  The call that
finds EPICS busy waits for `ReadDone` with the mutex held.  `KnownBreaks` are
those the code knows of and acts upon.

### HwRegisters

A call is a tuple of elementary steps (`Program`): take or give a lock, set a
field of a mirror, load and store a register, restart an address, write a word;
`next` is the step a thread is at.  Every thread makes one call, of which no two
are the same.
`WITH_MUTEX(lock)` holds the lock for the one statement that follows it, and
`WRITE_DSP_MIRROR` is two: `WriteMirror` stores after the lock has been given
up, `WriteField` before.  Each word in a memory says which memory it was meant
for.  Calls that write a register of their own are left out.

### BunchBank and BunchText

Each client has a list of records (`work`) that its operation has still to
write: with a waveform that is given, with that of the record after an edit of
the selected bunches, or with that of another bank.  `stage` is how far it is
with the first of them.  Clients work side by side, but EPICS processes a record
for one client at a time (`RecordFree`).  Processing stores the waveform, computes
the record's part of the configuration and stores that, and writes the whole
bank, word by word, under the lock of the axis; ENABLE also refreshes OUTWF.
ENABLE and GAIN of a source are two records that compute the same gains from both
waveforms, with no lock between them, so computing (`MixSource`) and storing
(`SetConfig`) are two steps.  `intended` is what the operations ask for, one at a
time; `crossed` notes that two have met on a bank, `overtaken` that gains computed
before a change were stored with nobody left to store those after it.

`BunchText` takes every waveform, every choice of enables and every text up to a
length, runs the algorithm of the code, and compares with `SummaryTrue` and with
`WellFormed` and `Meant`, which say what the results mean without saying how to
find them.

### MinMaxSum

The gateware fills one of two banks turn by turn and switches when the count is
asked for; the call that holds the mutex reads and resets the other, row by row.
`window` is the range of turns that is in the accumulator, a history variable:
`PublishedExact` compares a reading with the statistics of its turns.  Samples
have 16 bits (`MmsAssumption`), `Low` and `High` being what minima and maxima are
reset to.  `NoStd` stands for the infinities that `update_archive_pvs()` resets the
smallest and largest deviations to; no deviation is less than zero.
`archived.order` tells the first archive after a start, whose minimum starts from
the zero the IOC allocates, from later ones.

### Converter and BunchFir

EPICS processes records that nothing links side by side.  `Converter` has the two
source records of a converter, each of which writes its register and then looks
up and sets the delays of both (`FetchDelay`, `SetDelay`), and ENABLE of each axis
with the scan of the events whose first two passes (`Tick`) hold the outputs off.
In `BunchFir` the settings, USEWF and the waveforms TAPS_S act on one
`struct fir_bank` without a lock: the taps are looked up, stored and written to
the hardware in three steps (`LookUp`, `StoreTaps`, `WriteBankTaps`), in LMBF mode
for one axis after the other.  Taps are a value that says where they come from;
how they are computed is left out.

Nothing orders these records, and the last to store wins.  History variables single
out exactly the store that goes wrong: `replaced` says of a delay in hand that the
other record has since replaced its source, `stale` that such a delay was the last
one set; `behind` says of taps in hand that others have been chosen since,
`outdated` that such taps were the last ones stored.  They are cleared by the next
store, and a record that replaces a source or chooses taps always stores once
itself, so that a meeting in which it comes last must end right.

### Components side by side

`MCTriggers`, `MCInterfaces`, `MCReadout` and `MCRecords` each extend several
components that share no variable.  `part`, chosen in the initial state and
never changed, says which of them runs; the others stay in one fixed initial
state.  Fairness is that of the part that runs.  A run of such a module checks
its components one after the other with one configuration; it says nothing
about their interaction, which `TriggerSystem` and `DriverCore` are for.

## Runs

| Run | Checks | Bounds |
|---|---|---|
| `trigger_target` | `SharedCorrect`, `LocksCorrect`, refinement of `ReadoutExclusion`, admission of waiting readers; for the sequencer `ConfigFollows`, sequences end | a sequencer, the memory, 2 readers, every mode and operation; 2 clients and 2 configurations in two scenarios, `Flagged` (edits that flag themselves, automatic re-arming, no disarm) and `Alone` (all operations of one client) |
| `trigger_system` | readers undisturbed by the hardware, events in order, busy and armed end | a sequencer, the memory, 1 reader; scenarios `ReadWhileArming` (all operations but disarm), `DisarmSequencers` (all operations on sequencers, nobody reads) and `DisarmMemory` (all operations on the memory, nobody reads) |
| `interfaces` | `FilesSafe`, `DmaSafe`, `DriverEnds`; `EventsExact`, no missed wake-up, delivery; `TrafficFaithful` (lines whole, replies in order), `ConnectionEnds` | 2 files of each kind, one kill in each life of the board, any number of lives; 2 events, 2 readers; 2 lines of 2, 3 or 4 characters, a line buffer of 4, which takes 2, input buffer 2, output buffer 3, errors and blocks of 2 |
| `tune_pll` | `Settled`, phase follows, stop shown | one START record, one delay, one base frequency, 2 offsets, one write of a setting |
| `readout` | no hidden gap, published buffers stable, buffers completed; `ReadFaithful`, streams end; `CaptureCorrect`, captures shown | FIFO of 2 (half full at 1), buffers of 3, numbers modulo 3; 32 words, 2 bunches, transfers of 10 aligned to 2, read buffer 11, write buffer 16, counts 0, 3, 5, decimations 1, 2, 5, delays 0, 2; 2 captures, one write of a record, 5 saved selections |
| `records` | `RegistersCorrect`; `BanksCorrect`; `TextExact`; `StatisticsCorrect` (published and archived); `ConverterCorrect`; `FirFollows` | 2 threads; 2 clients with 2 operations, 3 bunches, 2 axes; texts of up to 6 tokens; 2 bunches, 5 turns, a count that overflows at 2; 3 writes of sources and enables; 3 writes of filter records, both modes |

Every run also checks the types of its components.

Why these are enough.  A target meets another only through the shared state, for
which two targets of the two kinds (a sequencer stops when disarmed, the memory
is forced) show every combination of the table; a second reader is needed to
have one wait while another holds.  One configuration to be replaced by another
is all that the dirty flags can tell apart.  In the driver a second read is what
inherits the engine from a killed one, and a second file what races a lock; a
further kill would find the engine in a state the first one can leave it in.
The proofs show the safety properties of `TriggerTarget`, `SequencerArm`,
`InterruptEvents`, `DriverCore`, `PllFifo`, `TunePll`, `MemoryCapture`,
`Converter`, `BunchFir`, `TriggerSystem`, `HwRegisters`, `BunchBank`, `BunchText`
and `SocketServer` for any number of targets, readers, clients, configurations,
events, files, records, writes, captures, threads, bunches and lines and any sizes
of the FIFO, of buffers, of lines and of texts, so that for them the runs only have to be large enough to trust the
statement.  In the
socket server a line of 2 characters just fits and is handled, after it has been set
aside and continued, since with its end it is longer than the input buffer; lines
of 3 and 4 are one and two too long and are refused; the next line may begin in
the same read.  Replies are longer than the output buffer.
The memory wraps within a request, the driver cuts at sizes that are no multiple
of a turn, chunks and blocks end inside a request, and a decimation too large is
refused.  A FIFO of 2 overflows, leaves a residue and is reset, in each phase of
a call.  Five turns fill both banks, switch twice, and overflow the count.

Fairness.  `ReaderFairness`: a waiting reader is woken by its deadline after at
most ten seconds (`POLL_INTERVAL`) and then looks at the target.  `SysFairness`:
delays run out and captures end by the clock of the hardware, a thread that
holds `trigger_mutex` goes on (weak); the events thread gets the mutex sooner or
later although others take it again and again (strong, since a mutex is not a
queue).  No fairness for external triggers, operators, readers or clients.
`ArmFairness` is the same at the grain of two mutexes, and in `EventFairness`
the readers are `events_thread()`, which does nothing but read again.
`Fairness` of `DriverCore`: transfers end, the handler of an enabled
interrupt runs, removal goes on once begun, as do reads that hold the mutex
(weak); a read that waits for the mutex gets it (strong).  Nobody has to open or
close a file, or remove a board.  `ServerFairness`: threads go on, and a write
ends if the client reads, is gone, or there is a send timeout; a client need not
send, read or leave.  `PllFairness`: the run control of the gateware gets
through its transient states, EPICS processes the records it is asked to process
(without which `interlock_wait()` would not end), each waiting update gets its
turn (strong).  `FifoFairness`: samples go on coming to a running FIFO, EPICS
processes, and the events thread gets the mutex of the FIFO (strong).
`ReadFairness` and `CaptureFairness`: threads go on and get `dram_mutex`
(strong); captures need not happen.

### Disagreements between the code and its comments

Six runs each check one statement of a comment and find it does not hold.

* `reader_undisturbed`: "ready to deliver data without interference"
  (`trigger_target.c:530`).  Disarming a sequencer that has just been triggered
  makes the target idle for the software; a reader is admitted while the
  sequencer runs.
* `soft_follows_rearm`: "Rearm and automatically fire soft trigger"
  (`trigger_target.h:14`).  With a reader waiting the soft trigger goes out
  without the arming, and the arming later without a soft trigger.
* `scale_after_disarm`: "an accurate view of the detector scaling"
  (`sequencer.c:447`).  Arming twice without a readout in between copies a
  cleared flag over one that was still to be acted upon.
* `rearm_completes`: the mutex is there "to ensure we don't have surprises if
  settings are changed while rearming" (`sequencer.c:567`).  `RESET` and arming
  take the two mutexes in opposite orders and can block each other for ever.
* `safely_released`: removal waits for all files "so that we can safely release
  the hardware resources" (`amc525_mbf_core.c:362`).  The transfer of a killed
  read outlives its file, and the buffer is freed while the engine writes to it.
* `seq_config_complete`: "Writes complete active sequencer configuration in
  preparation for triggered operation" (`hardware.h:375`).  Because
  `WITH_MUTEX(...) WRITE_DSP_MIRROR(...)` writes the register after the lock has
  been released, the record of the trigger state can send part of the
  configuration to another memory of the sequencer.

### Properties with conditions

The passing runs say what holds short of these disagreements, and where the code
does not aim at more:

* `ReaderUndisturbed` and `EventsInOrder`: nobody reads while sequencers are
  disarmed (scenarios), nothing is disarmed for the expected events;
* `BusyEnds`: the memory, if it is disarmed, may stay busy with its capture running
  (`BusyForEver`): when a capture has been stopped before the event of its trigger
  was handled, and the memory is armed again, this event makes the software take the
  new capture for triggered, and `disarm_target()` no longer fires it;
* `ArmedEnds`: a target that is disarmed again and again may be shown as armed
  although its trigger has been sent;
* `ConfigFollows`: no sequence is abandoned and every edit flags itself; the
  records whose flag is set by `UPDATE_COUNT`, a moment later, are left out;
* `DmaSafe`: no read has been killed (`kills = 0`);
* `Settled`: a stop asked for while the feedback is starting leaves its reason in
  the status (the first part), and a start between the check of the status and
  `disable_readout_fifo()` does stop the FIFO of the new run (the second);
* `CaptureCorrect`: no two readouts crossed, and no capture ended during one;
* `RegistersCorrect`: registers that are written after their lock has been
  released are not among those it speaks of;
* `BanksCorrect`: what several records are written for is exact as long as no
  other client works on the same bank; the hardware follows the records unless
  gains that were computed before a change of the other waveform of their source
  are the last ones stored (`bunch_select.c:517`), which stay until ENABLE or GAIN
  is written again;
* `PublishedExact`, in `StatisticsCorrect`: not the readings after a change of source or an overflow of
  the count of turns (which is logged), nor the first from a bank that held
  something before the IOC was started;
* `ArchiveExact`, also there: archives with at least one reading; the minimum of the first
  archive starts from zero;
* `ConverterCorrect`: a delay is right unless the last to set it was a record that had
  looked it up before the other replaced its source (`dac.c:118`); the registers and
  the other delay are right in any case.  An output is right unless its ENABLE was
  last written after the first tick had set that output and before the second, where
  nothing acts on it (`dac.c:88`);
* `FirFollows`: the taps of an axis are those chosen unless the last to store them had
  looked them up before others were chosen (`bunch_fir.c:81`); that the hardware has
  what the bank shows, and that the axes agree in LMBF mode, holds in any case;
* `RepliesInOrder`, in `TrafficFaithful`, and `ReadFaithful`: short of an error of the connection, and of a
  failed read, after which the data of the frame is what the buffer held.

## Proofs

`TriggerProofs` proves, for any finite set of readers, any set of
sequencers and a memory that is not one of them (`DramAssumption`,
`ReadersAssumption`): `TypeCorrect`, `SharedStateHolds` (`SharedCorrect`, with
`SharedStateCorrect` and `SharedLockReleased` for its parts), `LocksHold`
(`LocksCorrect`, with `LockCountCorrect`, `ReadoutSafe` and `WritesCorrect`),
`ReadinessKept` and `Refinement`.  The inductive invariant `IInv` is the
conjunction of types and these state properties: the shared state is
`GlobalState(mode, state)`, without which nothing is known of the guard of
`arm_shared_targets()`, which tests it instead of the targets; a LOCKED shared
state has a locked target; lock counts are the cardinalities of the readers,
which turns the test `lock_count == 0` into "nobody holds or waits"; a held
target is ready; and the register writes of the last operation are for targets
that are armed.  The lemmas follow the code: one for each tail (`Settle`,
`UpdateGlobalState`, `ArmSharedTargets`, `ArmOneTarget`), then one for each
operation that ends in it.  `WritesMatch` is what a tail is told of the writes
its caller has made.  `ReadinessKept` and `Refinement` come from the same lemmas,
which also say which targets an operation may start and stop.

`TriggerSystemProofs` proves, for any sequencers, readers and scenarios
(`SeqsAssumption`, `ScenariosAssumption` and those above): `SysTypeCorrect`,
`ReadersUndisturbed` (`ReaderUndisturbed`, if in no scenario somebody disarms
targets while others read, without which it is false: run `reader_undisturbed`)
and `EventsHandledInOrder` (`EventsInOrder`).  `LockInv` is the software side, as
above, without what is said there of the writes of a
whole operation, which are made one by one here.  `CaptureInv` is the other side:
`TargetInv` says for each software state of a target where the trigger handler
and the engine are, which register writes are still to be made and which events
are on their way, in the driver or in the batch.  So a target that is idle or
locked has its hardware at rest, an armed one waits or has an unhandled
trigger, a busy one captures or has an unhandled completion.  `TodoInv` is why
one batch is enough: what completes was triggered before, and a read takes all
the events there are.

In `InterfaceProofs`, the part about `InterruptEvents` proves
`EventTypeCorrect`, `WakeUpCorrect`, `LatchImplemented` and
`NoneDeliveredTwice`, and the last two together as `EventsPassedOn`, for any
events and readers.  The invariant adds that between
fetch and acknowledge the interrupts seen are still latched, and that only a read
that is done holds a mask.

The part about `DriverCore` proves, for any finite set of files (`FilesAssumption`,
`NoneAssumption`) and any number of kills: `TypeCorrect`, `RemovalWaits`,
`LockExclusive`, `OwnTransfer` and `RemovalAtRest`, two by two as `FilesCounted`
and `BufferOwned`.  It has two invariants.
`LifeInv` counts: `refcount` is the number of files that are not closed, plus the
one removal has not given up yet, and `references` the number of open register
files, so that a removal that has been woken has nobody left and a lock taken
with one reference is taken by the only file.  `DmaInv` holds until a read is
killed: the sign that a transfer has ended is in one place at a time, the latch,
the handler or the completion, and only while the owner of the mutex waits for
it.

In `ReadoutProofs`, the part about `PllFifo` proves, for any sizes with a FIFO smaller than the waveform
buffer and a mark inside the FIFO (`FifoAssumption`), and for a call that finds
EPICS busy at any point: `FifoTypeCorrect`, `ShownBufferStable`
(`PublishedStable`) and `SamplesFollow` (`NoHiddenGap`).  The inductive
invariant is in two layers.  `CallInv` is about the call that holds the mutex:
the words it has still to read are in the hardware (`WordsInv`), a flush
is only under way in a start (`FlushInv`), and it changes
the buffer only when EPICS has given it back (`OwnerInv`); the first two theorems
follow from it.  `FifoIInv` adds where a gap can be: never inside the hardware queue,
only after its end (`HwInv`), not in front of the first sample after a start
(`StartInv`), and where it lies inside the data of a call, the call knows
(`SeamInv`).  `GapInv` joins what EPICS has been shown, the waveform buffer, the
words read and the words still to come into one sequence, and says that it is
unbroken but at the known breaks.  Each step of a call moves the border between
two of these parts, so that most of the proof is about what concatenation,
`Append`, `Front` and a suffix do to an unbroken sequence.

`SequencerArmProofs` proves, for any clients, configurations and scenarios in
which "events" is not a client and nobody is not a thread (`ClientsAssumption`,
`ScenariosAssumption`): `ArmTypeCorrect` and `ConfigurationFollows`
(`ConfigFollows`).  Everything but the types is only kept while no sequence has
been abandoned and every edit flags itself (`Straight`), so `IInv` has it under
that condition, and each step first shows that it was true before.  `PrepareInv`
says that whoever prepares the sequencer holds `trigger_mutex` and found the target
idle, which is what `seq->mutex` alone would not give; `CycleInv` places the
target, the hardware, the interrupts and the batch being handled on the one way
round from arming to completion; `FlagInv` gives the two dirty flags their
meaning: without `seq_config_dirty` the next sequence is configured like the
last, without `seq_hw_config_dirty` this one is configured like the scale.

`TunePllProofs` proves, for any number of start records and writes and any
delays, frequencies and offsets (`TunePllAssumption`, `StartersAssumption`):
`PllTypeCorrect` and `SettledCorrect` (`Settled`).  `RunInv` ties the enable bit
that software reads as running to the state of the gateware and gives each stop a
reason; `StatusInv` says what an update that has read the register before the
others can still leave in the status, in particular that with the event of a
stop taken and read the stop is shown; `FifoInv` that a start that has met no
earlier stop gets its FIFO and keeps it; `FrequencyInv` that the frequency shown
is that of the NCO or will be read again.

The part of `ReadoutProofs` about `MemoryCapture` proves, for any number of captures and writes and any
saved selections (`CaptureAssumption`): `CaptureTypeCorrect` and
`CaptureIsCorrect` (`CaptureCorrect`).  `SelectInv` says that the registers and
records `write_memory_select()` changes one after the other all belong to one
entry of the table before and after, and with the table itself that a selection
asked for by one record is never undone by `find_selection()`.  `ReadoutInv` holds
until two readouts meet: one thread reads at a time, and what it has read is of
the last capture.

The part about `MemoryRead` proves, for any sizes of memory, transfers, buffers
and turns, any requests and any place of the trigger (`MemoryReadAssumption`; that
a write buffer holds a turn of values and a read buffer two turns is what
`socket_command.c` chooses its sizes for): `ReadTypeCorrect` and `ReadIsFaithful`
(`ReadFaithful`).  `ReaderInv` follows each of the two reads through the shared
file: the words read so far are those that follow the address asked for, round
the end of memory, and the file is at the next one as long as the read holds
`dram_mutex`.  `StreamInv` says where the command is: chunks and blocks end on
the grain of the format (a turn, a decimated turn, a word), and the values sent
are the first `s` samples of what `Wanted` says for some `s`; so a block, a chunk
and the answer end where the next begins.  The rest is arithmetic: `BlockOf` and
the lemmas around it show that the division of a chunk into blocks, turns and
channels finds the word that `Wanted` computes from the request alone.  Division
and multiplication by a size that is not known are beyond the SMT solver, and
the lemmas `Products`, `Order` and `DivisionUnique` give it the few facts needed.

`RecordsProofs` proves, for any number of writes and any phase offset
(`ConverterAssumption`, `BunchFirAssumption`): `ConverterTypeCorrect`,
`SourcesFollowed` (`ConverterCorrect`), `FirTypeCorrect` and `TapsFollowed`
(`FirFollows`).  `SourceInv` says that a delay that is wrong is one its own record
has still to set, or `stale`, and that a delay in hand is right unless its source has
been `replaced`; `OutputInv` that the outputs
behind the first tick agree with ENABLE.  For the filter, `StoredInv` says that
taps stored are those chosen unless they are `outdated` or a record is on its way to
store them again (`WillStore`), in LMBF mode perhaps by way of the first axis;
taps in hand are those chosen unless they are `behind`, and `HeldInv` and
`LoadedInv` follow them from the record's hand to the hardware, and `CourseInv`
says which record can be where.

For the registers, `RecordsProofs` proves, for any number of threads with one
call each (`RegAssumption`): `RegTypeCorrect` and `RegistersHold`
(`RegistersCorrect`).  The programs are constants, so what is needed of them is
said once for each kind of call (`CallSound`) and for each step of it
(`StepSound`): what a step writes lies under the lock the call holds there, and
the steps before it have selected the memory.  The invariant has a part for each
thing that is shared: a lock has the thread that is between taking and giving it
(`LockInv`); a register that is only written under its lock differs from its
mirror only while some call is about to store it, and what a thread has loaded of
it is still the mirror (`HeldRegsInv`); the address and the bank a block was
given are those of the call under way (`AddressInv`, `BankInv`), so that the words
written so far are in the memory they are meant for (`WordsInv`); and the answer
of the SPI belongs to the question (`SpiInv`).

For the statistics, `RecordsProofs` proves, for any samples of 16 bits, any number
of bunches and turns and any width of the count of turns (`MmsAssumption`):
`MmsTypeCorrect` and `StatisticsAreCorrect` (`StatisticsCorrect`).  The invariant
`MmsInv` places every turn since the last publication: the bank that is written
has the turns since the banks switched (`WrittenInv`); of the other bank, what is
still to be read and the rows already read have together the turns between the
last reading and the switch, in the order of the addresses (`ReadoutInv`,
`RowInv`); the accumulator has those of `window` (`AccumInv`).  `CountInv` says that
these three ranges meet, and that the count read is the number of turns of the
second.  Each is claimed under the condition that makes it true: one source
throughout, no overflow of the count, a bank that was empty when it was selected.
`VarianceInv` says the same of the variances and the readings SCAN has published.
That a sum over the turns of two ranges is the sum of the two sums is a fact about
a recursive function, proved from the least turn at which it would fail (`NatMin`,
`SumsExist`).

The part of `InterfaceProofs` about `SocketServer` proves, for any sizes of the buffers and of lines, errors and
blocks and any number of lines (`SocketAssumption`: what is asked of the code's
constants is that an error fits into the output buffer): `ServerTypeCorrect` and
`TrafficHolds` (`TrafficFaithful`).  The two directions are separate.  `ReplySide`
says that what has been sent, what is being sent and what is buffered are together
the characters written, in order, short of an error (`ReplyInv`), and where in the
code nothing may be left in the buffer (`PlaceInv`).  `LineSide` says the same of
the lines: the line being assembled, the input buffer and what is on the wire are
together all that was asked and is not yet handled.  `Layout` states this by
positions -- line `n` starts at `start[n]` and is made of the number `n` -- since
a sequence of lines of any length can then be reasoned about without induction:
`TakeOne` takes the first line away, `ExtendOne` puts one at the end, and
`Advance` moves a character boundary between two buffers.

In `BunchProofs`, the part about `BunchText` proves, for any number of bunches,
any values and texts of any length (`TextAssumption`): `TextTypeCorrect` and
`TextsHold` (`TextExact`).  The one pass of `assess_complexity()` is compared with
what the counts mean by `ComplexityTrue`.  For the parser, `ListInv` says that the
tokens taken so far are a list of items and that what has been selected is what
this list means, unless a colon follows them, an error that no further token
can put right (`Spoiled`).  `ItemIs` says what the parser takes from the front of
what is left, `OneMore` that a list with one more item is a list.

The part about `BunchBank` proves, for any clients, bunches, offsets, gains and
waveforms, and for one or two axes (`BankAssumption`): `BankTypeCorrect` and
`BanksHold` (`BanksCorrect`).  For the hardware the invariant follows a waveform on
its way: the configuration of a source is that of its waveforms, or a client is
about to set it (`ConfigInv`); each word of an axis is that of the configuration, or
a client that holds the lock or waits for it has still to write it (`HwInv`); and
the port of an axis is where its writer thinks it is (`LockInv`).  For the
operations, `CrossInv` holds as long as no two have met on a bank (`Apart`): what a
record that has still to be written will be given is what was wanted (`Good`), and
each record of a bank is what was wanted or has still to be written (`Fine`).  An
operation therefore starts from records that are exact (`Alone`), and `Effect` is
what has to be shown of it alone.

The runs that check components side by side have one type invariant, `TypesOK`,
the conjunction of those of the components.  `TriggerTypesCorrect`,
`InterfaceTypesCorrect`, `ReadoutTypesCorrect` and `RecordTypesCorrect` prove it of
each composition: a behaviour of all is one of each component, whose steps leave
the variables of the others alone.

Every invariant that a passing run checks is therefore the property of a theorem.
So are the two refinements (`ExclusionSpec`, `LatchSpec` with `EventsExact`) and
the action properties (`ReadyStable`, `PublishedStable`, `StatisticsCorrect`).
Model-checked only is liveness, which with fairness and ENABLED is out of the
provers' reach: `WaiterAdmitted`, `SequenceEnds`, `BusyEnds`, `ArmedEnds`,
`DriverEnds`, `EventsDelivered`, `ConnectionEnds`, `PhaseFollows`, `StopShown`,
`BuffersComplete`, `StreamEnds` and `CaptureShown`; and the properties that runs
refute, which say what the code does not keep.

The provers have no induction over data: the library's induction theorems take
an operator as a parameter.  Where a proof needs what a recursive function or a
least element is, it takes the least counterexample in a set of numbers instead
(`LeastIs` in `BunchProofs`, `NatMin` in `RecordsProofs`), from the fact that the
order of the numbers is well founded.  `MmsInv` was
checked by TLC on the constants of the run `records` before it was proved.

## Not modelled

The fixed point signal processing of the gateware and the bus protocols, which
have test benches of their own; those records of the ADC, DAC, FIR, NCO and
delays that write one setting each through to a register (where registers or
memories are shared, `HwRegisters` has the calls they make; those of `delay.c` are
linked, so that EPICS processes one of them at a time); start up and configuration, which run
before anything is concurrent; the formatting and parsing of commands and
replies; the Python, Matlab and OPI clients.

Known and left out of the models:

* an error of a DMA transfer is noticed only before the next transfer
  (`dma_control.c:123`), and what the failed one has copied is not looked at;
* an open that has found the device in the kernel's tables is assumed to reach
  the reference count before the state is freed (`amc525_mbf_core.c:119`);
* the clean-up of a probe that fails (`amc525_mbf_core.c:350`);
* connection threads are detached, and may outlive the files that
  `terminate_hardware()` closes (`socket_server.c:142`);
* the records of the detector configuration of the tune PLL, of which two may
  write each other's old value (`tune_pll.c:395`);
* the FIR status of a bank is computed from values that are not masked, and
  without enables (`bunch_select.c:674`);
* ENABLE of an output written between the first and the second tick is dropped,
  although the counter is there "to delay updates" (`dac.c:62`), and outputs go on
  after one tick where the comment has them off for two (`dac.c:68`): the
  condition of `ConverterCorrect`;
* the arithmetic of `compute_scale_info()` (`sequencer.c:372`).

## Plan

In this order, each with its properties and, where it says so, proofs.

1. `TriggerTarget`, `ReadoutExclusion`, `TriggerSystem`, `SequencerArm`,
   `InterruptEvents`, `EventLatch`, `DmaControl`, `DriverCore`: done, with proofs
   about all.
2. `SocketServer`, `MemoryRead`, `MemoryCapture`, `TunePll`, `PllFifo`,
   `HwRegisters`, `BunchBank`, `BunchText`, `MinMaxSum`, `Converter`, `BunchFir`:
   done, model-checked, with proofs about all.
3. To come: `compute_scale_info()` and the delays of `delay.c` against
   reference definitions over bounded inputs; several connections of the socket
   server at a time, with the locks of `TriggerTarget` in place of a grant.
