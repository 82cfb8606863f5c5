------------------------------ MODULE MinMaxSum ------------------------------
(***************************************************************************)
(* Min/max/sum of each bunch over turns, from the two banks of memory in   *)
(* the gateware (min_max_sum_bank.vhd, min_max_sum_store.vhd) through the  *)
(* accumulators of epics/src/mms.c to the waveforms of SCAN and ARCHIVE.   *)
(* A thread polls, the SCAN record publishes, and another record changes   *)
(* what is measured, as turns go by; the IOC may be restarted at any       *)
(* moment, and the gateware goes on as it was.                             *)
(*                                                                         *)
(* Left out: overflow of the sums (flagged as that of the turns is), the   *)
(* delta event, and what follows from the values kept here (delta, means). *)
(***************************************************************************)
EXTENDS Integers, Sequences, FiniteSetsExt

CONSTANTS
  MmsBunches,    \* bunches per turn
  Sample(_, _),  \* the sample of a bunch in a turn
  MaxTurns,      \* bound on the turns
  TurnWrap       \* what a count of turns has room for (2^29)

MmsBunch == 0 .. MmsBunches - 1
MmsBank == {0, 1}
TapSource == {0, 1}   \* two sources; each comes with its own delay

\* A sample has 16 bits.
Low == -32768          \* 0x8000
High == 32767          \* 0x7FFF

ASSUME MmsAssumption ==
  /\ MmsBunches \in Nat \ {0} /\ TurnWrap \in Nat \ {0} /\ MaxTurns \in Nat
  /\ \A k \in 1 .. MaxTurns, j \in MmsBunch : Sample(k, j) \in Low .. High

VARIABLES
  hw,            \* the gateware
  tap, offset,   \* the source measured, and mms->bunch_offset
  choice,        \* the source being written, if any
  poller,        \* what the thread does next
  mms,           \* the call that has mms->mutex
  accum,         \* struct mms_accum, without the variances
  variance,      \* variance_sum and its count, std_min_wf, std_max_wf
  shown,         \* struct mms_epics
  archived,      \* its archive waveforms
  reading,       \* EPICS is processing the archive waveforms
  history,       \* history: the source of every turn
  window,        \* history: the turns in accum, whether they are as expected
  scans,         \* history: what SCAN has published since the last archive
  restarted      \* bound: the IOC is restarted once

mmsHw == <<hw, tap, history>>
mmsSource == <<offset, choice>>
mmsShown == <<shown, archived, reading, variance, scans>>
mmsVars == <<mmsHw, mmsSource, poller, mms, accum, window, mmsShown, restarted>>

NoStd == -1            \* in place of INFINITY and -INFINITY
ResetRow == [min |-> High, max |-> Low, sum |-> 0, sum2 |-> 0]
ZeroRow == [min |-> 0, max |-> 0, sum |-> 0, sum2 |-> 0]
All(x) == [i \in MmsBunch |-> x]

NoMms == [by |-> "none", phase |-> "none", turns |-> 0, ovfl |-> FALSE,
          rows |-> <<>>]
NoWindow == [first |-> 1, last |-> 0, doubt |-> TRUE, stale |-> FALSE]
NoVariance == [count |-> 0, sum |-> All(0), min |-> All(0), max |-> All(0)]

\* What the IOC allocates at its start is zero.
Accum0 == [turns |-> 0, row |-> All(ZeroRow)]
Shown0 == [turns |-> 0, row |-> All(ZeroRow), window |-> NoWindow]
Archived0 == [value |-> NoVariance, scans |-> <<>>, order |-> "none"]

\* The memories of the gateware are zero when it is loaded.
MmsInit ==
  /\ hw = [bank |-> 0, rows |-> [b \in MmsBank |-> All(ZeroRow)], frames |-> 0,
           ovfl |-> FALSE, request |-> FALSE, turns |-> 0, countOvfl |-> FALSE,
           addr |-> 0, stale |-> {0}, switched |-> 0]
  /\ tap = 0 /\ history = <<>> /\ restarted = FALSE
  /\ poller = "start" /\ mms = NoMms /\ accum = Accum0 /\ variance = NoVariance
  /\ shown = Shown0 /\ archived = Archived0 /\ reading = FALSE
  /\ window = NoWindow /\ scans = <<>> /\ offset = 0 /\ choice = {}

-----------------------------------------------------------------------------
(* The gateware.                                                           *)

\* min_max_sum_update.vhd
Lower(a, b) == IF a < b THEN a ELSE b
Higher(a, b) == IF a > b THEN a ELSE b
Updated(row, x) ==
  [min |-> Lower(row.min, x), max |-> Higher(row.max, x),
   sum |-> row.sum + x, sum2 |-> row.sum2 + x * x]

\* The bunch at an address: the samples come late by the delay of the source.
BunchAt(i, source) == (i + MmsBunches - source) % MmsBunches

\* Mutant of CountRegister: the top bit of the count is not dropped.
CountRegisterWide(frames) == frames

\* MMS_COUNT_TURNS_BITS
CountRegister(frames) == frames % TurnWrap

\* A turn goes to the selected bank; the turn clock at its end counts it, or
\* switches banks if that is asked for.
Turn ==
  /\ Len(history) < MaxTurns
  /\ history' = Append(history, tap)
  /\ LET turn == Len(history) + 1
         rows == [hw.rows EXCEPT ![hw.bank] = [i \in MmsBunch |->
                    Updated(hw.rows[hw.bank][i],
                            Sample(turn, BunchAt(i, tap)))]]
         other == 1 - hw.bank
     IN  hw' = IF hw.request
               THEN [hw EXCEPT
                       !.rows = rows, !.bank = other, !.request = FALSE,
                       !.turns = CountRegister(hw.frames),
                       !.countOvfl = hw.ovfl,
                       !.frames = 0, !.ovfl = FALSE, !.addr = 0,
                       !.stale = IF rows[other] = All(ResetRow)
                                 THEN @ \ {other} ELSE @ \cup {other},
                       !.switched = turn]
               ELSE [hw EXCEPT
                       !.rows = rows, !.frames = @ + 1,
                       !.ovfl = @ \/ hw.frames + 1 >= TurnWrap]
  /\ UNCHANGED <<tap, mmsSource, poller, mms, accum, window, mmsShown,
                 restarted>>

-----------------------------------------------------------------------------
(* read_raw_mms() and what is done with it, under mms->mutex.              *)

TakeMms(by) ==
  /\ mms.by = "none"
  /\ mms' = [NoMms EXCEPT !.by = by,
               !.phase = IF by = "archive" THEN "archive" ELSE "ask"]
  /\ UNCHANGED <<mmsHw, mmsSource, accum, window, mmsShown, restarted>>

\* read_mms_thread(): the first call initialises; after a poll it may be
\* time for the archive.
PollMms ==
  \/ poller = "start" /\ poller' = "poll" /\ TakeMms("init")
  \/ poller \in {"poll", "polled"} /\ poller' = "polled" /\ TakeMms("poll")
  \/ poller = "polled" /\ poller' = "poll" /\ TakeMms("archive")

\* The SCAN record (start_mms_readback)
ScanMms == TakeMms("scan") /\ UNCHANGED poller

\* The read of the count asks for a switch, and waits for it.
AskCount ==
  /\ mms.phase = "ask"
  /\ hw' = [hw EXCEPT !.request = TRUE]
  /\ mms' = [mms EXCEPT !.phase = "wait"]
  /\ UNCHANGED <<tap, history, mmsSource, poller, accum, window, mmsShown,
                 restarted>>

\* Mutant of TurnsRead: the turn at whose end the banks switch is forgotten.
TurnsReadShort == hw.turns

\* result->turns
TurnsRead == hw.turns + 1

ReadCount ==
  /\ mms.phase = "wait" /\ ~hw.request
  /\ mms' = [mms EXCEPT !.phase = "rows", !.turns = TurnsRead,
                        !.ovfl = hw.countOvfl]
  /\ UNCHANGED <<mmsHw, mmsSource, poller, accum, window, mmsShown, restarted>>

\* The words of a bunch; the last one resets it and steps the address.
ReadRow ==
  /\ mms.phase = "rows" /\ Len(mms.rows) < MmsBunches
  /\ LET b == 1 - hw.bank
     IN  /\ mms' = [mms EXCEPT !.rows = Append(@, hw.rows[b][hw.addr])]
         /\ hw' = [hw EXCEPT !.rows[b][hw.addr] = ResetRow,
                             !.addr = (@ + 1) % MmsBunches]
  /\ UNCHANGED <<tap, history, mmsSource, poller, accum, window, mmsShown,
                 restarted>>

\* reset_accum()
NoAccum == [turns |-> 0, row |-> All(ResetRow)]

\* update_accum(), from the offset on (FOR_BUNCHES_OFFSET)
Accumulated ==
  [turns |-> accum.turns + mms.turns,
   row |-> [j \in MmsBunch |->
     LET a == accum.row[j]
         r == mms.rows[((j + offset) % MmsBunches) + 1]
     IN  [min |-> Lower(a.min, r.min), max |-> Higher(a.max, r.max),
          sum |-> a.sum + r.sum, sum2 |-> a.sum2 + r.sum2]]]

\* The turns just read: not as expected if they overflowed the count or were
\* not all of the source the offset is for; stale if the bank was not empty.
Widened ==
  [window EXCEPT
     !.last = hw.switched,
     !.doubt = @ \/ mms.ovfl
                 \/ \E k \in window.last + 1 .. hw.switched :
                      history[k] # offset,
     !.stale = @ \/ 1 - hw.bank \in hw.stale]
NextWindow == [first |-> hw.switched + 1, last |-> hw.switched,
               doubt |-> FALSE, stale |-> FALSE]

\* The variance of a bunch, the scale left out.
Spread(a) == [j \in MmsBunch |->
  a.turns * a.row[j].sum2 - a.row[j].sum * a.row[j].sum]

\* The standard deviation, the square root left out.
Std(var) == Higher(var, 0)

LowerStd(a, b) == IF a = NoStd THEN b ELSE Lower(a, b)

\* The variances in process_mms_waveforms()
AddVariance(v) ==
  [count |-> variance.count + 1,
   sum |-> [j \in MmsBunch |-> variance.sum[j] + v[j]],
   min |-> [j \in MmsBunch |-> LowerStd(variance.min[j], Std(v[j]))],
   max |-> [j \in MmsBunch |-> Higher(variance.max[j], Std(v[j]))]]

\* All is read: the first call throws it away, a poll accumulates it, SCAN
\* publishes what is accumulated and starts again.
RowsRead ==
  /\ mms.phase = "rows" /\ Len(mms.rows) = MmsBunches
  /\ mms' = NoMms
  /\ CASE mms.by = "init" ->
            /\ accum' = NoAccum /\ window' = NextWindow
            /\ UNCHANGED <<shown, variance, scans>>
       [] mms.by = "poll" ->
            /\ accum' = Accumulated /\ window' = Widened
            /\ UNCHANGED <<shown, variance, scans>>
       [] mms.by = "scan" ->
            /\ shown' = [turns |-> Accumulated.turns, row |-> Accumulated.row,
                         window |-> Widened]
            /\ variance' = AddVariance(Spread(Accumulated))
            /\ scans' = Append(scans, Spread(Accumulated))
            /\ accum' = NoAccum /\ window' = NextWindow
  /\ UNCHANGED <<mmsHw, mmsSource, poller, archived, reading, restarted>>

\* interlock_wait(mms->archive)
ArchiveIdle == ~reading

\* update_archive_pvs(), and interlock_signal() has EPICS process them.
UpdateArchive ==
  /\ mms.phase = "archive" /\ ArchiveIdle
  /\ archived' = [value |-> variance, scans |-> scans,
                  order |-> IF archived.order = "none" THEN "first"
                            ELSE "later"]
  /\ variance' = [count |-> 0, sum |-> All(0), min |-> All(NoStd),
                  max |-> All(NoStd)]
  /\ scans' = <<>> /\ reading' = TRUE
  /\ mms' = NoMms
  /\ UNCHANGED <<mmsHw, mmsSource, poller, accum, window, shown, restarted>>

\* EPICS has processed the archive records; DONE releases the interlock.
ReadArchive ==
  /\ reading /\ reading' = FALSE
  /\ UNCHANGED <<mmsHw, mmsSource, poller, mms, accum, window, shown, archived,
                 variance, scans, restarted>>

\* write_adc_mms_source(), write_dac_mms_source(): first the hardware, then,
\* without mms->mutex, the offset of the source (once: a bound).
WriteTap ==
  /\ \/ /\ choice = {} /\ tap = 0 /\ tap' = 1 /\ choice' = {1}
        /\ UNCHANGED offset
     \/ /\ choice # {} /\ offset' \in choice /\ choice' = {}
        /\ UNCHANGED tap
  /\ UNCHANGED <<hw, history, poller, mms, accum, window, mmsShown, restarted>>

\* The IOC is stopped at any moment and started again.
RestartIoc ==
  /\ ~restarted /\ restarted' = TRUE
  /\ poller' = "start" /\ mms' = NoMms /\ accum' = Accum0
  /\ variance' = NoVariance /\ shown' = Shown0 /\ archived' = Archived0
  /\ reading' = FALSE /\ window' = NoWindow /\ scans' = <<>>
  /\ offset' = tap /\ choice' = {}
  /\ UNCHANGED mmsHw

MmsNext ==
  \/ Turn
  \/ PollMms \/ ScanMms
  \/ AskCount \/ ReadCount \/ ReadRow \/ RowsRead
  \/ UpdateArchive \/ ReadArchive
  \/ WriteTap
  \/ RestartIoc

MmsSpec == MmsInit /\ [][MmsNext]_mmsVars

-----------------------------------------------------------------------------
(* Properties.                                                             *)

MmsTypeOK ==
  /\ hw.bank \in MmsBank /\ hw.frames \in 0 .. MaxTurns
  /\ hw.turns \in 0 .. TurnWrap - 1 /\ hw.addr \in MmsBunch
  /\ tap \in TapSource /\ offset \in TapSource /\ choice \subseteq TapSource
  /\ poller \in {"start", "poll", "polled"}
  /\ mms.by \in {"none", "init", "poll", "scan", "archive"}
  /\ mms.phase \in {"none", "ask", "wait", "rows", "archive"}
  /\ mms.turns \in 0 .. TurnWrap
  /\ reading \in BOOLEAN
  /\ window.last <= Len(history)

\* The sum of x[a] to x[n].
SumOver(x, a, n) ==
  LET s[k \in 0 .. n] == IF k < a THEN 0 ELSE s[k - 1] + x[k] IN s[n]

\* The samples of a bunch, and their squares.
Samples(j) == [k \in 1 .. MaxTurns |-> Sample(k, j)]
Squares(j) == [k \in 1 .. MaxTurns |-> Sample(k, j) * Sample(k, j)]

\* The statistics of the turns of a window.
Turns(w) == w.first .. w.last
RowOf(w, j) ==
  [min |-> Min({Sample(k, j) : k \in Turns(w)}),
   max |-> Max({Sample(k, j) : k \in Turns(w)}),
   sum |-> SumOver(Samples(j), w.first, w.last),
   sum2 |-> SumOver(Squares(j), w.first, w.last)]
Exact ==
  /\ shown.turns = Cardinality(Turns(shown.window))
  /\ \A j \in MmsBunch : shown.row[j] = RowOf(shown.window, j)

\* Every turn is in one and only one of the readings SCAN publishes, with its
\* bunches in their places, however polls and bank switches fall: unless the
\* source has changed, the count of turns overflowed (which is logged), or a
\* bank held something before (read_raw_mms, min_max_sum_bank.vhd).
PublishedExact == ~shown.window.doubt /\ ~shown.window.stale => Exact

\* An archive sums up the readings published since the last one, each once:
\* the minimum of the first archive apart, which starts from zero
\* (process_mms_waveforms, update_archive_pvs).
ArchiveExact ==
  LET s == archived.scans
      v == archived.value
  IN  s # <<>> =>
        /\ v.count = Len(s)
        /\ \A j \in MmsBunch :
             /\ v.sum[j] = SumOver([k \in DOMAIN s |-> s[k][j]], 1, Len(s))
             /\ v.max[j] = Max({Std(s[k][j]) : k \in DOMAIN s})
             /\ archived.order # "first" =>
                  v.min[j] = Min({Std(s[k][j]) : k \in DOMAIN s})

\* While EPICS processes the archive waveforms, they stay as they are, one
\* archive's all three (interlock_wait in update_archive_pvs).
ArchiveKept ==
  reading /\ reading' /\ restarted' = restarted => UNCHANGED archived

\* What SCAN and ARCHIVE publish are the statistics of the turns they claim
\* (none has been read at the start), and an archive is left alone while it is
\* shown (mms.c, min_max_sum_bank.vhd).
StatisticsCorrect ==
  [][PublishedExact' /\ ArchiveExact' /\ ArchiveKept]_mmsVars

=============================================================================
