----------------------------- MODULE ReadoutProofs -----------------------------
(***************************************************************************)
(* Proofs about the ways out of the hardware, for any sizes and without a  *)
(* bound on captures, writes and requests.  PllFifo: what EPICS reads      *)
(* stays as it is, and no sample is lost without a mark.  MemoryCapture:   *)
(* the channels that are captured are those the records were asked for,    *)
(* and the waveforms are those of the last capture unless two readouts     *)
(* have met.  MemoryRead: what is streamed and shown is what was asked     *)
(* for.                                                                    *)
(***************************************************************************)
EXTENDS MCReadout, SequenceTheorems, TLAPS

-----------------------------------------------------------------------------
(***************************************************************************)
(* The FIFO of the tune PLL: PllFifo.                                      *)
(***************************************************************************)

(***************************************************************************)
(* Where the calls are: what they have in hand at each of their register   *)
(* accesses, and when EPICS owns the buffer.                               *)
(***************************************************************************)
CallType == [stage : Stage, phase : Phase \cup {"none"}, flush : BOOLEAN,
             left : 0 .. FifoSize, overrun : BOOLEAN]

FlushInv ==
  /\ call.flush => call.stage \in {"START", "FLUSH"} /\ call.phase # "update"
  /\ call.stage = "FLUSH" => call.flush
  /\ call.phase = "none" => call.stage = "UPDATE"

WordsInv ==
  /\ call.phase = "status" => readBuffer = <<>>
  /\ call.phase = "enable" /\ call.flush => readBuffer = <<>>
  /\ call.phase = "words" =>
       /\ Len(readBuffer) + call.left <= FifoSize
       /\ call.left <= Len(queue)

OwnerInv ==
  /\ reading => epicsBusy
  /\ call.phase \notin {"none", "idle"} => ~epicsBusy

CallInv == FifoTypeOK /\ FlushInv /\ WordsInv /\ OwnerInv

LEMMA NoCallType == NoCall \in CallType
BY FifoAssumption DEF NoCall, CallType, Stage

LEMMA EnteredCall ==
  ASSUME NEW stage \in Stage, NEW flush \in BOOLEAN,
         call' = [NoCall EXCEPT !.stage = stage, !.phase = "idle",
                                !.flush = flush]
  PROVE  /\ call' \in CallType
         /\ call'.stage = stage /\ call'.phase = "idle"
         /\ call'.flush <=> flush
<1>1. call' \in CallType
  BY NoCallType DEF CallType, Phase
<1>2. call'.stage = stage /\ call'.phase = "idle"
  BY NoCallType DEF CallType
<1>3. call'.flush <=> flush
  BY NoCallType DEF CallType
<1>4. QED BY <1>1, <1>2, <1>3

LEMMA UpdateCall ==
  ASSUME call' = [NoCall EXCEPT !.stage = "UPDATE", !.phase = "idle"]
  PROVE  /\ call' \in CallType
         /\ call'.stage = "UPDATE" /\ call'.phase = "idle" /\ ~call'.flush
<1>1. call' \in CallType
  BY NoCallType DEF CallType, Phase, Stage
<1>2. call'.stage = "UPDATE" /\ call'.phase = "idle"
  BY NoCallType DEF CallType
<1>3. ~call'.flush
  BY NoCallType DEF CallType, NoCall
<1>4. QED BY <1>1, <1>2, <1>3

LEMMA GotoCall ==
  ASSUME call \in CallType, NEW next \in Phase, FifoGoto(next)
  PROVE  /\ call' \in CallType
         /\ call'.stage = call.stage /\ call'.phase = next
         /\ call'.left = call.left
         /\ call'.flush <=> call.flush
         /\ call'.overrun <=> call.overrun
<1>1. call' \in CallType
  BY DEF FifoGoto, CallType
<1>2. call'.stage = call.stage /\ call'.phase = next
  BY DEF FifoGoto, CallType
<1>3. call'.left = call.left
  BY DEF FifoGoto, CallType
<1>4. call'.flush <=> call.flush
  BY DEF FifoGoto, CallType
<1>5. call'.overrun <=> call.overrun
  BY DEF FifoGoto, CallType
<1>6. QED BY <1>1, <1>2, <1>3, <1>4, <1>5

LEMMA InitCall == FifoInit => CallInv
<1>1. SUFFICES ASSUME FifoInit PROVE CallInv
  OBVIOUS
<1>2. /\ <<>> \in Seq(Sample) /\ Len(<<>>) = 0
      /\ Len(<<>>) <= FifoSize /\ Len(<<>>) <= BufferSize
  BY FifoAssumption
<1>3. number \in Sample
  BY <1>1, FifoAssumption DEF FifoInit, Sample
<1>4. ready \in [latched : BOOLEAN, taken : BOOLEAN]
  BY <1>1 DEF FifoInit
<1>5. FifoTypeOK
  <2>1. call \in CallType
    BY <1>1, NoCallType DEF FifoInit
  <2>2. /\ queue \in Seq(Sample) /\ Len(queue) <= FifoSize
        /\ buffer \in Seq(Sample) /\ Len(buffer) <= BufferSize
        /\ readBuffer \in Seq(Sample) /\ Len(readBuffer) <= FifoSize
        /\ shown \in Seq(Sample) /\ Len(shown) <= 1
    BY <1>1, <1>2 DEF FifoInit
  <2>3. /\ runState \in {"RUNNING", "OVERRUN", "DELAY", "STARTING"}
        /\ seam \subseteq 0 .. BufferSize
    BY <1>1 DEF FifoInit
  <2>4. QED BY <1>1, <1>3, <1>4, <2>1, <2>2, <2>3
            DEF FifoInit, FifoTypeOK, CallType
<1>6. QED
  BY <1>1, <1>5
     DEF FifoInit, CallInv, FlushInv, WordsInv, OwnerInv, NoCall

LEMMA LatchType ==
  ASSUME ready \in [latched : BOOLEAN, taken : BOOLEAN], LatchEdge
  PROVE  ready' \in [latched : BOOLEAN, taken : BOOLEAN]
BY DEF LatchEdge

LEMMA CallHardware ==
  ASSUME CallInv, Hardware
  PROVE  CallInv'
<1>1. CASE WriteSample
  <2>1. number' \in Sample /\ number \in Sample
    BY <1>1, FifoAssumption DEF WriteSample, CallInv, FifoTypeOK, Sample
  <2>2. queue' \in Seq(Sample) /\ Len(queue') <= FifoSize
        /\ Len(queue') >= Len(queue)
    <3>1. CASE queue' = Append(queue, number) /\ Len(queue) < FifoSize
      BY <3>1, <2>1, AppendProperties, LenProperties, FifoAssumption
         DEF CallInv, FifoTypeOK
    <3>2. CASE UNCHANGED queue
      BY <3>2, LenProperties DEF CallInv, FifoTypeOK
    <3>3. QED BY <1>1, <3>1, <3>2 DEF WriteSample
  <2>3. ready' \in [latched : BOOLEAN, taken : BOOLEAN]
    BY <1>1, LatchType DEF WriteSample, CallInv, FifoTypeOK
  <2>4. runState' \in {"RUNNING", "OVERRUN", "DELAY", "STARTING"}
    BY <1>1 DEF WriteSample, CallInv, FifoTypeOK
  <2>5. UNCHANGED <<armed, fifoSwVars, call>>
    BY <1>1 DEF WriteSample
  <2>6. FifoTypeOK'
    BY <2>1, <2>2, <2>3, <2>4, <2>5 DEF CallInv, FifoTypeOK, fifoSwVars
  <2>7. WordsInv'
    BY <2>2, <2>5, LenProperties, FifoAssumption
       DEF CallInv, WordsInv, FifoTypeOK, fifoSwVars
  <2>8. QED BY <2>5, <2>6, <2>7 DEF CallInv, FlushInv, OwnerInv, fifoSwVars
<1>2. CASE Restart
  <2>1. ready' \in [latched : BOOLEAN, taken : BOOLEAN]
    BY <1>2, LatchType DEF Restart, CallInv, FifoTypeOK
  <2>2. QED BY <1>2, <2>1
            DEF Restart, CallInv, FifoTypeOK, FlushInv, WordsInv, OwnerInv,
                fifoSwVars
<1>3. QED BY <1>1, <1>2 DEF Hardware

LEMMA CallEntry ==
  ASSUME CallInv,
         EnableFifo \/ DisableFifo \/ ResetFifo \/ TakeEvent \/ HandleFifoReady
         \/ ReadDone
  PROVE  CallInv'
<1>1. ASSUME UNCHANGED <<fifoHwVars, fifoSwVars>>,
             ready' \in [latched : BOOLEAN, taken : BOOLEAN],
             call.phase = "none",
             NEW stage \in Stage, NEW flush \in BOOLEAN,
             flush => stage \in {"START", "FLUSH"}, stage = "FLUSH" => flush,
             call' \in CallType, call'.stage = stage, call'.phase = "idle",
             call'.flush <=> flush
      PROVE  CallInv'
  <2>1. FifoTypeOK'
    BY <1>1 DEF CallInv, FifoTypeOK, CallType, fifoHwVars, fifoSwVars
  <2>2. QED BY <1>1, <2>1
            DEF CallInv, FlushInv, WordsInv, OwnerInv, fifoHwVars, fifoSwVars
<1>2. CASE EnableFifo \/ DisableFifo \/ ResetFifo
  <2>1. ready' \in [latched : BOOLEAN, taken : BOOLEAN]
    BY <1>2 DEF EnableFifo, DisableFifo, ResetFifo, EnterCall, CallInv,
                FifoTypeOK
  <2>2. QED BY <1>1, <1>2, <2>1, EnteredCall
            DEF EnableFifo, DisableFifo, ResetFifo, EnterCall, Stage
<1>3. CASE TakeEvent \/ ReadDone
  <2>1. ready' \in [latched : BOOLEAN, taken : BOOLEAN]
    <3>1. CASE TakeEvent
      BY <3>1 DEF TakeEvent
    <3>2. CASE ReadDone
      BY <3>2 DEF ReadDone, CallInv, FifoTypeOK
    <3>3. QED BY <1>3, <3>1, <3>2
  <2>2. FifoTypeOK'
    BY <1>3, <2>1 DEF TakeEvent, ReadDone, fifoHwVars, fifoSwVars, CallInv,
                      FifoTypeOK
  <2>3. QED BY <1>3, <2>2
            DEF TakeEvent, ReadDone, fifoHwVars, fifoSwVars, CallInv,
                FlushInv, WordsInv, OwnerInv
<1>4. CASE HandleFifoReady
  <2>1. ready' \in [latched : BOOLEAN, taken : BOOLEAN]
    BY <1>4 DEF HandleFifoReady, CallInv, FifoTypeOK
  <2>2. CASE UNCHANGED call
    BY <1>4, <2>1, <2>2
       DEF HandleFifoReady, fifoHwVars, fifoSwVars, CallInv, FifoTypeOK,
           FlushInv, WordsInv, OwnerInv
  <2>3. CASE call' = [NoCall EXCEPT !.stage = "UPDATE", !.phase = "idle"]
    BY <1>1, <1>4, <2>1, <2>3, UpdateCall DEF HandleFifoReady, Stage
  <2>4. QED BY <1>4, <2>2, <2>3 DEF HandleFifoReady
<1>5. QED BY <1>2, <1>3, <1>4

LEMMA EmptyType ==
  <<>> \in Seq(Sample) /\ Len(<<>>) = 0
OBVIOUS

LEMMA LastShownType ==
  ASSUME FifoTypeOK
  PROVE  LastShown \in Seq(Sample) /\ Len(LastShown) <= 1
<1>1. CASE buffer = <<>>
  BY <1>1 DEF LastShown, FifoTypeOK
<1>2. CASE buffer # <<>>
  <2>1. Len(buffer) \in 1 .. Len(buffer)
    BY <1>2, EmptySeq DEF FifoTypeOK
  <2>2. buffer[Len(buffer)] \in Sample
    BY <2>1, ElementOfSeq DEF FifoTypeOK
  <2>3. QED BY <1>2, <2>2 DEF LastShown
<1>3. QED BY <1>1, <1>2

LEMMA CallIdle ==
  ASSUME CallInv, EnsureEpicsIdle
  PROVE  CallInv'
<1> USE FifoAssumption
<1>1. /\ call' \in CallType /\ call'.phase = "status"
      /\ call'.stage = call.stage
      /\ call'.flush <=> call.flush
  <2>1. FifoGoto("status") /\ call \in CallType
    BY DEF EnsureEpicsIdle, CallInv, FifoTypeOK, CallType
  <2>2. QED BY <2>1, GotoCall DEF Phase
<1>2. /\ buffer' \in Seq(Sample) /\ Len(buffer') <= BufferSize
      /\ shown' \in Seq(Sample) /\ Len(shown') <= 1
      /\ seam' \subseteq 0 .. BufferSize
  <2>1. CASE call.stage \in {"START", "FLUSH"}
    BY <2>1, EmptyType DEF EnsureEpicsIdle
  <2>2. CASE call.stage \notin {"START", "FLUSH"} /\ epicsBusy
    <3>1. Len(readBuffer) \in 0 .. BufferSize
      BY LenProperties DEF CallInv, FifoTypeOK
    <3>2. buffer' = readBuffer /\ shown' = LastShown
          /\ seam' \subseteq {Len(readBuffer)}
      BY <2>2 DEF EnsureEpicsIdle, Residue
    <3>3. QED BY <3>1, <3>2, LastShownType DEF CallInv, FifoTypeOK
  <2>3. CASE call.stage \notin {"START", "FLUSH"} /\ ~epicsBusy
    BY <2>3 DEF EnsureEpicsIdle, CallInv, FifoTypeOK
  <2>4. QED BY <2>1, <2>2, <2>3
<1>3. overflow' \in BOOLEAN /\ enabled' \in BOOLEAN
  BY DEF EnsureEpicsIdle, CallInv, FifoTypeOK
<1>4. ~epicsBusy' /\ ~reading' /\ readBuffer' = <<>>
  BY DEF EnsureEpicsIdle, EpicsIdle, CallInv, OwnerInv
<1>5. FifoTypeOK'
  <2>1. readBuffer' \in Seq(Sample) /\ Len(readBuffer') <= FifoSize
    BY <1>4, EmptyType
  <2>2. /\ epicsBusy' \in BOOLEAN /\ reading' \in BOOLEAN
        /\ UNCHANGED <<queue, runState, armed, number, ready>>
    BY DEF EnsureEpicsIdle, CallInv, FifoTypeOK, fifoHwVars
  <2>3. QED BY <1>1, <1>2, <1>3, <2>1, <2>2 DEF CallInv, FifoTypeOK, CallType
<1>6. QED BY <1>1, <1>4, <1>5 DEF CallInv, FlushInv, WordsInv, OwnerInv

LEMMA ReadCall ==
  ASSUME CallInv, ReadStatus \/ ReadWord
  PROVE  CallInv'
<1> USE FifoAssumption
<1>1. CASE ReadStatus
  <2>1. Len(queue) \in 0 .. FifoSize
    BY LenProperties DEF CallInv, FifoTypeOK
  <2>2. call' \in CallType
    BY <1>1, <2>1 DEF ReadStatus, CallInv, FifoTypeOK, CallType, Phase
  <2>3. call'.phase = "words" /\ call'.left = Len(queue)
        /\ call'.stage = call.stage
    BY <1>1 DEF ReadStatus, CallInv, FifoTypeOK
  <2>4. call'.flush <=> call.flush
    BY <1>1 DEF ReadStatus, CallInv, FifoTypeOK
  <2>5. /\ readBuffer' = <<>> /\ queue' = queue
        /\ ~epicsBusy' /\ reading' = reading
    BY <1>1 DEF ReadStatus, CallInv, WordsInv, OwnerInv, fifoHwVars, fifoSwVars
  <2>6. FifoTypeOK'
    BY <1>1, <2>2 DEF ReadStatus, CallInv, FifoTypeOK, CallType, fifoHwVars,
                      fifoSwVars
  <2>7. WordsInv'
    BY <2>1, <2>3, <2>5, EmptyType DEF WordsInv
  <2>8. QED BY <1>1, <2>3, <2>4, <2>5, <2>6, <2>7
            DEF ReadStatus, CallInv, FlushInv, OwnerInv
<1>2. CASE ReadWord
  <2>1. queue # <<>> /\ call.left \in 1 .. FifoSize
    BY <1>2, EmptyType
       DEF ReadWord, CallInv, FifoTypeOK, WordsInv
  <2>2. /\ Tail(queue) \in Seq(Sample) /\ Len(Tail(queue)) = Len(queue) - 1
        /\ Head(queue) \in Sample
    BY <2>1, HeadTailProperties DEF CallInv, FifoTypeOK
  <2>3. /\ readBuffer' \in Seq(Sample) /\ Len(readBuffer') = Len(readBuffer) + 1
        /\ queue' = Tail(queue) /\ ~epicsBusy' /\ reading' = reading
    BY <1>2, <2>2, AppendProperties
       DEF ReadWord, CallInv, FifoTypeOK, OwnerInv
  <2>4. call' \in CallType
    <3>1. call' = [call EXCEPT !.left = call.left - 1]
      BY <1>2 DEF ReadWord
    <3>2. call.left - 1 \in 0 .. FifoSize
      BY <2>1
    <3>3. QED BY <3>1, <3>2 DEF CallInv, FifoTypeOK, CallType
  <2>5. call'.phase = "words" /\ call'.left = call.left - 1
        /\ call'.stage = call.stage
    BY <1>2 DEF ReadWord, CallInv, FifoTypeOK
  <2>6. call'.flush <=> call.flush
    BY <1>2 DEF ReadWord, CallInv, FifoTypeOK
  <2>7. WordsInv'
    BY <1>2, <2>1, <2>2, <2>3, <2>5, LenProperties
       DEF ReadWord, WordsInv, CallInv, FifoTypeOK
  <2>8. ready' \in [latched : BOOLEAN, taken : BOOLEAN]
    BY <1>2, LatchType DEF ReadWord, CallInv, FifoTypeOK
  <2>9. Len(readBuffer') <= FifoSize /\ Len(queue') <= FifoSize
    BY <1>2, <2>1, <2>2, <2>3, LenProperties
       DEF ReadWord, WordsInv, CallInv, FifoTypeOK
  <2>10. FifoTypeOK'
    BY <1>2, <2>2, <2>3, <2>4, <2>8, <2>9
       DEF ReadWord, CallInv, FifoTypeOK, CallType
  <2>11. QED BY <1>2, <2>3, <2>5, <2>6, <2>7, <2>10
             DEF ReadWord, CallInv, FlushInv, OwnerInv
<1>3. QED BY <1>1, <1>2

LEMMA CallReset ==
  ASSUME CallInv, WriteReset
  PROVE  CallInv'
<1> USE FifoAssumption
<1>1. /\ call' \in CallType /\ call'.phase = "enable"
      /\ call'.stage = call.stage
      /\ call'.flush <=> call.flush
  <2>1. FifoGoto("enable") /\ call \in CallType
    BY DEF WriteReset, CallInv, FifoTypeOK, CallType
  <2>2. QED BY <2>1, GotoCall DEF Phase
<1>2. /\ queue' \in Seq(Sample) /\ Len(queue') <= FifoSize
      /\ readBuffer' \in Seq(Sample) /\ Len(readBuffer') <= FifoSize
  <2>1. queue' \in {queue, <<>>} /\ readBuffer' \in {readBuffer, <<>>}
    BY DEF WriteReset
  <2>2. /\ queue \in Seq(Sample) /\ Len(queue) <= FifoSize
        /\ readBuffer \in Seq(Sample) /\ Len(readBuffer) <= FifoSize
    BY DEF CallInv, FifoTypeOK
  <2>3. queue' \in Seq(Sample) /\ Len(queue') <= FifoSize
    <3>1. CASE queue' = queue
      BY <3>1, <2>2
    <3>2. CASE queue' = <<>>
      BY <3>2, EmptyType
    <3>3. QED BY <2>1, <3>1, <3>2
  <2>4. readBuffer' \in Seq(Sample) /\ Len(readBuffer') <= FifoSize
    <3>1. CASE readBuffer' = readBuffer
      BY <3>1, <2>2
    <3>2. CASE readBuffer' = <<>>
      BY <3>2, EmptyType
    <3>3. QED BY <2>1, <3>1, <3>2
  <2>5. QED BY <2>3, <2>4
<1>3. runState' \in {"RUNNING", "OVERRUN", "DELAY", "STARTING"}
  BY DEF WriteReset, CallInv, FifoTypeOK
<1>4. overflow' \in BOOLEAN
  BY DEF WriteReset, CallInv, FifoTypeOK
<1>5. ready' \in [latched : BOOLEAN, taken : BOOLEAN]
  BY LatchType DEF WriteReset, CallInv, FifoTypeOK
<1>6. UNCHANGED <<armed, number, enabled, buffer, epicsBusy, reading, seam,
                  shown>>
  BY DEF WriteReset
<1>7. FifoTypeOK'
  BY <1>1, <1>2, <1>3, <1>4, <1>5, <1>6 DEF CallInv, FifoTypeOK, CallType
<1>8. WordsInv'
  BY <1>1 DEF WriteReset, WordsInv
<1>9. ~epicsBusy'
  BY <1>6 DEF WriteReset, CallInv, OwnerInv
<1>10. QED BY <1>1, <1>6, <1>7, <1>8, <1>9 DEF CallInv, FlushInv, OwnerInv

\* WriteEnable leaves the call in one of three ways.
LEMMA EnableCall ==
  ASSUME CallInv, WriteEnable
  PROVE  \/ /\ ~call.flush /\ call.stage # "FLUSH"
            /\ call' \in CallType /\ call'.phase = "update"
            /\ call'.stage = call.stage /\ ~call'.flush
         \/ /\ call.flush /\ call.stage = "FLUSH"
            /\ call' = NoCall
         \/ /\ call.flush /\ call.stage = "START"
            /\ call' \in CallType /\ call'.phase = "status"
            /\ call'.stage = call.stage /\ ~call'.flush
<1>1. call \in CallType
  BY DEF CallInv, FifoTypeOK, CallType
<1>2. CASE ~call.flush
  BY <1>1, <1>2, GotoCall DEF WriteEnable, CallInv, FlushInv, Phase
<1>3. CASE call.flush /\ call.stage = "FLUSH"
  BY <1>3 DEF WriteEnable, FifoReturn
<1>4. CASE call.flush /\ call.stage = "START"
  <2>1. call' = [call EXCEPT !.phase = "status", !.flush = FALSE]
    BY <1>4 DEF WriteEnable
  <2>2. call' \in CallType
    BY <1>1, <2>1 DEF CallType, Phase
  <2>3. call'.phase = "status" /\ call'.stage = call.stage
    BY <1>1, <2>1 DEF CallType
  <2>4. ~call'.flush
    BY <1>1, <2>1 DEF CallType
  <2>5. QED BY <1>4, <2>2, <2>3, <2>4
<1>5. QED BY <1>2, <1>3, <1>4 DEF CallInv, FlushInv

LEMMA NoCallFields ==
  NoCall.phase = "none" /\ NoCall.stage = "UPDATE" /\ ~NoCall.flush
BY DEF NoCall

LEMMA CallEnable ==
  ASSUME CallInv, WriteEnable
  PROVE  CallInv'
<1> USE FifoAssumption
<1>1. UNCHANGED <<queue, runState, number, fifoSwVars>> /\ call.phase = "enable"
  BY DEF WriteEnable
<1>2. armed' \in BOOLEAN
  BY DEF WriteEnable, CallInv, FifoTypeOK
<1>3. ready' \in [latched : BOOLEAN, taken : BOOLEAN]
  BY LatchType DEF WriteEnable, CallInv, FifoTypeOK
<1>4. call' \in CallType
  BY EnableCall, NoCallType
<1>5. FifoTypeOK'
  BY <1>1, <1>2, <1>3, <1>4 DEF CallInv, FifoTypeOK, CallType, fifoSwVars
<1>6. FlushInv'
  BY EnableCall, NoCallFields DEF FlushInv
<1>7. WordsInv'
  BY <1>1, EnableCall, NoCallFields DEF WordsInv, CallInv, fifoSwVars
<1>8. OwnerInv'
  BY <1>1 DEF OwnerInv, CallInv, fifoSwVars
<1>9. QED BY <1>5, <1>6, <1>7, <1>8 DEF CallInv

\* What is copied from the read buffer, and what is kept.
LEMMA CopyType ==
  ASSUME FifoTypeOK
  PROVE  /\ ToCopy \in 0 .. Len(readBuffer)
         /\ Len(buffer) + ToCopy <= BufferSize
         /\ ToCopy < Len(readBuffer) => Len(buffer) + ToCopy = BufferSize
         /\ SubSeq(readBuffer, 1, ToCopy) \in Seq(Sample)
         /\ Len(SubSeq(readBuffer, 1, ToCopy)) = ToCopy
         /\ SubSeq(readBuffer, ToCopy + 1, Len(readBuffer)) \in Seq(Sample)
         /\ Len(SubSeq(readBuffer, ToCopy + 1, Len(readBuffer)))
              = Len(readBuffer) - ToCopy
<1> USE FifoAssumption
<1>1. Len(readBuffer) \in Nat /\ Len(buffer) \in 0 .. BufferSize
  BY LenProperties DEF FifoTypeOK
<1>2. /\ ToCopy \in 0 .. Len(readBuffer)
      /\ Len(buffer) + ToCopy <= BufferSize
      /\ ToCopy < Len(readBuffer) => Len(buffer) + ToCopy = BufferSize
  BY <1>1 DEF ToCopy
<1>3. \A i \in 1 .. Len(readBuffer) : readBuffer[i] \in Sample
  BY ElementOfSeq DEF FifoTypeOK
<1>4. \A i \in 1 .. ToCopy : readBuffer[i] \in Sample
  BY <1>1, <1>2, <1>3
<1>5. \A i \in ToCopy + 1 .. Len(readBuffer) : readBuffer[i] \in Sample
  BY <1>1, <1>2, <1>3
<1>6. /\ SubSeq(readBuffer, 1, ToCopy) \in Seq(Sample)
      /\ Len(SubSeq(readBuffer, 1, ToCopy)) = ToCopy
  BY <1>1, <1>2, <1>4, SubSeqProperties
<1>7. /\ SubSeq(readBuffer, ToCopy + 1, Len(readBuffer)) \in Seq(Sample)
      /\ Len(SubSeq(readBuffer, ToCopy + 1, Len(readBuffer)))
           = Len(readBuffer) - ToCopy
  BY <1>1, <1>2, <1>5, SubSeqProperties
<1>8. QED BY <1>2, <1>6, <1>7

LEMMA CallBuffer ==
  ASSUME CallInv, UpdateBuffer
  PROVE  CallInv'
<1> USE FifoAssumption
<1>1. call' = NoCall /\ call' \in CallType
  BY NoCallType DEF UpdateBuffer, FifoReturn
<1>2. /\ UNCHANGED <<queue, runState, armed, number, ready, overflow, shown>>
      /\ enabled' \in BOOLEAN
  BY DEF UpdateBuffer, fifoHwVars, CallInv, FifoTypeOK
<1>3. buffer' \in Seq(Sample) /\ Len(buffer') \in 0 .. BufferSize
  <2>1. buffer \in Seq(Sample) /\ Len(buffer) \in Nat
    BY LenProperties DEF CallInv, FifoTypeOK
  <2>2. PICK copied \in Seq(Sample) : copied = SubSeq(readBuffer, 1, ToCopy)
    BY CopyType DEF CallInv
  <2>3. /\ ToCopy \in Nat /\ Len(copied) = ToCopy
        /\ Len(buffer) + ToCopy <= BufferSize
    <3>1. Len(readBuffer) \in Nat
      BY LenProperties DEF CallInv, FifoTypeOK
    <3>2. QED BY <2>2, <3>1, CopyType DEF CallInv
  <2>4. /\ buffer \o copied \in Seq(Sample)
        /\ Len(buffer \o copied) = Len(buffer) + Len(copied)
    BY <2>1, ConcatProperties
  <2>5. buffer' = buffer \o copied
    BY <2>2 DEF UpdateBuffer
  <2>6. QED BY <2>1, <2>3, <2>4, <2>5
<1>4. readBuffer' \in Seq(Sample) /\ Len(readBuffer') <= FifoSize
  <2>1. Len(readBuffer) \in 0 .. FifoSize
    BY LenProperties DEF CallInv, FifoTypeOK
  <2>2. readBuffer'
          \in {<<>>, SubSeq(readBuffer, ToCopy + 1, Len(readBuffer))}
    BY DEF UpdateBuffer
  <2>3. ToCopy \in 0 .. Len(readBuffer)
    BY CopyType DEF CallInv
  <2>4. CASE readBuffer' = <<>>
    BY <2>4, EmptyType
  <2>5. CASE readBuffer' = SubSeq(readBuffer, ToCopy + 1, Len(readBuffer))
    BY <2>1, <2>3, <2>5, CopyType DEF CallInv
  <2>6. QED BY <2>2, <2>4, <2>5
<1>5. /\ seam' \subseteq 0 .. BufferSize
      /\ epicsBusy' \in BOOLEAN /\ reading' \in BOOLEAN
      /\ reading' => epicsBusy'
  BY <1>3 DEF UpdateBuffer, CallInv, FifoTypeOK, OwnerInv
<1>6. FifoTypeOK'
  BY <1>1, <1>2, <1>3, <1>4, <1>5 DEF CallInv, FifoTypeOK, CallType
<1>7. QED BY <1>1, <1>5, <1>6, NoCallFields
          DEF CallInv, FlushInv, WordsInv, OwnerInv

LEMMA CallInvStep ==
  ASSUME CallInv, [FifoNext]_fifoVars
  PROVE  CallInv'
<1>1. CASE CallStep
  BY <1>1, CallIdle, ReadCall, CallReset, CallEnable, CallBuffer DEF CallStep
<1>2. CASE UNCHANGED fifoVars
  BY <1>2 DEF fifoVars, fifoHwVars, fifoSwVars, CallInv, FifoTypeOK,
              FlushInv, WordsInv, OwnerInv
<1>3. QED BY <1>1, <1>2, CallHardware, CallEntry DEF FifoNext

LEMMA SpecCallInv == FifoSpec => []CallInv
BY InitCall, CallInvStep, PTL DEF FifoSpec

(***************************************************************************)
(* create_readout_fifo() and the calls that follow keep the FIFO, its two  *)
(* buffers and the call in progress within their types and sizes: the read *)
(* of a full hardware FIFO fits the read buffer, and the waveform buffer   *)
(* takes no more than its size.                                            *)
(***************************************************************************)
THEOREM FifoTypeCorrect == FifoSpec => []FifoTypeOK
<1>1. CallInv => FifoTypeOK
  BY DEF CallInv
<1>2. QED BY <1>1, SpecCallInv, PTL

(***************************************************************************)
(* ensure_epics_idle() comes before all that changes the buffer and its    *)
(* overflow flag, and only update_fifo_buffer's end hands them to EPICS:   *)
(* what EPICS reads stays as it is until it has done with it.              *)
(***************************************************************************)
THEOREM ShownBufferStable == FifoSpec => PublishedStable
<1>1. ASSUME CallInv, [FifoNext]_fifoVars, reading, reading'
      PROVE  UNCHANGED <<buffer, overflow>>
  <2>1. CASE EnsureEpicsIdle
    BY <1>1, <2>1 DEF EnsureEpicsIdle, EpicsIdle, CallInv, OwnerInv
  <2>2. CASE ReadStatus \/ ReadWord \/ WriteEnable
    BY <2>2 DEF ReadStatus, ReadWord, WriteEnable, fifoSwVars
  <2>3. CASE WriteReset \/ UpdateBuffer
    BY <1>1, <2>3 DEF WriteReset, UpdateBuffer, CallInv, OwnerInv
  <2>4. CASE Hardware
    BY <2>4 DEF Hardware, WriteSample, Restart, fifoSwVars
  <2>5. CASE TakeEvent \/ HandleFifoReady \/ ReadDone
    BY <2>5 DEF TakeEvent, HandleFifoReady, ReadDone, fifoSwVars
  <2>6. CASE EnableFifo \/ DisableFifo \/ ResetFifo
    BY <2>6 DEF EnableFifo, DisableFifo, ResetFifo, EnterCall, fifoSwVars
  <2>7. CASE UNCHANGED fifoVars
    BY <2>7 DEF fifoVars, fifoSwVars
  <2>8. QED BY <1>1, <2>1, <2>2, <2>3, <2>4, <2>5, <2>6, <2>7
            DEF FifoNext, CallStep
<1>2. CallInv /\ [FifoNext]_fifoVars
        => [reading /\ reading' => UNCHANGED <<buffer, overflow>>]_fifoVars
  BY <1>1
<1>3. QED BY <1>2, SpecCallInv, PTL DEF FifoSpec, PublishedStable

-----------------------------------------------------------------------------
(* Sequences of numbers that run on, but after marked positions.           *)

Succ(x) == (x + 1) % Period

\* The numbers of s run on, but after the positions in B.
Unbroken(s, B) == \A i \in 1 .. Len(s) - 1 : i \in B \/ s[i + 1] = Succ(s[i])

LEMMA AppendUnbroken ==
  ASSUME NEW s \in Seq(Sample), NEW x \in Sample, NEW B, Unbroken(s, B),
         s = <<>> \/ Len(s) \in B \/ x = Succ(s[Len(s)])
  PROVE  Unbroken(Append(s, x), B)
<1>1. Len(s) \in Nat /\ (s = <<>> => Len(s) = 0)
  BY LenProperties
<1>2. SUFFICES ASSUME NEW i \in 1 .. Len(s)
               PROVE  i \in B \/ Append(s, x)[i + 1] = Succ(Append(s, x)[i])
  BY <1>1, AppendProperties DEF Unbroken
<1>3. CASE i < Len(s)
  <2>1. i \in 1 .. Len(s) - 1 /\ i + 1 \in 1 .. Len(s)
    BY <1>1, <1>3
  <2>2. Append(s, x)[i] = s[i] /\ Append(s, x)[i + 1] = s[i + 1]
    BY <2>1, AppendProperties
  <2>3. QED BY <2>1, <2>2 DEF Unbroken
<1>4. CASE i = Len(s)
  <2>1. Append(s, x)[i] = s[i] /\ Append(s, x)[i + 1] = x
    BY <1>1, <1>4, AppendProperties
  <2>2. QED BY <1>1, <1>4, <2>1
<1>5. QED BY <1>1, <1>3, <1>4

LEMMA FrontUnbroken ==
  ASSUME NEW s \in Seq(Sample), NEW x \in Sample, NEW B,
         Unbroken(Append(s, x), B)
  PROVE  Unbroken(s, B)
<1>1. Len(s) \in Nat
  BY LenProperties
<1>2. SUFFICES ASSUME NEW i \in 1 .. Len(s) - 1
               PROVE  i \in B \/ s[i + 1] = Succ(s[i])
  BY DEF Unbroken
<1>3. i \in 1 .. Len(s) /\ i + 1 \in 1 .. Len(s)
  BY <1>1
<1>4. Append(s, x)[i] = s[i] /\ Append(s, x)[i + 1] = s[i + 1]
  BY <1>3, AppendProperties
<1>5. i \in 1 .. Len(Append(s, x)) - 1
  BY <1>1, AppendProperties
<1>6. QED BY <1>4, <1>5 DEF Unbroken

LEMMA SuffixUnbroken ==
  ASSUME NEW p \in Seq(Sample), NEW t \in Seq(Sample), NEW B, NEW C,
         Unbroken(p \o t, B), \A i \in Nat \ {0} : Len(p) + i \in B => i \in C
  PROVE  Unbroken(t, C)
<1>1. Len(p) \in Nat /\ Len(t) \in Nat /\ Len(p \o t) = Len(p) + Len(t)
  BY LenProperties, ConcatProperties
<1>2. SUFFICES ASSUME NEW i \in 1 .. Len(t) - 1
               PROVE  i \in C \/ t[i + 1] = Succ(t[i])
  BY DEF Unbroken
<1> DEFINE k == Len(p) + i
<1>3. k \in 1 .. Len(p \o t) - 1 /\ k + 1 \in 1 .. Len(p) + Len(t)
      /\ k \in 1 .. Len(p) + Len(t) /\ ~(k <= Len(p)) /\ ~(k + 1 <= Len(p))
      /\ k - Len(p) = i /\ k + 1 - Len(p) = i + 1
  BY <1>1
<1>4. (p \o t)[k] = t[i] /\ (p \o t)[k + 1] = t[i + 1]
  BY <1>3, ConcatProperties
<1>5. k \in B \/ (p \o t)[k + 1] = Succ((p \o t)[k])
  BY <1>3 DEF Unbroken
<1>6. QED BY <1>4, <1>5

LEMMA TailUnbroken ==
  ASSUME NEW t \in Seq(Sample), t # <<>>, Unbroken(t, {})
  PROVE  Unbroken(Tail(t), {})
<1>1. Len(t) \in Nat /\ Len(Tail(t)) = Len(t) - 1
  BY LenProperties, HeadTailProperties
<1>2. SUFFICES ASSUME NEW i \in 1 .. Len(Tail(t)) - 1
               PROVE  Tail(t)[i + 1] = Succ(Tail(t)[i])
  BY DEF Unbroken
<1>3. /\ i \in 1 .. Len(Tail(t)) /\ i + 1 \in 1 .. Len(Tail(t))
      /\ i + 1 \in 1 .. Len(t) - 1
  BY <1>1
<1>4. Tail(t)[i] = t[i + 1] /\ Tail(t)[i + 1] = t[(i + 1) + 1]
  BY <1>3, HeadTailProperties
<1>5. QED BY <1>3, <1>4 DEF Unbroken

LEMMA WeakenUnbroken ==
  ASSUME NEW s, NEW B, NEW C, Unbroken(s, B),
         \A i \in 1 .. Len(s) - 1 : i \in B => i \in C
  PROVE  Unbroken(s, C)
BY DEF Unbroken

LEMMA EmptyUnbroken == \A B : Unbroken(<<>>, B)
BY DEF Unbroken

LEMMA ConcatAppend ==
  ASSUME NEW s \in Seq(Sample), NEW t \in Seq(Sample), NEW x \in Sample
  PROVE  s \o Append(t, x) = Append(s \o t, x)
<1>1. <<x>> \in Seq(Sample)
  OBVIOUS
<1>2. QED BY <1>1, AppendIsConcat, ConcatAssociative, ConcatProperties

LEMMA Associative ==
  ASSUME NEW s \in Seq(Sample), NEW t \in Seq(Sample), NEW u \in Seq(Sample)
  PROVE  s \o (t \o u) = (s \o t) \o u
BY ConcatAssociative

LEMMA ConcatShift ==
  ASSUME NEW s \in Seq(Sample), NEW t \in Seq(Sample), t # <<>>
  PROVE  Append(s, Head(t)) \o Tail(t) = s \o t
<1>1. Head(t) \in Sample /\ Tail(t) \in Seq(Sample)
  BY HeadTailProperties
<1>2. <<Head(t)>> \in Seq(Sample)
  BY <1>1
<1>3. t = <<Head(t)>> \o Tail(t)
  <2>1. <<Head(t)>> \o Tail(t) \in Seq(Sample)
    BY <1>1, <1>2, ConcatProperties
  <2>2. Len(<<Head(t)>> \o Tail(t)) = Len(t) /\ Len(t) \in Nat \ {0}
    BY <1>1, <1>2, ConcatProperties, HeadTailProperties, LenProperties, EmptySeq
  <2>3. ASSUME NEW i \in 1 .. Len(t)
        PROVE  (<<Head(t)>> \o Tail(t))[i] = t[i]
    <3>1. CASE i = 1
      BY <3>1, <1>1, <1>2, <2>2, ConcatProperties, HeadTailProperties
    <3>2. CASE i # 1
      BY <3>2, <1>1, <1>2, <2>2, ConcatProperties, HeadTailProperties
    <3>3. QED BY <3>1, <3>2
  <2>4. QED BY <2>1, <2>2, <2>3, SeqEqual
<1>4. Append(s, Head(t)) = s \o <<Head(t)>>
  BY <1>1, AppendIsConcat
<1>5. (s \o <<Head(t)>>) \o Tail(t) = s \o (<<Head(t)>> \o Tail(t))
  BY <1>1, <1>2, ConcatAssociative
<1>6. QED BY <1>3, <1>4, <1>5

LEMMA FrontLast ==
  ASSUME NEW s \in Seq(Sample), s # <<>>
  PROVE  \E f \in Seq(Sample) : /\ s = f \o <<s[Len(s)]>>
                                /\ Len(f) = Len(s) - 1
                                /\ s[Len(s)] \in Sample
<1>1. PICK f \in Seq(Sample), x \in Sample : s = Append(f, x)
  BY SequenceEmptyOrAppend
<1>2. Len(s) = Len(f) + 1 /\ s[Len(f) + 1] = x /\ Len(f) \in Nat
  BY <1>1, AppendProperties, LenProperties
<1>3. s = f \o <<x>>
  BY <1>1, AppendIsConcat
<1>4. s[Len(s)] = x /\ Len(f) = Len(s) - 1
  BY <1>2
<1>5. QED BY <1>3, <1>4

-----------------------------------------------------------------------------
(* No hidden gap.                                                          *)

\* What the FIFO will give: its content, and the next sample if that is
\* going to be stored.
Coming == IF runState = "RUNNING" THEN Append(queue, number) ELSE queue

\* What software has taken from the FIFO, and was shown last.
Stored == (shown \o buffer) \o readBuffer

(***************************************************************************)
(* The FIFO itself never has a gap inside: it stops at an overrun, and the *)
(* call that has seen the overrun empties it before the reset.             *)
(***************************************************************************)
HwInv ==
  /\ Unbroken(Coming, {})
  /\ runState \in {"DELAY", "STARTING"} => queue = <<>>
  /\ call.phase = "words" /\ call.overrun =>
       runState = "OVERRUN" /\ Len(queue) = call.left

\* A start, and a flush, begin with nothing; only a full buffer leaves a
\* residue.
StartInv ==
  /\ call.stage \in {"START", "FLUSH"} /\ call.phase # "idle" =>
       buffer = <<>> /\ seam = {} /\ shown = <<>>
  /\ call.phase \in {"none", "idle"} /\ ~epicsBusy => readBuffer = <<>>

\* A seam at the end of the buffer that is shown is that of an overflow.
SeamInv ==
  /\ \A i \in seam : i <= Len(buffer) /\ i < BufferSize
  /\ epicsBusy /\ enabled /\ Len(buffer) \in seam =>
       overflow /\ readBuffer = <<>>

\* The samples are meant to follow on each other: not while the FIFO is
\* flushed.
Tracking ==
  /\ enabled
  /\ call.stage \in {"START", "FLUSH"} => call.phase # "idle" /\ ~call.flush

GapInv ==
  Tracking =>
    /\ Unbroken(Stored \o Coming, KnownBreaks)
    /\ runState \in {"DELAY", "STARTING"} =>
         Stored = <<>> \/ Len(Stored) \in KnownBreaks

FifoIInv == CallInv /\ HwInv /\ StartInv /\ SeamInv /\ GapInv

LEMMA Types ==
  ASSUME CallInv
  PROVE  /\ queue \in Seq(Sample) /\ Len(queue) \in Nat
         /\ shown \in Seq(Sample) /\ Len(shown) \in Nat
         /\ buffer \in Seq(Sample) /\ Len(buffer) \in Nat
         /\ readBuffer \in Seq(Sample) /\ Len(readBuffer) \in Nat
         /\ shown \o buffer \in Seq(Sample)
         /\ Stored \in Seq(Sample)
         /\ Len(Stored) = Len(shown) + Len(buffer) + Len(readBuffer)
         /\ number \in Sample /\ Succ(number) \in Sample
         /\ Coming \in Seq(Sample)
         /\ Stored \o Coming \in Seq(Sample)
         /\ seam \subseteq Nat
<1>1. /\ queue \in Seq(Sample) /\ shown \in Seq(Sample)
      /\ buffer \in Seq(Sample) /\ readBuffer \in Seq(Sample)
      /\ number \in Sample /\ seam \subseteq Nat
  BY FifoAssumption DEF CallInv, FifoTypeOK
<1>2. /\ Len(queue) \in Nat /\ Len(shown) \in Nat
      /\ Len(buffer) \in Nat /\ Len(readBuffer) \in Nat
  BY <1>1, LenProperties
<1>3. Succ(number) \in Sample
  BY <1>1, FifoAssumption DEF Succ, Sample
<1>4. shown \o buffer \in Seq(Sample)
      /\ Len(shown \o buffer) = Len(shown) + Len(buffer)
  BY <1>1, ConcatProperties
<1>5. /\ Stored \in Seq(Sample)
      /\ Len(Stored) = Len(shown) + Len(buffer) + Len(readBuffer)
  BY <1>1, <1>2, <1>4, ConcatProperties DEF Stored
<1>6. Coming \in Seq(Sample)
  BY <1>1, AppendProperties DEF Coming
<1>7. Stored \o Coming \in Seq(Sample)
  BY <1>5, <1>6, ConcatProperties
<1>8. QED BY <1>1, <1>2, <1>3, <1>4, <1>5, <1>6, <1>7

LEMMA InitIInv == FifoInit => FifoIInv
<1>1. SUFFICES ASSUME FifoInit PROVE FifoIInv
  OBVIOUS
<1>2. CallInv
  BY <1>1, InitCall
<1>3. Unbroken(Coming, {})
  <2>1. Coming = Append(<<>>, 0) /\ 0 \in Sample /\ <<>> \in Seq(Sample)
    BY <1>1, <1>2, Types DEF FifoInit, Coming
  <2>2. QED BY <2>1, AppendUnbroken, EmptyUnbroken
<1>4. HwInv
  BY <1>1, <1>3, NoCallFields DEF FifoInit, HwInv
<1>5. StartInv /\ SeamInv /\ GapInv
  BY <1>1, NoCallFields DEF FifoInit, StartInv, SeamInv, GapInv, Tracking
<1>6. QED BY <1>2, <1>4, <1>5 DEF FifoIInv

LEMMA GapHardware ==
  ASSUME FifoIInv, Hardware
  PROVE  FifoIInv'
<1> USE DEF FifoIInv
<1>1. CallInv /\ CallInv'
  BY CallHardware
<1>2. UNCHANGED <<armed, fifoSwVars, call>>
  BY DEF Hardware, WriteSample, Restart
<1>3. StartInv' /\ SeamInv'
  BY <1>2 DEF fifoSwVars, StartInv, SeamInv
<1>4. Stored' = Stored /\ KnownBreaks' = KnownBreaks /\ (Tracking' <=> Tracking)
  BY <1>2 DEF fifoSwVars, Stored, KnownBreaks, Tracking
<1>5. CASE UNCHANGED Coming /\ queue' = queue
           /\ ~(runState' \in {"DELAY", "STARTING"}
                /\ runState \notin {"DELAY", "STARTING"})
           /\ (runState = "OVERRUN" => runState' = "OVERRUN")
  BY <1>1, <1>2, <1>3, <1>4, <1>5 DEF HwInv, GapInv
<1>6. CASE Restart
  BY <1>5, <1>6 DEF Restart, Coming
<1>7. CASE WriteSample /\ runState \in {"OVERRUN", "DELAY"}
  BY <1>5, <1>7 DEF WriteSample, Coming
<1>8. CASE WriteSample /\ runState = "RUNNING" /\ Len(queue) = FifoSize
           /\ runState' = "OVERRUN" /\ queue' = queue
  <2>1. Coming = Append(queue, number) /\ Coming' = queue
    BY <1>8 DEF Coming
  <2>2. Unbroken(Coming', {})
    BY <1>1, <2>1, Types, FrontUnbroken DEF HwInv
  <2>3. Tracking => Unbroken(Stored \o Coming', KnownBreaks)
    <3>1. ASSUME NEW s \in Seq(Sample), NEW B, Unbroken(s \o Coming, B)
          PROVE  Unbroken(s \o queue, B)
      <4>1. s \o Coming = Append(s \o queue, number)
        BY <1>1, <2>1, Types, ConcatAppend
      <4>2. s \o queue \in Seq(Sample)
        BY <1>1, Types, ConcatProperties
      <4>3. Unbroken(Append(s \o queue, number), B) /\ number \in Sample
        BY <1>1, <3>1, <4>1, Types
      <4>4. QED BY <4>2, <4>3, FrontUnbroken
    <3>2. Tracking => Unbroken(Stored \o queue, KnownBreaks)
      BY <1>1, <3>1, Types DEF GapInv
    <3>3. QED BY <2>1, <3>2
  <2>4. QED BY <1>1, <1>2, <1>3, <1>4, <1>8, <2>2, <2>3 DEF HwInv, GapInv
<1>9. CASE WriteSample /\ runState = "RUNNING"
           /\ queue' = Append(queue, number) /\ runState' = "RUNNING"
  <2>1. number' = Succ(number)
    BY <1>9 DEF WriteSample, Succ
  <2>2. Coming = Append(queue, number) /\ Coming' = Append(Coming, Succ(number))
    BY <1>9, <2>1 DEF Coming
  <2>3. ASSUME NEW s \in Seq(Sample), NEW B, Unbroken(s \o Coming, B)
        PROVE  Unbroken(s \o Coming', B)
    <3>1. s \o Coming = Append(s \o queue, number)
      BY <1>1, <2>2, Types, ConcatAppend
    <3>2. s \o Coming' = Append(s \o Coming, Succ(number))
      BY <1>1, <2>2, Types, ConcatAppend
    <3>3. s \o queue \in Seq(Sample) /\ s \o Coming \in Seq(Sample)
      BY <1>1, Types, ConcatProperties
    <3>4. (s \o Coming)[Len(s \o Coming)] = number
      BY <1>1, <3>1, <3>3, Types, AppendProperties
    <3>5. QED BY <1>1, <2>3, <3>2, <3>3, <3>4, Types, AppendUnbroken
  <2>4. Unbroken(Coming', {})
    <3>1. <<>> \o Coming = Coming /\ <<>> \o Coming' = Coming'
      BY <1>1, Types, ConcatEmptySeq
    <3>2. QED BY <2>3, <3>1, EmptyType DEF HwInv
  <2>5. Tracking => Unbroken(Stored \o Coming', KnownBreaks)
    BY <1>1, <2>3, Types DEF GapInv
  <2>6. QED BY <1>1, <1>2, <1>3, <1>4, <1>9, <2>4, <2>5 DEF HwInv, GapInv
<1>10. CASE WriteSample /\ runState = "STARTING"
           /\ queue' = Append(queue, number) /\ runState' = "RUNNING"
  <2>1. number' = Succ(number)
    BY <1>10 DEF WriteSample, Succ
  <2>2. queue = <<>> /\ Coming = <<>>
    BY <1>10 DEF Coming, HwInv
  <2>3. Coming' = Append(Append(<<>>, number), Succ(number))
    BY <1>10, <2>1, <2>2 DEF Coming
  <2>4. ASSUME NEW s \in Seq(Sample), NEW B, Unbroken(s, B),
               s = <<>> \/ Len(s) \in B
        PROVE  Unbroken(s \o Coming', B)
    <3>1. Append(<<>>, number) \in Seq(Sample)
      BY <1>1, Types, EmptyType, AppendProperties
    <3>2. s \o Append(<<>>, number) = Append(s, number)
      BY <1>1, Types, EmptyType, ConcatAppend, ConcatEmptySeq
    <3>3. s \o Coming' = Append(Append(s, number), Succ(number))
      BY <1>1, <2>3, <3>1, <3>2, Types, ConcatAppend
    <3>4. Unbroken(Append(s, number), B)
      BY <1>1, <2>4, Types, AppendUnbroken
    <3>5. /\ Append(s, number) \in Seq(Sample)
          /\ Append(s, number)[Len(Append(s, number))] = number
      BY <1>1, Types, AppendProperties
    <3>6. QED BY <1>1, <3>3, <3>4, <3>5, Types, AppendUnbroken
  <2>5. Unbroken(Coming', {})
    <3>1. <<>> \o Coming' = Coming'
      BY <1>1, Types, ConcatEmptySeq
    <3>2. QED BY <2>4, <3>1, EmptyType, EmptyUnbroken
  <2>6. Tracking => Unbroken(Stored \o Coming', KnownBreaks)
    <3>1. Stored \o Coming = Stored
      BY <1>1, <2>2, Types, ConcatEmptySeq
    <3>2. QED BY <1>1, <1>10, <2>4, <3>1, Types DEF GapInv
  <2>7. QED BY <1>1, <1>2, <1>3, <1>4, <1>10, <2>5, <2>6 DEF HwInv, GapInv
<1>11. QED BY <1>6, <1>7, <1>8, <1>9, <1>10 DEF Hardware, WriteSample

LEMMA GapEntry ==
  ASSUME FifoIInv,
         EnableFifo \/ DisableFifo \/ ResetFifo \/ TakeEvent \/ HandleFifoReady
         \/ ReadDone
  PROVE  FifoIInv'
<1> USE DEF FifoIInv
<1>1. CallInv /\ CallInv'
  BY CallEntry
<1>2. UNCHANGED <<fifoHwVars, enabled, overflow, buffer, readBuffer, epicsBusy,
                  seam, shown>>
  BY DEF EnableFifo, DisableFifo, ResetFifo, EnterCall, TakeEvent,
         HandleFifoReady, ReadDone, fifoSwVars
<1>3. UNCHANGED <<Coming, Stored>> /\ SeamInv'
  BY <1>2 DEF fifoHwVars, Coming, Stored, SeamInv
<1>4. CASE UNCHANGED call
  BY <1>1, <1>2, <1>3, <1>4
     DEF fifoHwVars, HwInv, StartInv, GapInv, Tracking, KnownBreaks
<1>5. ASSUME call.phase = "none", call'.phase = "idle",
             call'.stage \in {"START", "FLUSH"}
      PROVE  FifoIInv'
  BY <1>1, <1>2, <1>3, <1>5
     DEF fifoHwVars, HwInv, StartInv, GapInv, Tracking
<1>6. ASSUME call.phase = "none", call'.phase = "idle",
             call'.stage \notin {"START", "FLUSH"}, call.stage = "UPDATE"
      PROVE  FifoIInv'
  BY <1>1, <1>2, <1>3, <1>6
     DEF fifoHwVars, HwInv, StartInv, GapInv, Tracking, KnownBreaks
<1>7. ASSUME NEW stage \in Stage, NEW flush \in BOOLEAN, EnterCall(stage, flush)
      PROVE  FifoIInv'
  <2>1. /\ call.phase = "none" /\ call.stage = "UPDATE"
        /\ call'.phase = "idle"
    BY <1>7, EnteredCall DEF EnterCall, CallInv, FlushInv
  <2>2. QED BY <1>5, <1>6, <2>1
<1>8. CASE EnableFifo \/ DisableFifo \/ ResetFifo
  BY <1>7, <1>8 DEF EnableFifo, DisableFifo, ResetFifo, Stage
<1>9. CASE HandleFifoReady
  <2>1. CASE UNCHANGED call
    BY <1>4, <2>1
  <2>2. CASE call' = [NoCall EXCEPT !.stage = "UPDATE", !.phase = "idle"]
    BY <1>6, <1>9, <2>2, UpdateCall DEF HandleFifoReady, CallInv, FlushInv
  <2>3. QED BY <1>9, <2>1, <2>2 DEF HandleFifoReady
<1>10. CASE TakeEvent \/ ReadDone
  BY <1>4, <1>10 DEF TakeEvent, ReadDone
<1>11. QED BY <1>8, <1>9, <1>10

\* While a call is under way EPICS owns nothing: the seam is what it knows of,
\* and the end of a read that has overflowed.
LEMMA BreaksInCall ==
  ASSUME CallInv, call.phase \notin {"none", "idle"}
  PROVE  KnownBreaks = {Len(shown) + i : i \in seam \cup
           (IF overflow /\ call.phase \in {"enable", "update"}
            THEN {Len(buffer) + Len(readBuffer)} ELSE {})}
BY DEF CallInv, OwnerInv, KnownBreaks

LEMMA GapStatus ==
  ASSUME FifoIInv, ReadStatus
  PROVE  FifoIInv'
<1> USE DEF FifoIInv
<1>1. CallInv /\ CallInv'
  BY ReadCall
<1>2. UNCHANGED <<fifoHwVars, fifoSwVars>> /\ call.phase = "status"
  BY DEF ReadStatus
<1>3. UNCHANGED <<Coming, Stored>> /\ SeamInv'
  BY <1>2 DEF fifoHwVars, fifoSwVars, Coming, Stored, SeamInv
<1>4. /\ call'.phase = "words" /\ call'.left = Len(queue)
      /\ call'.stage = call.stage
  BY DEF ReadStatus, CallInv, FifoTypeOK
<1>5. call'.flush <=> call.flush
  BY DEF ReadStatus, CallInv, FifoTypeOK
<1>6. call'.overrun <=> runState = "OVERRUN"
  BY DEF ReadStatus, CallInv, FifoTypeOK
<1>7. HwInv'
  BY <1>2, <1>3, <1>4, <1>6 DEF HwInv, fifoHwVars
<1>8. StartInv'
  BY <1>2, <1>4 DEF StartInv, fifoSwVars
<1>9. KnownBreaks' = KnownBreaks /\ (Tracking' <=> Tracking)
  BY <1>2, <1>4, <1>5 DEF KnownBreaks, Tracking, fifoSwVars, CallInv, OwnerInv
<1>10. GapInv'
  BY <1>2, <1>3, <1>9 DEF GapInv, fifoHwVars
<1>11. QED BY <1>1, <1>3, <1>7, <1>8, <1>10

LEMMA GapWord ==
  ASSUME FifoIInv, ReadWord
  PROVE  FifoIInv'
<1> USE DEF FifoIInv
<1>1. CallInv /\ CallInv'
  BY ReadCall
<1>2. /\ call.phase = "words" /\ call'.phase = "words"
      /\ call'.left = call.left - 1 /\ call'.stage = call.stage
  BY DEF ReadWord, CallInv, FifoTypeOK
<1>3. call'.flush <=> call.flush
  BY DEF ReadWord, CallInv, FifoTypeOK
<1>4. call'.overrun <=> call.overrun
  BY DEF ReadWord, CallInv, FifoTypeOK
<1>5. call.left \in Nat /\ call.left > 0
  BY FifoAssumption DEF ReadWord, CallInv, FifoTypeOK
<1>6. queue # <<>>
  BY <1>2, <1>5, EmptyType DEF CallInv, WordsInv
<1>7. UNCHANGED <<runState, number, enabled, overflow, buffer, epicsBusy, seam,
                  shown>>
      /\ queue' = Tail(queue) /\ readBuffer' = Append(readBuffer, Head(queue))
  BY DEF ReadWord
<1>8. Head(queue) \in Sample /\ Tail(queue) \in Seq(Sample)
      /\ Len(Tail(queue)) = Len(queue) - 1
  BY <1>1, <1>6, Types, HeadTailProperties
<1>9. Coming # <<>> /\ Head(Coming) = Head(queue) /\ Coming' = Tail(Coming)
  <2>1. CASE runState = "RUNNING"
    <3>1. /\ Coming = Append(queue, number)
          /\ Coming' = Append(Tail(queue), number)
      BY <1>7, <2>1 DEF Coming
    <3>2. /\ Append(queue, number) # <<>>
          /\ Head(Append(queue, number)) = Head(queue)
          /\ Tail(Append(queue, number)) = Append(Tail(queue), number)
      <4>1. queue \in Seq(Sample) /\ number \in Sample
        BY <1>1, Types
      <4>2. Append(queue, number) # <<>>
        BY <4>1, AppendProperties
      <4>3. /\ Head(Append(queue, number)) = Head(queue)
            /\ Tail(Append(queue, number)) = Append(Tail(queue), number)
        BY <1>6, <4>1, HeadTailAppend
      <4>4. QED BY <4>2, <4>3
    <3>3. QED BY <3>1, <3>2
  <2>2. CASE runState # "RUNNING"
    BY <1>6, <1>7, <2>2 DEF Coming
  <2>3. QED BY <2>1, <2>2
<1>10. Stored' = Append(Stored, Head(queue))
  BY <1>1, <1>7, <1>8, Types, ConcatAppend DEF Stored
<1>11. Stored' \o Coming' = Stored \o Coming
  BY <1>1, <1>9, <1>10, Types, ConcatShift
<1>12. Unbroken(Coming', {})
  BY <1>1, <1>9, Types, TailUnbroken DEF HwInv
<1>13. HwInv'
  <2>1. Len(queue') = Len(queue) - 1
    BY <1>7, <1>8
  <2>2. QED BY <1>1, <1>2, <1>4, <1>5, <1>6, <1>7, <1>12, <2>1, Types DEF HwInv
<1>14. StartInv' /\ SeamInv'
  BY <1>1, <1>2, <1>7 DEF StartInv, SeamInv, CallInv, OwnerInv
<1>15. KnownBreaks' = KnownBreaks /\ (Tracking' <=> Tracking)
  BY <1>2, <1>3, <1>7 DEF KnownBreaks, Tracking, CallInv, OwnerInv
<1>16. GapInv'
  BY <1>6, <1>7, <1>11, <1>15 DEF GapInv, HwInv
<1>17. QED BY <1>1, <1>13, <1>14, <1>16

LEMMA GapReset ==
  ASSUME FifoIInv, WriteReset
  PROVE  FifoIInv'
<1> USE DEF FifoIInv
<1>1. CallInv /\ CallInv'
  BY CallReset
<1>2. call.phase = "words" /\ call.left = 0 /\ ~epicsBusy
  BY DEF WriteReset, CallInv, OwnerInv
<1>3. /\ call'.phase = "enable" /\ call'.stage = call.stage
      /\ call'.flush <=> call.flush
  <2>1. call \in CallType
    BY DEF CallInv, FifoTypeOK, CallType
  <2>2. QED BY <2>1, GotoCall DEF WriteReset, Phase
<1>4. UNCHANGED <<number, enabled, buffer, epicsBusy, seam, shown>>
  BY DEF WriteReset
<1>5. /\ queue' = queue /\ Coming' = Coming
      /\ call.overrun => runState' = "DELAY" /\ queue = <<>>
      /\ ~call.overrun => runState' = runState
  <2>1. CASE call.overrun
    <3>1. queue = <<>> /\ runState = "OVERRUN"
      BY <1>1, <1>2, <2>1, Types, EmptySeq DEF HwInv
    <3>2. queue' = <<>> /\ runState' = "DELAY"
      BY <2>1 DEF WriteReset
    <3>3. QED BY <2>1, <3>1, <3>2 DEF Coming
  <2>2. CASE ~call.overrun
    BY <1>4, <2>2 DEF WriteReset, Coming
  <2>3. QED BY <2>1, <2>2
<1>6. HwInv'
  BY <1>3, <1>5 DEF HwInv
<1>7. StartInv' /\ SeamInv'
  BY <1>2, <1>3, <1>4 DEF StartInv, SeamInv
<1>8. GapInv'
  <2>1. SUFFICES ASSUME Tracking' PROVE GapInv'
    BY DEF GapInv
  <2>2. Tracking /\ ~call.flush
    BY <1>2, <1>3, <1>4, <2>1 DEF Tracking, CallInv, FlushInv
  <2>3. readBuffer' = readBuffer /\ overflow' = call.overrun
    BY <2>2 DEF WriteReset
  <2>4. Stored' = Stored
    BY <1>4, <2>3 DEF Stored
  <2>5. KnownBreaks = {Len(shown) + i : i \in seam}
    BY <1>1, <1>2, BreaksInCall
  <2>6. KnownBreaks' = {Len(shown) + i : i \in seam \cup
          (IF overflow' THEN {Len(buffer) + Len(readBuffer)} ELSE {})}
    BY <1>3, <1>4, <2>3, <1>2 DEF KnownBreaks
  <2>7. \A i \in KnownBreaks : i \in KnownBreaks'
    BY <2>5, <2>6
  <2>8. Unbroken(Stored \o Coming, KnownBreaks')
    BY <2>2, <2>7, WeakenUnbroken DEF GapInv
  <2>9. call.overrun => Len(Stored) \in KnownBreaks'
    <3>1. Len(Stored) = Len(shown) + (Len(buffer) + Len(readBuffer))
      BY <1>1, Types
    <3>2. QED BY <2>3, <2>6, <3>1
  <2>10. QED BY <1>5, <2>2, <2>4, <2>7, <2>8, <2>9 DEF GapInv
<1>9. QED BY <1>1, <1>6, <1>7, <1>8

LEMMA GapEnable ==
  ASSUME FifoIInv, WriteEnable
  PROVE  FifoIInv'
<1> USE DEF FifoIInv
<1>1. CallInv /\ CallInv'
  BY CallEnable
<1>2. call.phase = "enable" /\ ~epicsBusy
      /\ UNCHANGED <<queue, runState, number, fifoSwVars>>
  BY DEF WriteEnable, CallInv, OwnerInv
<1>3. UNCHANGED <<Coming, Stored>> /\ SeamInv'
  BY <1>2 DEF fifoSwVars, Coming, Stored, SeamInv
<1>4. HwInv' /\ call'.phase \in {"update", "none", "status"}
  BY <1>2, <1>3, EnableCall, NoCallFields DEF HwInv
<1>5. CASE ~call.flush
  <2>1. /\ call'.phase = "update" /\ call'.stage = call.stage
        /\ ~call'.flush
    BY <1>5, EnableCall
  <2>2. StartInv'
    BY <1>2, <2>1 DEF StartInv, fifoSwVars
  <2>3. KnownBreaks' = KnownBreaks /\ (Tracking' <=> Tracking)
    BY <1>2, <1>5, <2>1 DEF KnownBreaks, Tracking, fifoSwVars
  <2>4. GapInv'
    BY <1>2, <1>3, <2>3 DEF GapInv
  <2>5. QED BY <1>1, <1>3, <1>4, <2>2, <2>4
<1>6. CASE call.flush
  <2>1. buffer = <<>> /\ seam = {} /\ shown = <<>> /\ readBuffer = <<>>
    BY <1>2, <1>6 DEF StartInv, CallInv, FlushInv, WordsInv
  <2>2. StartInv'
    BY <1>2, <2>1 DEF StartInv, fifoSwVars
  <2>3. Stored = <<>>
    BY <2>1, EmptyType, ConcatEmptySeq DEF Stored
  <2>4. Stored \o Coming = Coming
    BY <1>1, <2>3, Types, ConcatEmptySeq
  <2>5. Unbroken(Coming, KnownBreaks')
    BY WeakenUnbroken DEF HwInv
  <2>6. GapInv'
    BY <1>3, <2>3, <2>4, <2>5 DEF GapInv
  <2>7. QED BY <1>1, <1>3, <1>4, <2>2, <2>6
<1>7. QED BY <1>5, <1>6

LEMMA GapBuffer ==
  ASSUME FifoIInv, UpdateBuffer
  PROVE  FifoIInv'
<1> USE DEF FifoIInv
<1>1. CallInv /\ CallInv'
  BY CallBuffer
<1>2. /\ call.phase = "update" /\ ~call.flush /\ call.stage # "FLUSH"
      /\ ~epicsBusy
  BY DEF UpdateBuffer, CallInv, FlushInv, OwnerInv
<1>3. call'.phase = "none" /\ call'.stage = "UPDATE" /\ ~call'.flush
  BY NoCallFields DEF UpdateBuffer, FifoReturn
<1>4. /\ UNCHANGED <<queue, runState, number, overflow, shown>>
      /\ enabled' => enabled /\ call.stage # "STOP"
  BY DEF UpdateBuffer, fifoHwVars
<1>5. Coming' = Coming /\ HwInv'
  BY <1>3, <1>4 DEF Coming, HwInv
<1>6. /\ shown \in Seq(Sample) /\ buffer \in Seq(Sample)
      /\ readBuffer \in Seq(Sample)
      /\ Len(buffer) \in Nat /\ Len(readBuffer) \in Nat
      /\ shown \o buffer \in Seq(Sample)
  BY <1>1, Types
<1>7. PICK copied \in Seq(Sample), kept \in Seq(Sample) :
        /\ copied = SubSeq(readBuffer, 1, ToCopy)
        /\ kept = SubSeq(readBuffer, ToCopy + 1, Len(readBuffer))
  BY <1>1, CopyType DEF CallInv
<1>8. /\ ToCopy \in 0 .. Len(readBuffer)
      /\ Len(buffer) + ToCopy <= BufferSize
      /\ ToCopy < Len(readBuffer) => Len(buffer) + ToCopy = BufferSize
      /\ Len(copied) = ToCopy /\ Len(kept) = Len(readBuffer) - ToCopy
  BY <1>1, <1>7, CopyType DEF CallInv
<1>9. copied \o kept = readBuffer
  <2>1. /\ 1 \in 1 .. Len(readBuffer) + 1
        /\ ToCopy \in 1 - 1 .. Len(readBuffer)
        /\ Len(readBuffer) \in ToCopy .. Len(readBuffer)
    BY <1>6, <1>8
  <2>2. SubSeq(readBuffer, 1, ToCopy)
          \o SubSeq(readBuffer, ToCopy + 1, Len(readBuffer))
          = SubSeq(readBuffer, 1, Len(readBuffer))
    BY <1>6, <2>1, ConcatAdjacentSubSeq
  <2>3. QED BY <1>6, <1>7, <2>2, SubSeqFull
<1>10. buffer' = buffer \o copied /\ Len(buffer') = Len(buffer) + ToCopy
  BY <1>6, <1>7, <1>8, ConcatProperties DEF UpdateBuffer
<1>11. readBuffer' = kept
  <2>1. CASE EmitNow(buffer')
    BY <1>7, <2>1 DEF UpdateBuffer
  <2>2. CASE ~EmitNow(buffer')
    <3>1. Len(buffer') # BufferSize /\ readBuffer' = <<>>
      BY <2>2 DEF UpdateBuffer, EmitNow
    <3>2. Len(kept) = 0
      BY <1>6, <1>8, <1>10, <3>1
    <3>3. kept = <<>>
      BY <3>2, EmptySeq
    <3>4. QED BY <3>1, <3>3
  <2>3. QED BY <2>1, <2>2
<1>12. Stored' = Stored
  <2>1. Stored' = (shown \o (buffer \o copied)) \o kept
    BY <1>4, <1>10, <1>11 DEF Stored
  <2>2. shown \o (buffer \o copied) = (shown \o buffer) \o copied
    <3>1. shown \in Seq(Sample) /\ buffer \in Seq(Sample)
      BY <1>6
    <3>2. QED BY <3>1, Associative
  <2>3. ((shown \o buffer) \o copied) \o kept
          = (shown \o buffer) \o (copied \o kept)
    <3>1. shown \o buffer \in Seq(Sample)
      BY <1>6
    <3>2. QED BY <3>1, Associative
  <2>4. QED BY <1>9, <2>1, <2>2, <2>3 DEF Stored
<1>13. Len(buffer') + Len(readBuffer') = Len(buffer) + Len(readBuffer)
  <2>1. Len(buffer) \in Nat /\ Len(readBuffer) \in Nat
    BY <1>6
  <2>2. Len(readBuffer') = Len(readBuffer) - ToCopy
    BY <1>8, <1>11
  <2>3. ToCopy \in Nat /\ Len(buffer') = Len(buffer) + ToCopy
    BY <2>1, <1>8, <1>10
  <2>4. QED BY <2>1, <2>2, <2>3
<1>14. CASE EmitNow(buffer')
  <2>1. epicsBusy' /\ seam' = seam
    BY <1>14 DEF UpdateBuffer
  <2>2. StartInv'
    BY <1>3, <2>1 DEF StartInv
  <2>3. SeamInv'
    <3>1. \A i \in seam : i <= Len(buffer') /\ i < BufferSize
      BY <1>1, <1>6, <1>8, <1>10, Types DEF SeamInv
    <3>2. ASSUME enabled', Len(buffer') \in seam
          PROVE  overflow /\ readBuffer' = <<>>
      <4>1. Len(buffer') # BufferSize
        BY <3>1, <3>2, FifoAssumption
      <4>2. overflow
        BY <1>4, <1>14, <3>2, <4>1 DEF EmitNow
      <4>3. Len(kept) = 0
        BY <1>6, <1>8, <1>10, <4>1
      <4>4. QED BY <1>11, <4>2, <4>3, EmptySeq
    <3>3. QED BY <1>4, <2>1, <3>1, <3>2 DEF SeamInv
  <2>4. KnownBreaks' = KnownBreaks
    BY <1>2, <1>4, <1>13, <2>1 DEF KnownBreaks
  <2>5. GapInv'
    BY <1>2, <1>4, <1>5, <1>12, <2>4 DEF GapInv, Tracking
  <2>6. QED BY <1>1, <1>5, <2>2, <2>3, <2>5
<1>15. CASE ~EmitNow(buffer')
  <2>1. /\ seam' = IF overflow THEN {Len(buffer')} ELSE seam
        /\ readBuffer' = <<>> /\ epicsBusy' = epicsBusy
        /\ Len(buffer') # BufferSize /\ (overflow => call.stage = "START")
    BY <1>15 DEF UpdateBuffer, EmitNow
  <2>2. StartInv'
    BY <1>3, <2>1 DEF StartInv
  <2>3. SeamInv'
    <3>1. Len(buffer') \in 0 .. BufferSize - 1 /\ Len(buffer) <= Len(buffer')
      <4>1. Len(buffer') \in 0 .. BufferSize
        BY <1>1, <1>6, <1>8, <1>10, FifoAssumption
      <4>2. Len(buffer) \in Nat /\ ToCopy \in Nat
            /\ Len(buffer') = Len(buffer) + ToCopy
        BY <1>6, <1>8, <1>10
      <4>3. BufferSize \in Nat /\ Len(buffer') # BufferSize
        BY <2>1, FifoAssumption
      <4>4. QED BY <4>1, <4>2, <4>3
    <3>2. \A i \in seam' : i <= Len(buffer') /\ i < BufferSize
      <4>1. CASE overflow
        BY <2>1, <3>1, <4>1, FifoAssumption
      <4>2. CASE ~overflow
        <5>1. seam' = seam /\ seam \subseteq Nat
          BY <1>1, <2>1, <4>2, Types
        <5>2. QED BY <1>6, <3>1, <5>1 DEF SeamInv
      <4>3. QED BY <4>1, <4>2
    <3>3. QED BY <1>2, <2>1, <3>2 DEF SeamInv
  <2>4. KnownBreaks' = {Len(shown) + i : i \in seam'}
    BY <1>2, <1>3, <1>4, <2>1 DEF KnownBreaks
  <2>5. KnownBreaks' = KnownBreaks
    <3>1. KnownBreaks = {Len(shown) + i : i \in seam \cup
            (IF overflow THEN {Len(buffer) + Len(readBuffer)} ELSE {})}
      BY <1>1, <1>2, BreaksInCall
    <3>2. CASE ~overflow
      BY <2>1, <2>4, <3>1, <3>2
    <3>3. CASE overflow
      <4>1. seam = {}
        BY <1>2, <2>1, <3>3 DEF StartInv
      <4>2. Len(buffer') = Len(buffer) + Len(readBuffer)
        <5>1. Len(readBuffer') = 0 /\ Len(buffer') \in Nat
          BY <1>6, <1>8, <1>10, <2>1, EmptyType
        <5>2. QED BY <1>13, <5>1
      <4>3. QED BY <2>1, <2>4, <3>1, <3>3, <4>1, <4>2
    <3>4. QED BY <3>2, <3>3
  <2>6. GapInv'
    BY <1>2, <1>4, <1>5, <1>12, <2>5 DEF GapInv, Tracking
  <2>7. QED BY <1>1, <1>5, <2>2, <2>3, <2>6
<1>16. QED BY <1>14, <1>15

\* What is left of the samples when the buffer has been shown: its last one,
\* the residue and what is to come.
LEMMA ShownPrefix ==
  ASSUME CallInv, buffer # <<>>
  PROVE  \E p \in Seq(Sample) :
           /\ Len(p) = Len(shown) + Len(buffer) - 1
           /\ Stored = p \o (LastShown \o readBuffer)
           /\ Stored \o Coming = p \o ((LastShown \o readBuffer) \o Coming)
           /\ Len(LastShown) = 1
<1> DEFINE l == buffer[Len(buffer)]
<1>1. PICK f \in Seq(Sample) : /\ buffer = f \o <<l>>
                               /\ Len(f) = Len(buffer) - 1 /\ l \in Sample
  BY Types, FrontLast
<1>2. LastShown = <<l>>
  BY DEF LastShown
<1>3. LastShown \in Seq(Sample) /\ Len(LastShown) = 1
  BY <1>1, <1>2
<1>4. buffer = f \o LastShown
  BY <1>1, <1>2
<1>5. shown \in Seq(Sample) /\ readBuffer \in Seq(Sample)
      /\ Coming \in Seq(Sample) /\ Len(shown) \in Nat /\ Len(buffer) \in Nat
  BY Types
<1>6. /\ shown \o f \in Seq(Sample)
      /\ Len(shown \o f) = Len(shown) + Len(buffer) - 1
  BY <1>1, <1>5, ConcatProperties
<1>7. LastShown \o readBuffer \in Seq(Sample)
  BY <1>3, <1>5, ConcatProperties
<1>8. shown \o (f \o LastShown) = (shown \o f) \o LastShown
  BY <1>3, <1>5, Associative, ZenonT(60)
<1>9. ((shown \o f) \o LastShown) \o readBuffer
        = (shown \o f) \o (LastShown \o readBuffer)
  BY <1>3, <1>5, <1>6, Associative, SMTT(30)
<1>10. Stored = (shown \o f) \o (LastShown \o readBuffer)
  BY <1>4, <1>8, <1>9 DEF Stored
<1>11. ((shown \o f) \o (LastShown \o readBuffer)) \o Coming
         = (shown \o f) \o ((LastShown \o readBuffer) \o Coming)
  BY <1>5, <1>6, <1>7, Associative, ZenonT(60)
<1>12. QED BY <1>3, <1>6, <1>10, <1>11

LEMMA GapIdle ==
  ASSUME FifoIInv, EnsureEpicsIdle
  PROVE  FifoIInv'
<1> USE DEF FifoIInv
<1>1. CallInv /\ CallInv'
  BY CallIdle
<1>2. /\ call.phase = "idle" /\ call'.phase = "status"
      /\ call'.stage = call.stage
      /\ call'.flush <=> call.flush
  <2>1. call \in CallType
    BY DEF CallInv, FifoTypeOK, CallType
  <2>2. QED BY <2>1, GotoCall DEF EnsureEpicsIdle, Phase
<1>3. UNCHANGED <<queue, runState, number>> /\ ~epicsBusy' /\ readBuffer' = <<>>
      /\ overflow' \in BOOLEAN
  BY DEF EnsureEpicsIdle, fifoHwVars, CallInv, FifoTypeOK
<1>4. Coming' = Coming /\ HwInv'
  BY <1>2, <1>3 DEF Coming, HwInv
<1>5. KnownBreaks' = {Len(shown') + i : i \in seam'}
  BY <1>2, <1>3 DEF KnownBreaks
<1>6. Stored' = shown' \o buffer'
  <2>1. shown' \o buffer' \in Seq(Sample)
    <3>1. shown' \in Seq(Sample) /\ buffer' \in Seq(Sample)
      BY <1>1 DEF CallInv, FifoTypeOK, Sample
    <3>2. QED BY <3>1, ConcatProperties
  <2>2. QED BY <1>3, <2>1, ConcatEmptySeq DEF Stored
<1>7. Coming \in Seq(Sample) /\ shown \in Seq(Sample)
      /\ readBuffer \in Seq(Sample)
      /\ Len(shown) \in Nat /\ Len(buffer) \in Nat /\ Len(readBuffer) \in Nat
  BY <1>1, Types
<1>8. CASE call.stage \in {"START", "FLUSH"}
  <2>1. buffer' = <<>> /\ seam' = {} /\ shown' = <<>>
    BY <1>8 DEF EnsureEpicsIdle
  <2>2. StartInv' /\ SeamInv'
    BY <1>2, <1>3, <2>1 DEF StartInv, SeamInv
  <2>3. Stored' = <<>>
    BY <1>6, <2>1, EmptyType, ConcatEmptySeq
  <2>4. Stored' \o Coming' = Coming
    BY <1>4, <1>7, <2>3, ConcatEmptySeq
  <2>5. Unbroken(Coming, KnownBreaks')
    BY WeakenUnbroken DEF HwInv
  <2>6. GapInv'
    BY <2>3, <2>4, <2>5 DEF GapInv
  <2>7. QED BY <1>1, <1>4, <2>2, <2>6
<1>9. CASE call.stage \notin {"START", "FLUSH"} /\ ~epicsBusy
  <2>1. UNCHANGED <<buffer, overflow, seam, shown>> /\ readBuffer = <<>>
        /\ (enabled' <=> enabled)
    BY <1>2, <1>9 DEF EnsureEpicsIdle, StartInv
  <2>2. StartInv' /\ SeamInv'
    BY <1>2, <1>3, <1>9, <2>1 DEF StartInv, SeamInv
  <2>3. Stored' = Stored
    BY <1>3, <2>1 DEF Stored
  <2>4. KnownBreaks' = KnownBreaks /\ (Tracking' <=> Tracking)
    BY <1>2, <1>5, <1>9, <2>1 DEF KnownBreaks, Tracking
  <2>5. GapInv'
    BY <1>3, <1>4, <2>3, <2>4 DEF GapInv
  <2>6. QED BY <1>1, <1>4, <2>2, <2>5
<1>10. CASE call.stage \notin {"START", "FLUSH"} /\ epicsBusy
  <2>1. /\ buffer' = readBuffer /\ shown' = LastShown
        /\ seam' = IF overflow THEN {Len(readBuffer)} ELSE {}
        /\ (enabled' <=> enabled)
    BY <1>10 DEF EnsureEpicsIdle, Residue
  <2>2. StartInv'
    BY <1>2, <1>10 DEF StartInv
  <2>3. Len(readBuffer) < BufferSize
    BY <1>7, FifoAssumption DEF CallInv, FifoTypeOK
  <2>4. SeamInv'
    <3>1. \A i \in seam' : i <= Len(buffer') /\ i < BufferSize
      BY <1>7, <2>1, <2>3
    <3>2. QED BY <1>3, <3>1 DEF SeamInv
  <2>5. Stored' = LastShown \o readBuffer
    BY <1>6, <2>1
  <2>6. ASSUME enabled
        PROVE  /\ Unbroken(Stored' \o Coming, KnownBreaks')
               /\ runState \in {"DELAY", "STARTING"} =>
                    Stored' = <<>> \/ Len(Stored') \in KnownBreaks'
    <3>1. /\ Unbroken(Stored \o Coming, KnownBreaks)
          /\ runState \in {"DELAY", "STARTING"} =>
               Stored = <<>> \/ Len(Stored) \in KnownBreaks
      BY <1>10, <2>6 DEF GapInv, Tracking
    <3>2. KnownBreaks = {Len(shown) + i : i \in seam \cup
            (IF overflow THEN {Len(buffer) + Len(readBuffer)} ELSE {})}
      BY <1>10 DEF KnownBreaks
    <3>3. \A i \in seam : /\ i \in Nat /\ i <= Len(buffer)
                          /\ i = Len(buffer) => overflow /\ readBuffer = <<>>
      BY <1>1, <1>10, <2>6, Types DEF SeamInv
    <3>4. overflow /\ readBuffer = <<>> => 0 \in seam'
      BY <2>1, EmptyType
    <3>5. CASE buffer = <<>>
      <4>1. Len(buffer) = 0 /\ shown' = shown
        BY <2>1, <3>5, EmptyType DEF LastShown
      <4>2. Stored' = Stored
        <5>1. shown \o buffer = shown
          BY <1>7, <3>5, ConcatEmptySeq
        <5>2. QED BY <1>6, <2>1, <4>1, <5>1 DEF Stored
      <4>3. ASSUME NEW i \in KnownBreaks
            PROVE  i \in KnownBreaks'
        <5>1. \/ \E j \in seam : i = Len(shown) + j
              \/ overflow /\ i = Len(shown) + (Len(buffer) + Len(readBuffer))
          BY <3>2, <4>3
        <5>2. ASSUME NEW j \in seam, i = Len(shown) + j
              PROVE  i \in KnownBreaks'
          <6>1. j = 0 /\ 0 \in seam'
            BY <3>3, <3>4, <4>1
          <6>2. QED BY <1>5, <4>1, <5>2, <6>1
        <5>3. ASSUME overflow, i = Len(shown) + (Len(buffer) + Len(readBuffer))
              PROVE  i \in KnownBreaks'
          <6>1. Len(readBuffer) \in seam' /\ i = Len(shown) + Len(readBuffer)
            BY <1>7, <2>1, <4>1, <5>3
          <6>2. QED BY <1>5, <4>1, <6>1
        <5>4. QED BY <5>1, <5>2, <5>3
      <4>4. Unbroken(Stored \o Coming, KnownBreaks')
        BY <3>1, <4>3, WeakenUnbroken
      <4>5. QED BY <3>1, <4>2, <4>3, <4>4
    <3>6. CASE buffer # <<>>
      <4>1. PICK p \in Seq(Sample) :
              /\ Len(p) = Len(shown) + Len(buffer) - 1
              /\ Stored = p \o (LastShown \o readBuffer)
              /\ Stored \o Coming = p \o ((LastShown \o readBuffer) \o Coming)
              /\ Len(LastShown) = 1
        BY <1>1, <3>6, ShownPrefix
      <4>2. /\ LastShown \in Seq(Sample)
            /\ LastShown \o readBuffer \in Seq(Sample)
            /\ (LastShown \o readBuffer) \o Coming \in Seq(Sample)
            /\ Len(LastShown \o readBuffer) = 1 + Len(readBuffer)
        BY <1>1, <1>7, <4>1, LastShownType, ConcatProperties DEF CallInv
      <4>3. Len(shown') = 1
        BY <2>1, <4>1
      <4>4. ASSUME NEW i \in Nat \ {0}, Len(p) + i \in KnownBreaks
            PROVE  i \in KnownBreaks'
        <5>1. \/ \E j \in seam : Len(p) + i = Len(shown) + j
              \/ /\ overflow
                 /\ Len(p) + i = Len(shown) + (Len(buffer) + Len(readBuffer))
          BY <3>2, <4>4
        <5>2. ASSUME NEW j \in seam, Len(p) + i = Len(shown) + j
              PROVE  i \in KnownBreaks'
          <6>1. j \in Nat /\ j <= Len(buffer)
            BY <3>3
          <6>2. i = j - Len(buffer) + 1
            BY <1>7, <4>1, <5>2, <6>1
          <6>3. j = Len(buffer) /\ i = 1
            BY <1>7, <6>1, <6>2
          <6>4. 0 \in seam'
            BY <3>3, <3>4, <6>3
          <6>5. QED BY <1>5, <4>3, <6>3, <6>4
        <5>3. ASSUME overflow,
                     Len(p) + i = Len(shown) + (Len(buffer) + Len(readBuffer))
              PROVE  i \in KnownBreaks'
          <6>1. i = 1 + Len(readBuffer)
            BY <1>7, <4>1, <5>3
          <6>2. Len(readBuffer) \in seam'
            BY <2>1, <5>3
          <6>3. QED BY <1>5, <4>3, <6>1, <6>2
        <5>4. QED BY <5>1, <5>2, <5>3
      <4>5. Unbroken((LastShown \o readBuffer) \o Coming, KnownBreaks')
        <5>1. Unbroken(p \o ((LastShown \o readBuffer) \o Coming), KnownBreaks)
          BY <3>1, <4>1
        <5>2. QED BY <4>2, <4>4, <5>1, SuffixUnbroken
      <4>6. Len(Stored) = Len(p) + (1 + Len(readBuffer))
        <5>1. Len(p \o (LastShown \o readBuffer))
                = Len(p) + Len(LastShown \o readBuffer)
          BY <4>2, ConcatProperties
        <5>2. QED BY <4>1, <4>2, <5>1
      <4>7. Stored # <<>>
        BY <1>1, <1>7, <3>6, Types, EmptySeq
      <4>8. runState \in {"DELAY", "STARTING"} => Len(Stored') \in KnownBreaks'
        <5>1. 1 + Len(readBuffer) \in Nat \ {0}
          BY <1>7
        <5>2. QED BY <2>5, <3>1, <4>2, <4>4, <4>6, <4>7, <5>1
      <4>9. QED BY <2>5, <4>5, <4>8
    <3>7. QED BY <3>5, <3>6
  <2>7. GapInv'
    BY <1>2, <1>3, <1>4, <2>1, <2>6 DEF GapInv, Tracking
  <2>8. QED BY <1>1, <1>4, <2>2, <2>4, <2>7
<1>11. QED BY <1>8, <1>9, <1>10

LEMMA IInvStep ==
  ASSUME FifoIInv, [FifoNext]_fifoVars
  PROVE  FifoIInv'
<1>1. CASE CallStep
  BY <1>1, GapIdle, GapStatus, GapWord, GapReset, GapEnable, GapBuffer
     DEF CallStep
<1>2. CASE UNCHANGED fifoVars
  <2>1. CallInv'
    BY CallInvStep DEF FifoIInv
  <2>2. QED BY <1>2, <2>1
            DEF fifoVars, fifoHwVars, fifoSwVars, FifoIInv, HwInv, StartInv,
                SeamInv, GapInv, Coming, Stored, KnownBreaks, Tracking
<1>3. QED BY <1>1, <1>2, GapHardware, GapEntry DEF FifoNext

LEMMA FifoSpecIInv == FifoSpec => []FifoIInv
BY InitIInv, IInvStep, PTL DEF FifoSpec

(***************************************************************************)
(* process_fifo_content() and hw_read_pll_readout_fifo() lose no sample    *)
(* without a mark, whatever the sizes of the FIFO and of the buffer and    *)
(* wherever the hardware overruns between two register accesses.           *)
(***************************************************************************)
THEOREM SamplesFollow == FifoSpec => []NoHiddenGap
<1>1. FifoIInv => NoHiddenGap
  <2>1. SUFFICES ASSUME FifoIInv, enabled,
                        ~(call.stage \in {"START", "FLUSH"}
                          /\ call.phase # "none")
                 PROVE  Unbroken(Stored \o queue, KnownBreaks)
    BY DEF NoHiddenGap, Unbroken, Pipeline, Stored, Succ
  <2>2. CallInv /\ Tracking
    BY <2>1 DEF FifoIInv, CallInv, FlushInv, Tracking
  <2>3. Unbroken(Stored \o Coming, KnownBreaks)
    BY <2>1, <2>2 DEF FifoIInv, GapInv
  <2>4. CASE runState = "RUNNING"
    <3>1. Stored \o queue \in Seq(Sample) /\ number \in Sample
      BY <2>2, Types, ConcatProperties
    <3>2. Stored \o Coming = Append(Stored \o queue, number)
      BY <2>2, <2>4, Types, ConcatAppend DEF Coming
    <3>3. Unbroken(Append(Stored \o queue, number), KnownBreaks)
      BY <2>3, <3>2
    <3>4. QED BY <3>1, <3>3, FrontUnbroken
  <2>5. CASE runState # "RUNNING"
    BY <2>3, <2>5 DEF Coming
  <2>6. QED BY <2>4, <2>5
<1>2. QED BY <1>1, FifoSpecIInv, PTL

-----------------------------------------------------------------------------
(***************************************************************************)
(* The capture: MemoryCapture.                                             *)
(***************************************************************************)
EntryChannels(i) == {select_map[i][1], select_map[i][2]}

(***************************************************************************)
(* write_memory_select() changes one thing after the other, and all of     *)
(* them belong to one entry before and after.                              *)
(***************************************************************************)
SelectInv ==
  /\ wanted \subseteq EntryChannels(select.entry)
  /\ select.step = 0 => mux = select.entry
  /\ \A k \in {1, 2} : select.step \notin 1 .. k =>
       /\ chanSelection[k] = select_map[select.entry][k]
       /\ shownSelect[k] = select_map[select.entry][k]

\* What a readout of the last capture is to show.
Target == [origin |-> captured.number, offset |-> readoutOffset]
Aligned == [from |-> Target, delays |-> select_map[captured.mux]]

(***************************************************************************)
(* As long as nothing has crossed, one thread reads at a time, what it has *)
(* read so far is the last capture, and the event of a capture finds       *)
(* nobody reading and the selection that the capture was made with.        *)
(***************************************************************************)
ReadoutInv ==
  ~crossed =>
    /\ event =>
         ~Reading /\ select.step = 0 /\ mux = captured.mux
    /\ ~event =>
         origin = captured.number /\ channelDelays = select_map[captured.mux]
    /\ ~event /\ ~Reading => wave[0] = Aligned /\ wave[1] = Aligned
    /\ \A t \in Thread : readout[t].step # "idle" =>
         /\ \A u \in Thread \ {t} : readout[u].step = "idle"
         /\ readout[t].step # "offset" => readout[t].from = Target
         /\ readout[t].step \in {"second", "wait", "copy", "copied"} =>
              memoryBuffer[0] = Target
         /\ readout[t].step \in {"wait", "copy", "copied"} =>
              memoryBuffer[1] = Target
         /\ readout[t].step = "copied" => wave[0] = Aligned

Steps == {"idle", "offset", "lock", "first", "second", "wait", "copy", "copied"}

CaptureInv == CaptureTypeOK /\ SelectInv /\ ReadoutInv

-----------------------------------------------------------------------------
(* find_selection().                                                       *)

LEMMA MapEntries ==
  /\ Entry = 1 .. 15
  /\ select_map[1] = <<"ADC0", "ADC1">> /\ select_map[2] = <<"ADC0", "FIR1">>
  /\ select_map[3] = <<"ADC0", "DAC1">> /\ select_map[4] = <<"ADC0", "FIR0">>
  /\ select_map[5] = <<"FIR0", "ADC1">> /\ select_map[6] = <<"FIR0", "FIR1">>
  /\ select_map[7] = <<"FIR0", "DAC1">> /\ select_map[8] = <<"FIR0", "DAC0">>
  /\ select_map[9] = <<"DAC0", "ADC1">> /\ select_map[10] = <<"DAC0", "FIR1">>
  /\ select_map[11] = <<"DAC0", "DAC1">> /\ select_map[12] = <<"ADC0", "DAC0">>
  /\ select_map[13] = <<"ADC1", "FIR1">> /\ select_map[14] = <<"FIR1", "DAC1">>
  /\ select_map[15] = <<"ADC1", "DAC1">>
BY DEF select_map, Entry

LEMMA MapChannels ==
  \A i \in Entry : /\ select_map[i] \in Channel \X Channel
                   /\ select_map[i][1] \in Channel
                   /\ select_map[i][2] \in Channel
<1> SUFFICES ASSUME NEW i \in Entry PROVE select_map[i] \in Channel \X Channel
  OBVIOUS
<1>1. \A x, y \in Channel :
        select_map[i] = <<x, y>> => select_map[i] \in Channel \X Channel
  OBVIOUS
<1>2. CASE i \in 1 .. 5
  BY <1>1, <1>2, MapEntries DEF Channel
<1>3. CASE i \in 6 .. 10
  BY <1>1, <1>3, MapEntries DEF Channel
<1>4. CASE i \in 11 .. 15
  BY <1>1, <1>4, MapEntries DEF Channel
<1>5. QED BY <1>2, <1>3, <1>4, MapEntries

\* Any two channels are in the table, in one order or the other.
LEMMA PairInMap ==
  ASSUME NEW a \in Channel, NEW b \in Channel, a # b
  PROVE  \E i \in Entry : select_map[i] \in {<<a, b>>, <<b, a>>}
<1> DEFINE Found(x, y) ==
      \E i \in Entry : select_map[i] \in {<<x, y>>, <<y, x>>}
<1>1. ASSUME NEW i \in Entry, NEW x, NEW y, select_map[i] = <<x, y>>
      PROVE  Found(x, y) /\ Found(y, x)
  BY <1>1
<1> HIDE DEF Found
<1>2. \A c \in {"ADC1", "FIR1", "DAC1", "FIR0", "DAC0"} : Found("ADC0", c) /\ Found(c, "ADC0")
  BY <1>1, MapEntries
<1>3. \A c \in {"ADC0", "ADC1", "FIR1", "DAC1", "DAC0"} : Found("FIR0", c) /\ Found(c, "FIR0")
  BY <1>1, MapEntries
<1>4. \A c \in {"FIR0", "ADC1", "FIR1", "DAC1", "ADC0"} : Found("DAC0", c) /\ Found(c, "DAC0")
  BY <1>1, MapEntries
<1>5. \A c \in {"ADC0", "FIR0", "DAC0", "ADC1", "DAC1"} : Found("FIR1", c) /\ Found(c, "FIR1")
  BY <1>1, MapEntries
<1>6. Found("ADC1", "DAC1") /\ Found("DAC1", "ADC1")
  BY <1>1, MapEntries
<1>7. Found(a, b)
  BY <1>2, <1>3, <1>4, <1>5, <1>6 DEF Channel
<1>8. QED BY <1>7 DEF Found

LEMMA SingleInMap ==
  ASSUME NEW a \in Channel
  PROVE  \E i \in {1, 6, 11} : \E k \in 1 .. 2 : select_map[i][k] = a
BY MapEntries DEF Channel

LEMMA FirstEntry ==
  ASSUME NEW S \in SUBSET Entry, S # {}
  PROVE  (CHOOSE i \in S : \A j \in S : i <= j) \in S
<1>1. \E i \in S : \A j \in S : i <= j
  <2> SUFFICES ASSUME \A i \in S : \E j \in S : j < i PROVE FALSE
    BY MapEntries
  <2>1. \A i \in S : i > 3
    BY MapEntries
  <2>2. \A i \in S : i > 6
    BY <2>1, MapEntries
  <2>3. \A i \in S : i > 9
    BY <2>2, MapEntries
  <2>4. \A i \in S : i > 12
    BY <2>3, MapEntries
  <2>5. \A i \in S : i > 15
    BY <2>4, MapEntries
  <2>6. PICK i \in S : TRUE
    OBVIOUS
  <2>7. QED BY <2>5, <2>6, MapEntries
<1>2. QED BY <1>1

(***************************************************************************)
(* Whichever two channels are asked for, or one of them twice, the entry   *)
(* that is found has them.                                                 *)
(***************************************************************************)
LEMMA SelectionFound ==
  ASSUME NEW a \in Channel, NEW b \in Channel
  PROVE  Selection(a, b) \in Entry /\ {a, b} \subseteq EntryChannels(Selection(a, b))
<1>1. CASE a = b
  <2> DEFINE S == {i \in {1, 6, 11} : \E k \in 1 .. 2 : select_map[i][k] = a}
  <2>1. S # {} /\ S \in SUBSET Entry
    BY SingleInMap, MapEntries
  <2>2. SingleSelection(a) = CHOOSE i \in S : \A j \in S : i <= j
    BY <2>1 DEF SingleSelection
  <2>3. SingleSelection(a) \in S
    BY <2>1, <2>2, FirstEntry
  <2>4. QED BY <1>1, <2>1, <2>3 DEF Selection, EntryChannels
<1>2. CASE a # b
  <2> DEFINE S == {i \in Entry : select_map[i] \in {<<a, b>>, <<b, a>>}}
  <2>1. S # {} /\ S \in SUBSET Entry
    BY <1>2, PairInMap
  <2>2. PairedSelection(a, b) = CHOOSE i \in S : \A j \in S : i <= j
    BY <2>1 DEF PairedSelection
  <2>3. PairedSelection(a, b) \in S
    BY <2>1, <2>2, FirstEntry
  <2>4. QED BY <1>2, <2>3 DEF Selection, EntryChannels
<1>3. QED BY <1>1, <1>2

LEMMA PairUpdate ==
  ASSUME NEW p \in Channel \X Channel, NEW k \in {1, 2}, NEW c \in Channel
  PROVE  /\ [p EXCEPT ![k] = c] \in Channel \X Channel
         /\ [p EXCEPT ![k] = c][k] = c
         /\ [p EXCEPT ![k] = c][3 - k] = p[3 - k]
<1>1. CASE k = 1
  BY <1>1
<1>2. CASE k = 2
  BY <1>2
<1>3. QED BY <1>1, <1>2

-----------------------------------------------------------------------------
(* The start, and the selection.                                           *)

LEMMA InitCapture == CaptureInit => CaptureInv
<1> SUFFICES ASSUME CaptureInit PROVE CaptureInv
  OBVIOUS
<1> DEFINE from == [origin |-> 0, offset |-> readoutOffset]
<1>1. /\ mux \in Entry /\ MaxCaptures \in Nat /\ MaxWrites \in Nat
  BY MapEntries, CaptureAssumption DEF CaptureInit
<1>2. from \in Contents /\ select_map[mux] \in Channel \X Channel
  BY <1>1, MapChannels DEF CaptureInit, Contents
<1>3. /\ readout = [t \in Thread |-> [step |-> "idle", from |-> from]]
      /\ memoryBuffer = [h \in Half |-> from]
      /\ wave = [h \in Half |-> [from |-> from, delays |-> chanSelection]]
  BY DEF CaptureInit
<1> HIDE DEF from
<1>4. /\ readout \in [Thread -> [step : Steps, from : Contents]]
      /\ memoryBuffer \in [Half -> Contents]
      /\ wave \in [Half -> [from : Contents, delays : Channel \X Channel]]
  BY <1>2, <1>3 DEF Steps, CaptureInit
<1>5. CaptureTypeOK
  <2>1. /\ chanSelection = select_map[mux] /\ shownSelect = select_map[mux]
        /\ channelDelays = select_map[mux]
        /\ wanted = {select_map[mux][1], select_map[mux][2]}
    BY DEF CaptureInit
  <2>2. wanted \in SUBSET Channel
    BY <1>1, <2>1, MapChannels
  <2>3. /\ select \in [entry : Entry, step : 0 .. 3]
        /\ captured \in [number : 0 .. MaxCaptures, mux : Entry]
    BY <1>1 DEF CaptureInit
  <2>4. /\ event \in BOOLEAN /\ crossed \in BOOLEAN
        /\ dram = "free" /\ interlock = "free" /\ readoutOffset \in ReadoutOffsets
    BY DEF CaptureInit
  <2>5. origin \in 0 .. MaxCaptures /\ writes \in 0 .. MaxWrites
    BY <1>1 DEF CaptureInit
  <2>6. QED BY <1>1, <1>2, <1>4, <2>1, <2>2, <2>3, <2>4, <2>5
            DEF CaptureTypeOK, Steps
<1>6. SelectInv
  BY DEF CaptureInit, SelectInv, EntryChannels
<1>7. ReadoutInv
  <2>1. from = Target
    BY DEF from, Target, CaptureInit
  <2>2. \A t \in Thread : readout[t].step = "idle"
    BY <1>3
  <2>3. wave[0] = Aligned /\ wave[1] = Aligned
    BY <1>3, <2>1 DEF Half, Aligned, CaptureInit
  <2>4. QED BY <2>2, <2>3 DEF ReadoutInv, Reading, CaptureInit
<1>8. QED BY <1>5, <1>6, <1>7 DEF CaptureInv

LEMMA WriteSelectStep == ASSUME CaptureInv, WriteSelect PROVE CaptureInv'
<1> USE DEF WriteSelect
<1>1. CaptureTypeOK /\ MaxWrites \in Nat
  BY CaptureAssumption DEF CaptureInv
<1>2. /\ select'.entry \in Entry /\ select'.step = 1
      /\ select' \in [entry : Entry, step : 0 .. 3]
      /\ wanted' \subseteq EntryChannels(select'.entry)
      /\ wanted' \in SUBSET Channel
  <2>1. CASE \E i \in Entry : /\ select' = [entry |-> i, step |-> 1]
                              /\ wanted' = {select_map[i][1], select_map[i][2]}
    BY <2>1, MapChannels DEF EntryChannels
  <2>2. CASE \E v \in Channel, pair \in {1, 2} :
          LET other == chanSelection[3 - pair]
          IN  /\ select' = [entry |-> IF pair = 1 THEN Selection(v, other)
                                      ELSE Selection(other, v),
                            step |-> 1]
              /\ wanted' = {v, other}
    <3>1. PICK v \in Channel, pair \in {1, 2} :
            /\ select' = [entry |-> IF pair = 1
                                    THEN Selection(v, chanSelection[3 - pair])
                                    ELSE Selection(chanSelection[3 - pair], v),
                          step |-> 1]
            /\ wanted' = {v, chanSelection[3 - pair]}
      BY <2>2
    <3>2. chanSelection[3 - pair] \in Channel
      BY <1>1 DEF CaptureTypeOK
    <3>3. QED BY <3>1, <3>2, SelectionFound
  <2>3. QED BY <2>1, <2>2
<1>3. CaptureTypeOK'
  BY <1>1, <1>2 DEF CaptureTypeOK, captureVars
<1>4. SelectInv'
  BY <1>2 DEF SelectInv
<1>5. ReadoutInv'
  BY DEF CaptureInv, ReadoutInv, Reading, Target, Aligned, captureVars
<1>6. QED BY <1>3, <1>4, <1>5 DEF CaptureInv

LEMMA SetSelectionStep == ASSUME CaptureInv, SetSelection PROVE CaptureInv'
<1> USE DEF SetSelection
<1>1. CaptureTypeOK /\ select.step \in {1, 2}
  BY DEF CaptureInv
<1> DEFINE k == select.step
           channel == select_map[select.entry][k]
<1>2. channel \in Channel
  BY <1>1, MapChannels DEF CaptureTypeOK
<1>3. /\ chanSelection' \in Channel \X Channel
      /\ chanSelection'[k] = channel
      /\ chanSelection'[3 - k] = chanSelection[3 - k]
  BY <1>1, <1>2, PairUpdate DEF CaptureTypeOK
<1>4. /\ shownSelect' \in Channel \X Channel
      /\ shownSelect'[k] = channel
      /\ shownSelect'[3 - k] = shownSelect[3 - k]
  <2>1. shownSelect' = [shownSelect EXCEPT ![k] = channel]
    OBVIOUS
  <2>2. shownSelect \in Channel \X Channel
    BY <1>1 DEF CaptureTypeOK
  <2> HIDE DEF channel
  <2>3. QED BY <1>1, <1>2, <2>1, <2>2, PairUpdate
<1>5. /\ select' \in [entry : Entry, step : 0 .. 3]
      /\ select'.entry = select.entry /\ select'.step = k + 1
  BY <1>1 DEF CaptureTypeOK
<1> HIDE DEF channel
<1>6. CaptureTypeOK'
  BY <1>1, <1>3, <1>4, <1>5 DEF CaptureTypeOK, captureVars, readVars
<1>7. SelectInv'
  <2>1. CASE k = 1
    BY <2>1, <1>1, <1>3, <1>4, <1>5 DEF CaptureInv, SelectInv, channel
  <2>2. CASE k = 2
    BY <2>2, <1>1, <1>3, <1>4, <1>5 DEF CaptureInv, SelectInv, channel
  <2>3. QED BY <1>1, <2>1, <2>2
<1>8. ReadoutInv'
  BY <1>1 DEF CaptureInv, ReadoutInv, Reading, Target, Aligned, captureVars, readVars
<1>9. QED BY <1>6, <1>7, <1>8 DEF CaptureInv

LEMMA SetMuxStep == ASSUME CaptureInv, SetMux PROVE CaptureInv'
<1> USE DEF SetMux
<1>1. /\ select' \in [entry : Entry, step : 0 .. 3] /\ select.entry \in Entry
      /\ select'.entry = select.entry /\ select'.step = 0
  BY DEF CaptureInv, CaptureTypeOK
<1>2. CaptureTypeOK'
  BY <1>1 DEF CaptureInv, CaptureTypeOK, captureVars, readVars
<1>3. SelectInv'
  BY <1>1 DEF CaptureInv, SelectInv
<1>4. ReadoutInv'
  BY DEF CaptureInv, ReadoutInv, Reading, Target, Aligned, captureVars, readVars
<1>5. QED BY <1>2, <1>3, <1>4 DEF CaptureInv

-----------------------------------------------------------------------------
(* Capture.                                                                *)

(***************************************************************************)
(* A capture that ends while somebody reads, or the selection changes, is  *)
(* one that crosses; otherwise its event finds all at rest.                *)
(***************************************************************************)
LEMMA CompleteStep == ASSUME CaptureInv, Complete PROVE CaptureInv'
<1> USE DEF Complete
<1>1. CaptureTypeOK /\ MaxCaptures \in Nat
  BY CaptureAssumption DEF CaptureInv
<1>2. /\ captured' \in [number : 0 .. MaxCaptures, mux : Entry]
      /\ captured'.mux = mux
  BY <1>1 DEF CaptureTypeOK
<1>3. CaptureTypeOK'
  BY <1>1, <1>2 DEF CaptureTypeOK, selectVars, Reading
<1>4. SelectInv'
  BY DEF CaptureInv, SelectInv, selectVars
<1>5. ReadoutInv'
  <2> SUFFICES ASSUME ~crossed' PROVE ReadoutInv'
    BY DEF ReadoutInv
  <2>1. ~Reading /\ select.step = 0
    OBVIOUS
  <2>2. ~Reading' /\ select'.step = 0 /\ mux' = captured'.mux /\ event'
    BY <2>1, <1>2 DEF Reading, selectVars
  <2>3. QED BY <2>2 DEF ReadoutInv, Reading
<1>6. QED BY <1>3, <1>4, <1>5 DEF CaptureInv

LEMMA ThreadStep ==
  ASSUME CaptureTypeOK, NEW t \in Thread, NEW step \in Steps,
         readout' = [readout EXCEPT ![t].step = step]
  PROVE  /\ readout' \in [Thread -> [step : Steps, from : Contents]]
         /\ readout'[t].step = step /\ readout'[t].from = readout[t].from
         /\ \A u \in Thread \ {t} : readout'[u] = readout[u]
BY DEF CaptureTypeOK, Steps

(***************************************************************************)
(* The events thread starts to read a capture.                             *)
(***************************************************************************)
LEMMA CaptureCompleteStep == ASSUME CaptureInv, CaptureComplete PROVE CaptureInv'
<1> USE DEF CaptureComplete
<1>1. CaptureTypeOK /\ "events" \in Thread /\ "offset" \in Steps
  BY DEF CaptureInv, Thread, Steps
<1>2. /\ readout' \in [Thread -> [step : Steps, from : Contents]]
      /\ readout'["events"].step = "offset"
      /\ \A u \in Thread \ {"events"} : readout'[u] = readout[u]
  BY <1>1, ThreadStep
<1>3. CaptureTypeOK'
  BY <1>1, <1>2 DEF CaptureTypeOK, selectVars, Steps
<1>4. SelectInv'
  BY DEF CaptureInv, SelectInv, selectVars
<1>5. ReadoutInv'
  <2> SUFFICES ASSUME ~crossed PROVE ReadoutInv'
    BY DEF ReadoutInv
  <2>1. /\ \A u \in Thread : readout[u].step = "idle"
        /\ select.step = 0 /\ mux = captured.mux
    BY DEF CaptureInv, ReadoutInv, Reading
  <2>2. chanSelection = select_map[captured.mux]
    <3>1. /\ chanSelection[1] = select_map[mux][1]
          /\ chanSelection[2] = select_map[mux][2]
      BY <2>1 DEF CaptureInv, SelectInv
    <3>2. /\ chanSelection \in Channel \X Channel
          /\ select_map[mux] \in Channel \X Channel
      BY <1>1, MapChannels DEF CaptureTypeOK
    <3>3. QED BY <2>1, <3>1, <3>2
  <2>3. origin' = captured'.number /\ channelDelays' = select_map[captured'.mux]
    BY <2>2
  <2>4. /\ ~event' /\ Reading'
        /\ \A u \in Thread \ {"events"} : readout'[u].step = "idle"
    BY <1>1, <1>2, <2>1 DEF Reading
  <2>5. QED BY <1>2, <2>3, <2>4 DEF ReadoutInv
<1>6. QED BY <1>3, <1>4, <1>5 DEF CaptureInv

LEMMA WriteOffsetStep == ASSUME CaptureInv, WriteOffset PROVE CaptureInv'
<1> USE DEF WriteOffset
<1>1. /\ CaptureTypeOK /\ "offset" \in Thread /\ "offset" \in Steps
      /\ MaxWrites \in Nat
  BY CaptureAssumption DEF CaptureInv, Thread, Steps
<1>2. /\ readout' \in [Thread -> [step : Steps, from : Contents]]
      /\ readout'["offset"].step = "offset"
      /\ \A u \in Thread \ {"offset"} : readout'[u] = readout[u]
  BY <1>1, ThreadStep
<1>3. CaptureTypeOK'
  BY <1>1, <1>2 DEF CaptureTypeOK, selectVars, captureVars, Steps, Reading
<1>4. SelectInv'
  BY DEF CaptureInv, SelectInv, selectVars
<1>5. ReadoutInv'
  <2> SUFFICES ASSUME ~crossed' PROVE ReadoutInv'
    BY DEF ReadoutInv
  <2>1. ~crossed /\ ~Reading /\ ~event
    OBVIOUS
  <2>2. /\ ~event' /\ Reading'
        /\ \A u \in Thread \ {"offset"} : readout'[u].step = "idle"
    BY <1>1, <1>2, <2>1 DEF Reading, captureVars
  <2>3. origin' = captured'.number /\ channelDelays' = select_map[captured'.mux]
    BY <2>1 DEF CaptureInv, ReadoutInv, captureVars
  <2>4. QED BY <1>2, <2>2, <2>3 DEF ReadoutInv
<1>6. QED BY <1>3, <1>4, <1>5 DEF CaptureInv

-----------------------------------------------------------------------------
(* Readout.                                                                *)

\* A thread that reads while nothing has crossed is the only one.
LEMMA OneReader ==
  ASSUME CaptureInv, ~crossed, NEW t \in Thread, readout[t].step # "idle"
  PROVE  /\ ~event /\ \A u \in Thread \ {t} : readout[u].step = "idle"
         /\ origin = captured.number
         /\ channelDelays = select_map[captured.mux]
BY DEF CaptureInv, ReadoutInv, Reading

(***************************************************************************)
(* The only reader goes on: what is left to show of the invariant.         *)
(***************************************************************************)
LEMMA ReaderGoesOn ==
  ASSUME CaptureInv, ~crossed, NEW t \in Thread, readout[t].step # "idle",
         \A u \in Thread \ {t} : readout'[u] = readout[u],
         UNCHANGED <<captureVars, readoutOffset, crossed>>,
         readout'[t].step # "idle",
         readout'[t].step # "offset" => readout'[t].from = Target,
         readout'[t].step \in {"second", "wait", "copy", "copied"} =>
           memoryBuffer'[0] = Target,
         readout'[t].step \in {"wait", "copy", "copied"} =>
           memoryBuffer'[1] = Target,
         readout'[t].step = "copied" => wave'[0] = Aligned
  PROVE  ReadoutInv'
<1>1. /\ ~event' /\ Reading'
      /\ \A u \in Thread \ {t} : readout'[u].step = "idle"
      /\ origin' = captured'.number
      /\ channelDelays' = select_map[captured'.mux]
      /\ Target' = Target /\ Aligned' = Aligned
  BY OneReader DEF captureVars, Target, Aligned, Reading
<1>2. QED BY <1>1 DEF ReadoutInv

LEMMA ComputeOffsetStep ==
  ASSUME CaptureInv, NEW t \in Thread, ComputeOffset(t)
  PROVE  CaptureInv'
<1> USE DEF ComputeOffset
<1>1. CaptureTypeOK /\ [origin |-> origin, offset |-> readoutOffset] \in Contents
  BY DEF CaptureInv, CaptureTypeOK, Contents
<1>2. /\ readout' \in [Thread -> [step : Steps, from : Contents]]
      /\ readout'[t].step = "lock"
      /\ readout'[t].from = [origin |-> origin, offset |-> readoutOffset]
      /\ \A u \in Thread \ {t} : readout'[u] = readout[u]
  BY <1>1 DEF CaptureTypeOK, Steps
<1>3. CaptureTypeOK'
  BY <1>1, <1>2 DEF CaptureTypeOK, selectVars, captureVars, Steps
<1>4. SelectInv'
  BY DEF CaptureInv, SelectInv, selectVars
<1>5. ReadoutInv'
  <2> SUFFICES ASSUME ~crossed PROVE ReadoutInv'
    BY DEF ReadoutInv
  <2>1. readout'[t].from = Target
    BY <1>2, OneReader DEF Target
  <2>2. QED BY <1>2, <2>1, ReaderGoesOn
<1>6. QED BY <1>3, <1>4, <1>5 DEF CaptureInv

\* The steps of a readout move its thread, and leave most as it is.
LEMMA ReadoutMoves ==
  ASSUME CaptureInv, NEW t \in Thread, NEW step \in Steps, NEW next \in Steps,
         Readout(t, step, next)
  PROVE  /\ readout' \in [Thread -> [step : Steps, from : Contents]]
         /\ readout[t].step = step
         /\ readout'[t].step = next /\ readout'[t].from = readout[t].from
         /\ \A u \in Thread \ {t} : readout'[u] = readout[u]
         /\ UNCHANGED <<captureVars, readoutOffset, crossed>>
         /\ SelectInv'
         /\ (/\ dram' \in Thread \cup {"free"}
             /\ memoryBuffer' \in [Half -> Contents]
             /\ interlock' \in Thread \cup {"epics", "free"}
             /\ wave' \in [Half -> [from : Contents,
                                    delays : Channel \X Channel]]
             => CaptureTypeOK')
<1> USE DEF Readout
<1>1. CaptureTypeOK
  BY DEF CaptureInv
<1>2. /\ readout' \in [Thread -> [step : Steps, from : Contents]]
      /\ readout'[t].step = next /\ readout'[t].from = readout[t].from
      /\ \A u \in Thread \ {t} : readout'[u] = readout[u]
  BY <1>1, ThreadStep
<1>3. SelectInv'
  BY DEF CaptureInv, SelectInv, selectVars
<1>4. ASSUME dram' \in Thread \cup {"free"},
             memoryBuffer' \in [Half -> Contents],
             interlock' \in Thread \cup {"epics", "free"},
             wave' \in [Half -> [from : Contents, delays : Channel \X Channel]]
      PROVE  CaptureTypeOK'
  BY <1>1, <1>2, <1>4 DEF CaptureTypeOK, selectVars, captureVars, Steps
<1>5. QED BY <1>2, <1>3, <1>4

LEMMA LockOrWaitStep ==
  ASSUME CaptureInv, NEW t \in Thread, LockDram(t) \/ Wait(t)
  PROVE  CaptureInv'
<1>1. PICK step \in {"lock", "wait"}, next \in {"first", "copy"} :
        /\ Readout(t, step, next) /\ UNCHANGED <<memoryBuffer, wave>>
        /\ step = "wait" <=> next = "copy"
  BY DEF LockDram, Wait
<1>2. step \in Steps /\ next \in Steps /\ CaptureTypeOK
  BY DEF Steps, CaptureInv
<1>3. /\ dram' \in Thread \cup {"free"}
      /\ interlock' \in Thread \cup {"epics", "free"}
  BY <1>2 DEF LockDram, Wait, CaptureTypeOK
<1>4. CaptureTypeOK' /\ SelectInv'
  BY <1>1, <1>2, <1>3, ReadoutMoves DEF CaptureTypeOK
<1>5. ReadoutInv'
  <2>1. /\ readout[t].step = step /\ readout'[t].step = next
        /\ readout'[t].from = readout[t].from
        /\ \A u \in Thread \ {t} : readout'[u] = readout[u]
        /\ UNCHANGED <<captureVars, readoutOffset, crossed>>
    BY <1>1, <1>2, ReadoutMoves
  <2> SUFFICES ASSUME ~crossed PROVE ReadoutInv'
    BY <2>1 DEF ReadoutInv
  <2>2. /\ readout[t].from = Target
        /\ step = "wait" => memoryBuffer[0] = Target /\ memoryBuffer[1] = Target
    BY <2>1 DEF CaptureInv, ReadoutInv
  <2>3. QED BY <1>1, <2>1, <2>2, ReaderGoesOn
<1>6. QED BY <1>4, <1>5 DEF CaptureInv

(***************************************************************************)
(* Only one thread fills memory_buffer, with the capture it has come for.  *)
(***************************************************************************)
LEMMA FillStep ==
  ASSUME CaptureInv, NEW t \in Thread, FillFirst(t) \/ FillSecond(t)
  PROVE  CaptureInv'
<1>1. PICK h \in Half :
        /\ Readout(t, IF h = 0 THEN "first" ELSE "second",
                      IF h = 0 THEN "second" ELSE "wait")
        /\ memoryBuffer' = [memoryBuffer EXCEPT ![h] = readout[t].from]
        /\ dram' \in {dram, "free"} /\ UNCHANGED <<interlock, wave>>
  BY DEF FillFirst, FillSecond, Half
<1> DEFINE step == IF h = 0 THEN "first" ELSE "second"
           next == IF h = 0 THEN "second" ELSE "wait"
<1>2. step \in Steps /\ next \in Steps /\ CaptureTypeOK
  BY DEF Steps, CaptureInv
<1>3. /\ readout[t].step = step /\ readout'[t].step = next
      /\ readout'[t].from = readout[t].from
      /\ \A u \in Thread \ {t} : readout'[u] = readout[u]
      /\ UNCHANGED <<captureVars, readoutOffset, crossed>> /\ SelectInv'
  BY <1>1, <1>2, ReadoutMoves
<1>4. /\ memoryBuffer' \in [Half -> Contents]
      /\ memoryBuffer'[h] = readout[t].from
      /\ h = 1 => memoryBuffer'[0] = memoryBuffer[0]
  BY <1>1, <1>2 DEF CaptureTypeOK, Half
<1>5. CaptureTypeOK'
  <2>1. /\ dram' \in Thread \cup {"free"}
        /\ interlock' \in Thread \cup {"epics", "free"}
        /\ wave' \in [Half -> [from : Contents, delays : Channel \X Channel]]
    BY <1>1, <1>2 DEF CaptureTypeOK
  <2>2. Readout(t, step, next)
    BY <1>1
  <2>3. QED BY <1>2, <1>4, <2>1, <2>2, ReadoutMoves
<1>6. ReadoutInv'
  <2> SUFFICES ASSUME ~crossed PROVE ReadoutInv'
    BY <1>3 DEF ReadoutInv
  <2>1. readout[t].from = Target /\ (h = 1 => memoryBuffer[0] = Target)
    BY <1>3 DEF CaptureInv, ReadoutInv, Half
  <2>2. QED BY <1>3, <1>4, <2>1, ReaderGoesOn DEF Half
<1>7. QED BY <1>3, <1>5, <1>6 DEF CaptureInv

LEMMA ShownType ==
  ASSUME CaptureInv, NEW h \in Half
  PROVE  /\ Shown(h) \in [from : Contents, delays : Channel \X Channel]
         /\ (channelDelays = select_map[captured.mux] /\ memoryBuffer[h] = Target
             => Shown(h) = Aligned)
BY DEF CaptureInv, CaptureTypeOK, Shown, Aligned

LEMMA CopyFirstStep ==
  ASSUME CaptureInv, NEW t \in Thread, CopyFirst(t)
  PROVE  CaptureInv'
<1> USE DEF CopyFirst
<1>1. "copy" \in Steps /\ "copied" \in Steps /\ CaptureTypeOK /\ 0 \in Half
  BY DEF Steps, CaptureInv, Half
<1>2. /\ readout[t].step = "copy" /\ readout'[t].step = "copied"
      /\ readout'[t].from = readout[t].from
      /\ \A u \in Thread \ {t} : readout'[u] = readout[u]
      /\ UNCHANGED <<captureVars, readoutOffset, crossed>> /\ SelectInv'
  BY <1>1, ReadoutMoves
<1>3. /\ wave' \in [Half -> [from : Contents, delays : Channel \X Channel]]
      /\ wave'[0] = Shown(0)
  BY <1>1, ShownType DEF CaptureTypeOK
<1>4. CaptureTypeOK'
  BY <1>1, <1>3, ReadoutMoves DEF CaptureTypeOK
<1>5. ReadoutInv'
  <2> SUFFICES ASSUME ~crossed PROVE ReadoutInv'
    BY <1>2 DEF ReadoutInv
  <2>1. /\ readout[t].from = Target
        /\ memoryBuffer[0] = Target /\ memoryBuffer[1] = Target
    BY <1>2 DEF CaptureInv, ReadoutInv
  <2>2. wave'[0] = Aligned
    BY <1>1, <1>2, <1>3, <2>1, ShownType, OneReader
  <2>3. QED BY <1>2, <2>1, <2>2, ReaderGoesOn
<1>6. QED BY <1>2, <1>4, <1>5 DEF CaptureInv

\* The waveforms are those of the last capture when the readout is done.
LEMMA CopySecondStep ==
  ASSUME CaptureInv, NEW t \in Thread, CopySecond(t)
  PROVE  CaptureInv'
<1> USE DEF CopySecond
<1>1. "copied" \in Steps /\ "idle" \in Steps /\ CaptureTypeOK /\ 1 \in Half
  BY DEF Steps, CaptureInv, Half
<1>2. /\ readout[t].step = "copied" /\ readout'[t].step = "idle"
      /\ \A u \in Thread \ {t} : readout'[u] = readout[u]
      /\ UNCHANGED <<captureVars, readoutOffset, crossed>> /\ SelectInv'
  BY <1>1, ReadoutMoves
<1>3. /\ wave' \in [Half -> [from : Contents, delays : Channel \X Channel]]
      /\ wave'[1] = Shown(1) /\ wave'[0] = wave[0]
  BY <1>1, ShownType DEF CaptureTypeOK, Half
<1>4. CaptureTypeOK'
  BY <1>1, <1>3, ReadoutMoves DEF CaptureTypeOK
<1>5. ReadoutInv'
  <2> SUFFICES ASSUME ~crossed PROVE ReadoutInv'
    BY <1>2 DEF ReadoutInv
  <2>1. wave[0] = Aligned /\ memoryBuffer[1] = Target
    BY <1>2 DEF CaptureInv, ReadoutInv
  <2>2. /\ ~event' /\ ~Reading'
        /\ origin' = captured'.number
        /\ channelDelays' = select_map[captured'.mux]
        /\ Aligned' = Aligned
    BY <1>2, OneReader DEF Reading, captureVars, Aligned, Target
  <2>3. wave'[0] = Aligned' /\ wave'[1] = Aligned'
    BY <1>1, <1>2, <1>3, <2>1, <2>2, ShownType, OneReader
  <2>4. QED BY <2>2, <2>3 DEF ReadoutInv, Reading
<1>6. QED BY <1>2, <1>4, <1>5 DEF CaptureInv

LEMMA EpicsDoneStep == ASSUME CaptureInv, EpicsDone PROVE CaptureInv'
<1> USE DEF EpicsDone, selectVars, captureVars
<1>1. CaptureTypeOK'
  BY DEF CaptureInv, CaptureTypeOK
<1>2. SelectInv' /\ ReadoutInv'
  BY DEF CaptureInv, SelectInv, ReadoutInv, Reading, Target, Aligned
<1>3. QED BY <1>1, <1>2 DEF CaptureInv

-----------------------------------------------------------------------------
(* The theorems.                                                           *)

LEMMA CaptureStep == CaptureInv /\ [CaptureNext]_memVars => CaptureInv'
<1> SUFFICES ASSUME CaptureInv, [CaptureNext]_memVars PROVE CaptureInv'
  OBVIOUS
<1>1. ASSUME NEW t \in Thread, ReadoutStep(t)
      PROVE  CaptureInv'
  BY <1>1, ComputeOffsetStep, LockOrWaitStep, FillStep, CopyFirstStep,
     CopySecondStep DEF ReadoutStep
<1>2. CASE UNCHANGED memVars
  <2> USE <1>2 DEF memVars, selectVars, captureVars, readVars
  <2>1. CaptureTypeOK'
    BY DEF CaptureInv, CaptureTypeOK
  <2>2. SelectInv' /\ ReadoutInv'
    BY DEF CaptureInv, SelectInv, ReadoutInv, Reading, Target, Aligned
  <2>3. QED BY <2>1, <2>2 DEF CaptureInv
<1>3. QED BY <1>1, <1>2, WriteSelectStep, SetSelectionStep, SetMuxStep,
             CompleteStep, CaptureCompleteStep, WriteOffsetStep, EpicsDoneStep
          DEF CaptureNext

LEMMA SpecCaptureInv == CaptureSpec => []CaptureInv
BY InitCapture, CaptureStep, PTL DEF CaptureSpec

(***************************************************************************)
(* Whatever the records of memory.c are written with, the selection is an  *)
(* entry of select_map and the two threads that read are at a step of      *)
(* their own readout.                                                      *)
(***************************************************************************)
THEOREM CaptureTypeCorrect == CaptureSpec => []CaptureTypeOK
<1>1. CaptureInv => CaptureTypeOK
  BY DEF CaptureInv
<1>2. QED BY <1>1, SpecCaptureInv, PTL

(***************************************************************************)
(* find_selection() finds every pair that can be asked for, and            *)
(* write_memory_select() leaves SEL0, SEL1 and the multiplexer with it;    *)
(* capture_complete() takes the delays of the channels that were captured, *)
(* and readout_memory() shows that capture, unless another one, a new      *)
(* OFFSET or a new selection comes across it.                              *)
(***************************************************************************)
THEOREM CaptureIsCorrect == CaptureSpec => []CaptureCorrect
<1>1. CaptureInv => CaptureCorrect
  <2> SUFFICES ASSUME CaptureInv PROVE CaptureCorrect
    OBVIOUS
  <2>1. SelectionHonoured
    <3> SUFFICES ASSUME select.step = 0
                 PROVE  /\ wanted \subseteq EntryChannels(mux)
                        /\ chanSelection = select_map[mux]
                        /\ shownSelect = select_map[mux]
      BY DEF SelectionHonoured, EntryChannels
    <3>1. /\ wanted \subseteq EntryChannels(mux)
          /\ chanSelection[1] = select_map[mux][1]
          /\ chanSelection[2] = select_map[mux][2]
          /\ shownSelect[1] = select_map[mux][1]
          /\ shownSelect[2] = select_map[mux][2]
      BY DEF CaptureInv, SelectInv
    <3>2. /\ chanSelection \in Channel \X Channel
          /\ shownSelect \in Channel \X Channel
          /\ select_map[mux] \in Channel \X Channel
      BY MapChannels DEF CaptureInv, CaptureTypeOK
    <3>3. QED BY <3>1, <3>2
  <2>2. WaveCurrent
    BY DEF CaptureInv, ReadoutInv, WaveCurrent, Half, Aligned, Target
  <2>3. QED BY <2>1, <2>2 DEF CaptureCorrect
<1>2. QED BY <1>1, SpecCaptureInv, PTL

-----------------------------------------------------------------------------
(***************************************************************************)
(* The readers: MemoryRead.                                                *)
(***************************************************************************)

(***************************************************************************)
(* Division.                                                               *)
(***************************************************************************)
LEMMA Division ==
  ASSUME NEW n \in Nat \ {0}, NEW a \in Int
  PROVE  /\ a \div n \in Int /\ a % n \in 0 .. n - 1
         /\ a = (a \div n) * n + (a % n)
BY SMT

LEMMA DivisionUnique ==
  ASSUME NEW n \in Nat \ {0}, NEW q \in Int, NEW e \in 0 .. n - 1
  PROVE  (q * n + e) \div n = q /\ (q * n + e) % n = e
<1> DEFINE a == q * n + e
<1> DEFINE p == a \div n
<1> DEFINE f == a % n
<1>1. a \in Int /\ p \in Int /\ f \in 0 .. n - 1 /\ a = p * n + f
  BY Division
<1>2. (q - p) * n = f - e
  BY <1>1, SMT
<1>3. q = p
  <2>1. CASE q > p
    <3>1. (q - p) * n >= n
      BY <1>1, <2>1, SMT
    <3>2. QED BY <1>1, <1>2, <3>1
  <2>2. CASE q < p
    <3>1. (p - q) * n >= n
      BY <1>1, <2>2, SMT
    <3>2. (p - q) * n = e - f
      BY <1>1, <1>2, SMT
    <3>3. QED BY <1>1, <3>1, <3>2
  <2>3. QED BY <1>1, <2>1, <2>2
<1>4. QED BY <1>1, <1>2, <1>3

LEMMA ModuloSum ==
  ASSUME NEW n \in Nat \ {0}, NEW a \in Int, NEW c \in Int
  PROVE  ((a % n) + c) % n = (a + c) % n
<1>1. PICK p \in Int : a = p * n + (a % n)
  BY Division
<1>2. PICK b \in Int : b = (a % n) + c
  OBVIOUS
<1>3. PICK q \in Int : b = q * n + (b % n)
  BY Division
<1>4. a + c = (p + q) * n + (b % n) /\ p + q \in Int /\ b % n \in 0 .. n - 1
  <2>1. b % n \in 0 .. n - 1
    BY Division
  <2>2. PICK e \in Int : e = a % n
    BY Division
  <2>3. PICK f \in Int : f = b % n
    BY <2>1
  <2>4. a = p * n + e /\ e + c = q * n + f
    BY <1>1, <1>2, <1>3, <2>2, <2>3
  <2>5. (p + q) * n = p * n + q * n /\ p * n \in Int /\ q * n \in Int
    BY SMT
  <2>6. a + c = (p + q) * n + f
    BY <2>4, <2>5
  <2>7. QED BY <2>1, <2>3, <2>6
<1>5. \A m \in Int, e \in 0 .. n - 1 : (m * n + e) % n = e
  BY DivisionUnique
<1>6. ((p + q) * n + (b % n)) % n = b % n
  BY <1>4, <1>5
<1>7. QED BY <1>2, <1>4, <1>6
LEMMA Products ==
  ASSUME NEW a \in Int, NEW b \in Int, NEW c \in Int
  PROVE  /\ a * b \in Int /\ a * b = b * a
         /\ (a + b) * c = a * c + b * c /\ (a - b) * c = a * c - b * c
         /\ (a * b) * c = a * (b * c)
         /\ (a >= 0 /\ b >= 0 => a * b >= 0)
         /\ (a >= b /\ c >= 0 => a * c >= b * c)
         /\ 1 * a = a /\ a * 1 = a /\ 0 * a = 0
BY SMT

LEMMA Multiples ==
  ASSUME NEW n \in Nat \ {0}, NEW q \in Int
  PROVE  (q * n) \div n = q /\ (q * n) % n = 0
<1>1. (q * n + 0) \div n = q /\ (q * n + 0) % n = 0
  BY DivisionUnique
<1>2. q * n + 0 = q * n
  BY Products
<1>3. QED BY <1>1, <1>2

LEMMA Quotient ==
  ASSUME NEW a \in Nat, NEW u \in Nat \ {0}
  PROVE  a \div u \in Nat
<1>1. PICK q \in Int, e \in 0 .. u - 1 : q = a \div u /\ a = q * u + e
  BY Division
<1>2. CASE q < 0
  <2>1. q + 1 <= 0
    BY <1>2
  <2>2. 0 * u >= (q + 1) * u /\ (q + 1) * u = q * u + 1 * u /\ 1 * u = u
        /\ 0 * u = 0 /\ q * u \in Int
    BY <2>1, Products
  <2>3. QED BY <1>1, <2>2
<1>3. QED BY <1>1, <1>2

(***************************************************************************)
(* The request and the sizes that follow from it.                          *)
(***************************************************************************)
RequestType ==
  [count : Nat, offset : Int, channel : {-1, 0, 1}, bunch : -1 .. Bunches - 1,
   decimation : Nat \ {0}, format : {"int16", "float32", "complex64"}]

\* What the options of a command allow.
Sensible(r) ==
  /\ r \in RequestType
  /\ r.bunch >= 0 => r.format = "int16"
  /\ r.format = "int16" => r.decimation = 1

\* The words that one sample is made from are counted by Unit; chunks and
\* blocks consist of whole grains.
Unit(r) == IF r.bunch >= 0 THEN Bunches ELSE r.decimation
Grain(r) ==
  IF r.bunch < 0 /\ r.format = "int16" THEN 1 ELSE Bunches * r.decimation
AllWords(r) == r.count * Bunches * r.decimation

LEMMA Sizes ==
  /\ Size \in Nat \ {0} /\ DmaBlock \in Nat \ {0} /\ Align \in Nat \ {0}
  /\ Bunches \in Nat \ {0} /\ WaveLength \in Nat \ {0}
  /\ ReadBuffer \in Nat \ {0} /\ WriteBuffer \in Nat \ {0}
  /\ ReadBuffer >= 2 * Bunches
  /\ DmaBlock % Align = 0 /\ Size % Align = 0
BY MemoryReadAssumption

LEMMA RequestSensible ==
  ASSUME NEW r \in Request
  PROVE  Sensible(r)
<1>1. Counts \subseteq Nat /\ Starts \subseteq Int /\ Decimations \subseteq Nat \ {0}
  BY MemoryReadAssumption
<1>2. QED BY <1>1 DEF Request, Sensible, RequestType

LEMMA ChannelsOf ==
  ASSUME NEW r, Sensible(r)
  PROVE  /\ Len(Channels(r)) \in {1, 2}
         /\ \A i \in 1 .. Len(Channels(r)) : Channels(r)[i] \in {0, 1}
<1>1. CASE r.channel >= 0
  <2>1. Channels(r) = <<r.channel>> /\ r.channel \in {0, 1}
    BY <1>1 DEF Channels, Sensible, RequestType
  <2>2. QED BY <2>1
<1>2. CASE ~(r.channel >= 0)
  <2>1. Channels(r) = <<0, 1>>
    BY <1>2 DEF Channels
  <2>2. QED BY <2>1
<1>3. QED BY <1>1, <1>2

\* A grain is a number of units, and everything is a number of grains.
LEMMA Grains ==
  ASSUME NEW r, Sensible(r)
  PROVE  /\ Unit(r) \in Nat \ {0} /\ Grain(r) \in Nat \ {0}
         /\ \E u \in Nat \ {0} : Grain(r) = u * Unit(r)
         /\ \E w \in Nat : AllWords(r) = w * Grain(r)
         /\ AllWords(r) \in Nat
<1>1. PICK c \in Nat, d \in Nat \ {0}, b \in Nat \ {0} :
        c = r.count /\ d = r.decimation /\ b = Bunches
  BY Sizes DEF Sensible, RequestType
<1>2. AllWords(r) = c * (b * d) /\ AllWords(r) \in Nat
  BY <1>1, Products DEF AllWords
<1>3. b * d \in Nat \ {0}
  BY SMT
<1>4. CASE r.bunch < 0 /\ r.format = "int16"
  <2>1. d = 1 /\ Unit(r) = 1 /\ Grain(r) = 1
    BY <1>1, <1>4 DEF Sensible, RequestType, Unit, Grain
  <2>2. 1 = 1 * 1 /\ AllWords(r) = AllWords(r) * 1
    BY <1>2, Products
  <2>3. QED BY <1>2, <2>1, <2>2
<1>5. CASE r.bunch >= 0
  <2>1. d = 1 /\ Unit(r) = b /\ Grain(r) = b * d /\ b * d = 1 * b
    BY <1>1, <1>5, Products DEF Sensible, RequestType, Unit, Grain
  <2>2. QED BY <1>1, <1>2, <1>3, <2>1
<1>6. CASE r.bunch < 0 /\ r.format # "int16"
  <2>1. Unit(r) = d /\ Grain(r) = b * d
    BY <1>1, <1>6 DEF Sensible, RequestType, Unit, Grain
  <2>2. QED BY <1>1, <1>2, <1>3, <2>1
<1>7. QED BY <1>4, <1>5, <1>6 DEF Sensible, RequestType

LEMMA RoundedIs ==
  ASSUME NEW a \in Nat, NEW u \in Nat \ {0}
  PROVE  /\ Rounded(a, u) \in 0 .. a
         /\ \E m \in Nat : Rounded(a, u) = m * u
<1>1. PICK q \in Int, e \in 0 .. u - 1 : q = a \div u /\ e = a % u /\ a = q * u + e
  BY Division
<1>2. q >= 0
  BY <1>1, Quotient
<1>3. q * u \in Int /\ q * u >= 0
  BY <1>2, Products
<1>4. QED BY <1>1, <1>2, <1>3 DEF Rounded

LEMMA ReadBufferIs ==
  ASSUME NEW r, Sensible(r)
  PROVE  /\ ReadBufferSize(r) \in 0 .. ReadBuffer - Bunches
         /\ \E m \in Nat : ReadBufferSize(r) = m * Grain(r)
<1> DEFINE words == ReadBuffer - Bunches
<1>1. words \in Nat
  BY Sizes
<1>2. CASE r.bunch < 0 /\ r.format = "int16"
  <2>1. Grain(r) = 1 /\ ReadBufferSize(r) = words /\ words = words * 1
    BY <1>1, <1>2, Products DEF Grain, ReadBufferSize, Sensible, RequestType
  <2>2. QED BY <1>1, <2>1
<1>3. CASE r.bunch >= 0
  <2>1. Grain(r) = Bunches /\ ReadBufferSize(r) = Rounded(words, Bunches)
    BY <1>3, Sizes, Products DEF Grain, ReadBufferSize, Sensible, RequestType
  <2>2. QED BY <1>1, <2>1, Sizes, RoundedIs
<1>4. CASE r.bunch < 0 /\ r.format # "int16"
  <2>1. /\ Grain(r) = Bunches * r.decimation
        /\ ReadBufferSize(r) = Rounded(words, Grain(r))
    BY <1>4 DEF Grain, ReadBufferSize, Sensible, RequestType
  <2>2. Grain(r) \in Nat \ {0}
    BY Grains
  <2>3. QED BY <1>1, <2>1, <2>2, RoundedIs
<1>5. QED BY <1>2, <1>3, <1>4 DEF Sensible, RequestType

LEMMA BlockSize ==
  ASSUME NEW r, Sensible(r)
  PROVE  \E m \in Nat : BlockWords(r) = m * Grain(r)
<1>1. PICK n \in {1, 2} : n = Len(Channels(r))
  BY ChannelsOf
<1>2. \A a \in Nat, u \in Nat \ {0} : a \div u \in Nat
  BY Quotient
<1>3. CASE r.bunch < 0 /\ r.format = "int16"
  <2>1. BlockWords(r) = WriteBuffer \div n /\ Grain(r) = 1
    BY <1>1, <1>3 DEF BlockWords, Grain
  <2>2. WriteBuffer \div n \in Nat
    BY <1>1, <1>2, Sizes
  <2>3. QED BY <2>1, <2>2, Products
<1>4. CASE r.bunch >= 0
  <2>1. BlockWords(r) = (WriteBuffer \div n) * Bunches
    BY <1>1, <1>4 DEF BlockWords, Sensible, RequestType
  <2>2. Grain(r) = Bunches
    BY <1>4, Sizes, Products DEF Grain, Sensible, RequestType
  <2>3. WriteBuffer \div n \in Nat
    BY <1>1, <1>2, Sizes
  <2>4. QED BY <2>1, <2>3, <2>2
<1>5. ASSUME r.bunch < 0, r.format # "int16" PROVE \E m \in Nat : BlockWords(r) = m * Grain(r)
  <2>1. PICK k \in {2, 4} :
          BlockWords(r) = ((WriteBuffer \div k) \div (Bunches * n)) * Grain(r)
    BY <1>1, <1>5 DEF BlockWords, Grain, Sensible, RequestType
  <2>2. Bunches * n \in Nat \ {0}
    BY <1>1, Sizes
  <2>3. WriteBuffer \div k \in Nat
    BY <1>2, <2>1, Sizes
  <2>4. (WriteBuffer \div k) \div (Bunches * n) \in Nat
    BY <1>2, <2>2, <2>3
  <2>5. QED BY <2>1, <2>4
<1>6. QED BY <1>3, <1>4, <1>5 DEF Sensible, RequestType

(***************************************************************************)
(* Sample w of a chunk, and where its words are in memory.                 *)
(***************************************************************************)
WordOf(r, w) ==
  IF r.bunch >= 0 THEN w * Bunches + r.bunch
  ELSE IF r.format = "int16" THEN w
  ELSE (w \div Bunches) * (Bunches * r.decimation) + (w % Bunches)

\* The turn that sample s of the request starts with, and its bunch.
TurnOf(r, s) ==
  (IF r.bunch >= 0 THEN s ELSE s \div Bunches) * r.decimation
BunchOf(r, s) == IF r.bunch >= 0 THEN r.bunch ELSE s % Bunches

LEMMA DecimatedWord ==
  ASSUME NEW b \in Nat \ {0}, NEW d \in Nat \ {0}, NEW m \in Nat,
         NEW q \in Nat, NEW e \in 0 .. b - 1, NEW k \in 1 .. d, NEW n \in Nat,
         q < n
  PROVE  /\ m * (b * d) + ((q * (b * d) + e) + (k - 1) * b)
              = (((m + q) * d + k) - 1) * b + e
         /\ (q * (b * d) + e) + (k - 1) * b \in 0 .. n * (b * d) - 1
<1>1. PICK g \in Nat : g = b * d
  BY SMT
<1>2. /\ m * g \in Nat /\ q * g \in Nat /\ n * g \in Nat /\ (k - 1) * b \in Nat
      /\ (q + 1) * g = q * g + g /\ n * g >= (q + 1) * g
  BY <1>1, SMT
<1>3. (k - 1) * b + b <= g
  <2>1. (k - 1 + 1) * b = (k - 1) * b + 1 * b /\ 1 * b = b
    BY Products
  <2>2. d * b >= k * b /\ d * b = g
    BY <1>1, Products
  <2>3. k - 1 + 1 = k
    OBVIOUS
  <2>4. QED BY <2>1, <2>2, <2>3, <1>1, <1>2
<1>4. (((m + q) * d + k) - 1) * b = (m * g + q * g) + (k - 1) * b
  <2>1. PICK x \in Int : x = (m + q) * d
    BY Products
  <2>2. (x + (k - 1)) * b = x * b + (k - 1) * b
    BY Products
  <2>3. (x + k) - 1 = x + (k - 1)
    OBVIOUS
  <2>4. x * b = (m + q) * g
    BY <1>1, <2>1, Products
  <2>5. (m + q) * g = m * g + q * g
    BY <1>1, Products
  <2>6. QED BY <2>1, <2>2, <2>3, <2>4, <2>5
<1>5. /\ m * g + ((q * g + e) + (k - 1) * b) = (((m + q) * d + k) - 1) * b + e
      /\ (q * g + e) + (k - 1) * b \in 0 .. n * g - 1
  BY <1>1, <1>2, <1>3, <1>4
<1>6. QED BY <1>1, <1>5

\* The place of a word in memory, counted from the first that is asked for, is
\* that of the bunch and turn of its sample.
LEMMA WordPlace ==
  ASSUME NEW r, Sensible(r), NEW done, NEW m \in Nat, done = m * Grain(r),
         NEW chunk, NEW n \in Nat, chunk = n * Grain(r),
         NEW w \in Nat, w * Unit(r) < chunk, NEW k \in 1 .. r.decimation
  PROVE  LET s == (done \div Unit(r)) + w
             x == WordOf(r, w) + (k - 1) * Bunches
         IN  /\ done + x = ((TurnOf(r, s) + k) - 1) * Bunches + BunchOf(r, s)
             /\ x \in 0 .. chunk - 1
             /\ BunchOf(r, s) \in 0 .. Bunches - 1
             /\ s \in Nat
<1> DEFINE s == (done \div Unit(r)) + w
<1> DEFINE x == WordOf(r, w) + (k - 1) * Bunches
<1>1. PICK b \in Nat \ {0}, d \in Nat \ {0} : b = Bunches /\ d = r.decimation
  BY Sizes DEF Sensible, RequestType
<1>2. r.bunch \in Int
  BY Sizes DEF Sensible, RequestType
<1>3. CASE r.bunch >= 0
  <2>1. /\ d = 1 /\ k = 1 /\ Unit(r) = b /\ Grain(r) = b /\ r.bunch \in 0 .. b - 1
    BY <1>1, <1>3, Products DEF Sensible, RequestType, Unit, Grain
  <2>2. PICK c \in 0 .. b - 1 : c = r.bunch
    BY <2>1
  <2>3. s = m + w /\ BunchOf(r, s) = c
    BY <1>1, <1>3, <2>1, <2>2, Multiples DEF BunchOf
  <2>4. TurnOf(r, s) = m + w
    BY <1>1, <1>3, <2>1, <2>3, Products DEF TurnOf
  <2>5. (k - 1) * Bunches = 0
    BY <2>1, <1>1, Products
  <2>6. x = w * b + c
    BY <1>1, <1>3, <2>2, <2>5, Products DEF WordOf
  <2>7. (m + w) * b = m * b + w * b /\ w * b \in Nat /\ m * b \in Nat
    BY SMT
  <2>8. done + x = (m + w) * b + c
    BY <2>1, <2>6, <2>7
  <2>9. w + 1 <= n
    <3>1. CASE n <= w
      <4>1. w * b >= n * b
        BY <3>1, Products
      <4>2. QED BY <4>1, <2>1, <2>7
    <3>2. QED BY <3>1
  <2>10. n * b >= (w + 1) * b /\ (w + 1) * b = w * b + b /\ n * b \in Int
    BY <2>9, Products
  <2>11. x \in 0 .. chunk - 1
    BY <2>1, <2>2, <2>6, <2>7, <2>10
  <2>12. ((TurnOf(r, s) + k) - 1) = m + w
    BY <2>1, <2>4
  <2>13. QED BY <1>1, <2>3, <2>8, <2>11, <2>12
<1>4. CASE r.bunch < 0 /\ r.format = "int16"
  <2>1. /\ d = 1 /\ k = 1 /\ Unit(r) = 1 /\ Grain(r) = 1
    BY <1>1, <1>4 DEF Sensible, RequestType, Unit, Grain
  <2>2. done = m /\ chunk = n /\ done \div Unit(r) = m /\ w < chunk
    BY <2>1, Products, Multiples
  <2>3. s = m + w /\ x = w
    <3>1. (k - 1) * Bunches = 0
      BY <2>1, <1>1, Products
    <3>2. WordOf(r, w) = w
      BY <1>2, <1>4 DEF WordOf
    <3>3. QED BY <2>2, <3>1, <3>2
  <2>4. /\ BunchOf(r, s) = (m + w) % b
        /\ TurnOf(r, s) = (m + w) \div b
    <3>1. (m + w) \div b \in Int
      BY Division
    <3>2. BunchOf(r, s) = s % b /\ TurnOf(r, s) = (s \div b) * 1
      BY <1>2, <1>1, <1>4, <2>1 DEF BunchOf, TurnOf
    <3>3. ((m + w) \div b) * 1 = (m + w) \div b
      BY <3>1, Products
    <3>4. QED BY <2>3, <3>2, <3>3
  <2>5. /\ (m + w) % b \in 0 .. b - 1 /\ (m + w) \div b \in Int
        /\ m + w = ((m + w) \div b) * b + ((m + w) % b)
    <3>1. m + w \in Int
      OBVIOUS
    <3>2. QED BY <3>1, Division
  <2>6. (TurnOf(r, s) + k) - 1 = (m + w) \div b
    BY <2>1, <2>4, <2>5
  <2>7. done + x = m + w /\ x \in 0 .. chunk - 1 /\ s \in Nat
    BY <2>2, <2>3
  <2>8. QED BY <1>1, <2>4, <2>5, <2>6, <2>7
<1>5. CASE r.bunch < 0 /\ r.format # "int16"
  <2>1. Unit(r) = d /\ Grain(r) = b * d
    BY <1>1, <1>5 DEF Sensible, RequestType, Unit, Grain
  <2>2. PICK q \in Nat, e \in 0 .. b - 1 :
          q = w \div b /\ e = w % b /\ w = q * b + e
    <3>1. w \div b \in Nat
      BY Quotient
    <3>2. w % b \in 0 .. b - 1 /\ w = (w \div b) * b + (w % b)
      BY Division
    <3>3. QED BY <3>1, <3>2
  <2>3. s = m * b + w
    <3>1. PICK y \in Nat : y = m * b
      BY SMT
    <3>2. done = y * d
      BY <2>1, <3>1, Products
    <3>3. done \div d = y
      BY <3>2, Multiples
    <3>4. QED BY <2>1, <3>1, <3>3
  <2>4. s \div b = m + q /\ s % b = e
    <3>1. s = (m + q) * b + e
      <4>1. (m + q) * b = m * b + q * b /\ m * b \in Int /\ q * b \in Int
        BY Products
      <4>2. QED BY <2>2, <2>3, <4>1
    <3>2. m + q \in Int
      OBVIOUS
    <3>3. QED BY <3>1, <3>2, DivisionUnique
  <2>5. TurnOf(r, s) = (m + q) * d /\ BunchOf(r, s) = e
    BY <1>2, <1>1, <1>5, <2>4 DEF TurnOf, BunchOf
  <2>6. x = (q * (b * d) + e) + (k - 1) * b
    BY <1>2, <1>1, <1>5, <2>2 DEF WordOf
  <2>7. q < n
    <3>1. CASE n <= q
      <4>1. q * (b * d) >= n * (b * d)
        <5>1. b * d \in Nat
          BY SMT
        <5>2. QED BY <3>1, <5>1, Products
      <4>2. w * d = (q * b) * d + e * d /\ (q * b) * d = q * (b * d) /\ e * d >= 0
            /\ e * d \in Int /\ q * (b * d) \in Int
        <5>1. q * b \in Int /\ b * d \in Int
          BY Products
        <5>2. QED BY <2>2, <5>1, Products
      <4>3. w * d < n * (b * d) /\ n * (b * d) \in Int /\ w * d \in Int
        <5>1. b * d \in Int
          BY Products
        <5>2. QED BY <2>1, <5>1, Products
      <4>4. QED BY <4>1, <4>2, <4>3
    <3>2. QED BY <3>1
  <2>8. /\ m * (b * d) + x = (((m + q) * d + k) - 1) * b + e
        /\ x \in 0 .. n * (b * d) - 1
    BY <1>1, <2>6, <2>7, DecimatedWord
  <2>9. s \in Nat
    <3>1. m * b \in Nat
      BY SMT
    <3>2. QED BY <2>3, <3>1
  <2>10. QED BY <1>1, <2>1, <2>5, <2>8, <2>9
<1>6. QED BY <1>3, <1>4, <1>5 DEF Sensible, RequestType

(***************************************************************************)
(* The values of a sample.                                                 *)
(***************************************************************************)
CaptureType == [origin : Int, delay : [{0, 1} -> 0 .. Bunches]]
Rotated(r) == r.format = "complex64"
Item(r) == {0, 1} \X [1 .. r.decimation -> Word \X Int] \X Int

LEMMA WantedOf ==
  ASSUME NEW r, Sensible(r), NEW s \in Nat, NEW i \in 1 .. Len(Channels(r))
  PROVE  LET c == Channels(r)[i]
         IN  Wanted(r, s * Len(Channels(r)) + (i - 1)) =
               <<c, [k \in 1 .. r.decimation |->
                      <<(capture.origin
                          + (r.offset + (TurnOf(r, s) + k - 1)) * Bunches
                          + BunchOf(r, s) + capture.delay[c]) % Size,
                        IF Rotated(r) THEN TurnOf(r, s) + k - 1 ELSE 0>>],
                 IF Rotated(r) THEN BunchOf(r, s) ELSE 0>>
<1>1. PICK n \in Nat \ {0} : n = Len(Channels(r))
  BY ChannelsOf
<1>2. PICK j \in Int : j = s * n + (i - 1)
  <2>1. s * n \in Int
    BY Products
  <2>2. i - 1 \in Int
    BY <1>1
  <2>3. QED BY <2>1, <2>2
<1>3. j \div n = s /\ j % n = i - 1
  <2>1. i - 1 \in 0 .. n - 1 /\ s \in Int
    BY <1>1
  <2>2. QED BY <1>2, <2>1, DivisionUnique
<1>4. (j % n) + 1 = i
  BY <1>3
<1>5. QED BY <1>1, <1>2, <1>3, <1>4 DEF Wanted, TurnOf, BunchOf, Rotated

LEMMA FirstTurnIs ==
  ASSUME NEW r, Sensible(r), Rotated(r), stream.turn \in Nat,
         NEW done, NEW m \in Nat, done = m * Grain(r),
         stream.turn * Bunches = done, NEW w \in Nat
  PROVE  LET s == (done \div Unit(r)) + w
         IN  /\ FirstTurn((w \div Bunches) * (Bunches * r.decimation)) = TurnOf(r, s)
             /\ w % Bunches = BunchOf(r, s)
             /\ TurnOf(r, s) \in Nat
<1>1. PICK b \in Nat \ {0}, d \in Nat \ {0} : b = Bunches /\ d = r.decimation
  BY Sizes DEF Sensible, RequestType
<1>2. r.bunch < 0 /\ r.format # "int16" /\ r.bunch \in Int
  BY Sizes DEF Sensible, RequestType, Rotated
<1>3. Unit(r) = d /\ Grain(r) = b * d
  BY <1>1, <1>2 DEF Unit, Grain
<1>4. PICK q \in Nat : q = w \div b
  BY Quotient
<1>5. PICK e \in 0 .. b - 1 : e = w % b
  <2>1. w % b \in 0 .. b - 1
    BY Division
  <2>2. QED BY <2>1
<1>6. w = q * b + e
  BY <1>4, <1>5, Division
<1>7. (done \div d) = m * b
  <2>1. m * b \in Int /\ (m * b) * d = m * (b * d)
    BY Products
  <2>2. QED BY <1>3, <2>1, Multiples
<1>8. PICK s \in Int : s = (done \div d) + w
  BY <1>7, Products
<1>9. s = (m + q) * b + e
  <2>1. (m + q) * b = m * b + q * b /\ m * b \in Int /\ q * b \in Int
    BY Products
  <2>2. QED BY <1>6, <1>7, <1>8, <2>1
<1>10. s \div b = m + q /\ s % b = e
  <2>1. m + q \in Int
    OBVIOUS
  <2>2. QED BY <1>9, <2>1, DivisionUnique
<1>11. TurnOf(r, s) = (m + q) * d /\ BunchOf(r, s) = e
  BY <1>1, <1>2, <1>10 DEF TurnOf, BunchOf
<1>12. stream.turn = m * d
  <2>1. (m * d) * b = m * (b * d) /\ m * d \in Int /\ d * b = b * d
    BY Products
  <2>2. PICK t \in Int, u \in Int : t = stream.turn /\ u = m * d
    BY <2>1
  <2>3. t * b = u * b
    BY <1>1, <1>3, <2>1, <2>2
  <2>4. (t * b) \div b = t /\ (u * b) \div b = u
    BY Multiples
  <2>5. QED BY <2>2, <2>3, <2>4
<1>13. (q * (b * d)) \div b = q * d
  <2>1. q * (b * d) = (q * d) * b /\ q * d \in Int
    BY SMT
  <2>2. QED BY <2>1, Multiples
<1>14. m * d + q * d = (m + q) * d /\ (m + q) * d \in Nat
  BY SMT
<1>15. QED BY <1>1, <1>3, <1>4, <1>5, <1>8, <1>11, <1>12, <1>13, <1>14 DEF FirstTurn

LEMMA SampleForm ==
  ASSUME NEW r, Sensible(r), stream.turn \in Nat,
         NEW done, NEW m \in Nat, done = m * Grain(r),
         r.format # "int16" => stream.turn * Bunches = done,
         NEW w \in Nat, NEW i \in 1 .. Len(Channels(r))
  PROVE  LET s == (done \div Unit(r)) + w
             c == Channels(r)[i]
         IN  SampleOf(r, w)[i] =
               <<c, [k \in 1 .. r.decimation |->
                      <<Extract("stream", c, WordOf(r, w) + (k - 1) * Bunches),
                        IF Rotated(r) THEN TurnOf(r, s) + k - 1 ELSE 0>>],
                 IF Rotated(r) THEN BunchOf(r, s) ELSE 0>>
<1>1. CASE r.bunch >= 0
  BY <1>1 DEF SampleOf, Values, WordOf, Rotated, Sensible
<1>2. CASE ~(r.bunch >= 0) /\ r.format = "int16"
  BY <1>2 DEF SampleOf, Values, WordOf, Rotated
<1>3. CASE ~(r.bunch >= 0) /\ r.format # "int16" /\ ~Rotated(r)
  BY <1>3 DEF SampleOf, Values, WordOf, Rotated
<1>4. CASE ~(r.bunch >= 0) /\ Rotated(r)
  <2> DEFINE s == (done \div Unit(r)) + w
  <2>1. /\ FirstTurn((w \div Bunches) * (Bunches * r.decimation)) = TurnOf(r, s)
        /\ w % Bunches = BunchOf(r, s)
    BY <1>4, FirstTurnIs DEF Rotated
  <2>2. SampleOf(r, w) = Values(r, WordOf(r, w), TurnOf(r, s), BunchOf(r, s))
    BY <1>4, <2>1 DEF SampleOf, WordOf, Rotated
  <2>3. QED BY <1>4, <2>2 DEF Values, Rotated
<1>5. QED BY <1>1, <1>2, <1>3, <1>4

\* A chunk has been read for the words that come after those done.
ChunkInHand(r, done, chunk) ==
  /\ Sensible(r) /\ capture \in CaptureType /\ stream.turn \in Nat
  /\ \E m \in Nat : done = m * Grain(r)
  /\ \E n \in Nat : chunk = n * Grain(r)
  /\ r.format # "int16" => stream.turn * Bunches = done
  /\ stream.offset = capture.origin + r.offset * Bunches + done
  /\ reader["stream"].data \in Seq(Word)
  /\ Len(reader["stream"].data) = chunk + Bunches

\* The words of the chunk are those asked for.
ChunkExact(chunk) ==
  \A x \in 1 .. chunk + Bunches :
    reader["stream"].data[x] = (stream.offset + x - 1) % Size

LEMMA Delayed ==
  ASSUME NEW c \in Nat, NEW b \in Nat, NEW a \in 0 .. c - 1, NEW z \in 0 .. b
  PROVE  a + z + 1 \in 1 .. c + b
OBVIOUS

\* What a sample is made from is in the chunk, and if the chunk is what
\* was asked for, so is the sample.
LEMMA SampleExact ==
  ASSUME NEW r, NEW done, NEW chunk, ChunkInHand(r, done, chunk),
         NEW w \in Nat, w * Unit(r) < chunk, NEW i \in 1 .. Len(Channels(r))
  PROVE  /\ SampleOf(r, w)[i] \in Item(r)
         /\ ChunkExact(chunk) =>
              SampleOf(r, w)[i] =
                Wanted(r, ((done \div Unit(r)) + w) * Len(Channels(r)) + (i - 1))
<1>1. /\ Sensible(r) /\ capture \in CaptureType /\ stream.turn \in Nat
      /\ \E m \in Nat : done = m * Grain(r)
      /\ \E n \in Nat : chunk = n * Grain(r)
      /\ r.format # "int16" => stream.turn * Bunches = done
      /\ stream.offset = capture.origin + r.offset * Bunches + done
      /\ reader["stream"].data \in Seq(Word)
      /\ Len(reader["stream"].data) = chunk + Bunches
  BY DEF ChunkInHand
<1> DEFINE s == (done \div Unit(r)) + w
<1> DEFINE c == Channels(r)[i]
<1> DEFINE at(k) == WordOf(r, w) + (k - 1) * Bunches
<1> DEFINE x(k) == at(k) + capture.delay[c] + 1
<1>2. c \in {0, 1}
  BY <1>1, ChannelsOf
<1>3. capture.delay[c] \in 0 .. Bunches /\ capture.origin \in Int /\ r.offset \in Int
  BY <1>1, <1>2 DEF CaptureType, Sensible, RequestType
<1>4. Grain(r) \in Nat /\ Unit(r) \in Nat \ {0} /\ Bunches \in Nat
  BY <1>1, Grains, Sizes
<1>5. chunk \in Nat /\ done \in Nat
  <2>1. \A m \in Nat : m * Grain(r) \in Nat
    BY <1>4, SMT
  <2>2. QED BY <1>1, <2>1
<1>6. s \in Nat /\ BunchOf(r, s) \in Int
  <2>1. 1 \in 1 .. r.decimation
    BY <1>1 DEF Sensible, RequestType
  <2>2. PICK m \in Nat, n \in Nat : done = m * Grain(r) /\ chunk = n * Grain(r)
    BY <1>1
  <2>3. BunchOf(r, s) \in 0 .. Bunches - 1 /\ s \in Nat
    BY <1>1, <2>1, <2>2, WordPlace
  <2>4. QED BY <1>4, <2>3
<1>7. TurnOf(r, s) \in Int
  <2>1. r.decimation \in Int
    BY <1>1 DEF Sensible, RequestType
  <2>2. s \in Int /\ Bunches \in Nat \ {0}
    BY <1>6, Sizes
  <2>3. s \div Bunches \in Int
    BY <2>2, Division
  <2>4. QED BY <1>6, <2>1, <2>3, Products DEF TurnOf
<1>8. ASSUME NEW k \in 1 .. r.decimation
      PROVE  /\ at(k) \in 0 .. chunk - 1
             /\ done + at(k) = ((TurnOf(r, s) + k) - 1) * Bunches + BunchOf(r, s)
  BY <1>1, WordPlace
<1>9. ASSUME NEW k \in 1 .. r.decimation
      PROVE  /\ x(k) \in 1 .. chunk + Bunches
             /\ Extract("stream", c, at(k)) = reader["stream"].data[x(k)]
             /\ reader["stream"].data[x(k)] \in Word
  <2>1. x(k) \in 1 .. chunk + Bunches
    <3>1. PICK a \in 0 .. chunk - 1 : a = at(k)
      BY <1>8
    <3>2. PICK z \in 0 .. Bunches : z = capture.delay[c]
      BY <1>3
    <3>3. x(k) = a + z + 1
      BY <3>1, <3>2
    <3>4. a + z + 1 \in 1 .. chunk + Bunches
      BY <1>4, <1>5, Delayed
    <3>5. QED BY <3>3, <3>4
  <2>2. reader["stream"].data[x(k)] \in Word
    BY <1>1, <2>1, ElementOfSeq
  <2>3. QED BY <2>1, <2>2 DEF Extract
<1>10. SampleOf(r, w)[i] =
        <<c, [k \in 1 .. r.decimation |->
               <<Extract("stream", c, at(k)),
                 IF Rotated(r) THEN TurnOf(r, s) + k - 1 ELSE 0>>],
          IF Rotated(r) THEN BunchOf(r, s) ELSE 0>>
  BY <1>1, SampleForm
<1>11. SampleOf(r, w)[i] \in Item(r)
  <2> DEFINE f == [k \in 1 .. r.decimation |->
               <<Extract("stream", c, at(k)),
                 IF Rotated(r) THEN TurnOf(r, s) + k - 1 ELSE 0>>]
  <2>1. ASSUME NEW k \in 1 .. r.decimation PROVE f[k] \in Word \X Int
    <3>1. Extract("stream", c, at(k)) \in Word
      BY <1>9
    <3>2. (IF Rotated(r) THEN TurnOf(r, s) + k - 1 ELSE 0) \in Int
      BY <1>7
    <3>3. QED BY <3>1, <3>2
  <2>2. f \in [1 .. r.decimation -> Word \X Int]
    BY <2>1
  <2>3. (IF Rotated(r) THEN BunchOf(r, s) ELSE 0) \in Int
    BY <1>6
  <2>4. QED BY <1>2, <1>10, <2>2, <2>3 DEF Item
<1>12. ASSUME ChunkExact(chunk)
       PROVE  SampleOf(r, w)[i] = Wanted(r, s * Len(Channels(r)) + (i - 1))
  <2>1. ASSUME NEW k \in 1 .. r.decimation
        PROVE Extract("stream", c, at(k)) =
                (capture.origin + (r.offset + (TurnOf(r, s) + k - 1)) * Bunches
                   + BunchOf(r, s) + capture.delay[c]) % Size
    <3>1. PICK a \in Int : a = at(k)
      BY <1>8
    <3>2. PICK t \in Int : t = (TurnOf(r, s) + k) - 1
      BY <1>7
    <3>3. PICK p \in Int : p = capture.origin
      BY <1>3
    <3>4. PICK v \in Int : v = r.offset
      BY <1>3
    <3>5. PICK u \in Int : u = BunchOf(r, s)
      BY <1>6
    <3>6. PICK z \in 0 .. Bunches : z = capture.delay[c]
      BY <1>3
    <3>7. z \in Int
      BY <1>4
    <3>8. /\ p = capture.origin /\ v = r.offset
          /\ u = BunchOf(r, s) /\ z = capture.delay[c]
      BY <3>3, <3>4, <3>5, <3>6
    <3>9. done + a = t * Bunches + u
      BY <1>8, <3>1, <3>2, <3>8
    <3>10. stream.offset = p + v * Bunches + done
      BY <1>1, <3>8
    <3>11. /\ (v + t) * Bunches = v * Bunches + t * Bunches
          /\ v * Bunches \in Int /\ t * Bunches \in Int
      BY <1>4, Products
    <3>12. x(k) = a + z + 1
      BY <3>1, <3>8
    <3>13. stream.offset + (a + z + 1) - 1 = p + (v + t) * Bunches + u + z
      <4>1. PICK vb \in Int : vb = v * Bunches
        BY <3>11
      <4>2. PICK tb \in Int : tb = t * Bunches
        BY <3>11
      <4>3. done \in Int /\ done + a = tb + u
        BY <1>5, <3>9, <4>2
      <4>4. (p + vb + done) + (a + z + 1) - 1 = p + (vb + tb) + u + z
        <5>1. p + vb + done \in Int /\ a + z + 1 \in Int
          BY <3>7, <4>3
        <5>2. (p + vb + done) + (a + z + 1) - 1 = (p + vb + z) + (done + a)
          BY <3>7, <4>3, <5>1
        <5>3. (p + vb + z) + (tb + u) = p + (vb + tb) + u + z
          BY <3>7
        <5>4. QED BY <4>3, <5>2, <5>3
      <4>5. stream.offset = p + vb + done /\ (v + t) * Bunches = vb + tb
        BY <3>10, <3>11, <4>1, <4>2
      <4>6. QED BY <4>4, <4>5
    <3>14. Extract("stream", c, at(k)) = (stream.offset + x(k) - 1) % Size
      BY <1>9, <1>12 DEF ChunkExact
    <3>15. TurnOf(r, s) + k - 1 = t
      BY <1>7, <3>2
    <3>16. QED BY <3>8, <3>12, <3>13, <3>14, <3>15
  <2>2. [k \in 1 .. r.decimation |->
           <<Extract("stream", c, at(k)),
             IF Rotated(r) THEN TurnOf(r, s) + k - 1 ELSE 0>>] =
        [k \in 1 .. r.decimation |->
           <<(capture.origin + (r.offset + (TurnOf(r, s) + k - 1)) * Bunches
                + BunchOf(r, s) + capture.delay[c]) % Size,
             IF Rotated(r) THEN TurnOf(r, s) + k - 1 ELSE 0>>]
    BY <2>1, Zenon
  <2>3. Wanted(r, s * Len(Channels(r)) + (i - 1)) =
          <<c, [k \in 1 .. r.decimation |->
                 <<(capture.origin + (r.offset + (TurnOf(r, s) + k - 1)) * Bunches
                     + BunchOf(r, s) + capture.delay[c]) % Size,
                   IF Rotated(r) THEN TurnOf(r, s) + k - 1 ELSE 0>>],
            IF Rotated(r) THEN BunchOf(r, s) ELSE 0>>
    <3>1. s \in Nat /\ Sensible(r)
      BY <1>1, <1>6
    <3> HIDE DEF s
    <3>2. QED BY <3>1, WantedOf
  <2>4. QED BY <1>10, <2>2, <2>3, Zenon
<1>13. QED BY <1>11, <1>12

(***************************************************************************)
(* A block of values.                                                      *)
(***************************************************************************)
LEMMA FunctionSeq ==
  ASSUME NEW n \in Nat, NEW S, NEW f \in [1 .. n -> S]
  PROVE  f \in Seq(S) /\ Len(f) = n
BY SeqDef

LEMMA InUnits ==
  ASSUME NEW r, Sensible(r), NEW a, NEW m \in Nat, a = m * Grain(r)
  PROVE  /\ a \in Nat /\ a \div Unit(r) \in Nat
         /\ a = (a \div Unit(r)) * Unit(r)
<1>1. PICK u \in Nat \ {0} : Grain(r) = u * Unit(r)
  BY Grains
<1>2. PICK v \in Nat \ {0} : v = Unit(r)
  BY Grains
<1>3. PICK k \in Nat : k = m * u
  BY SMT
<1>4. a = k * v
  BY <1>1, <1>2, <1>3, Products
<1>5. a \div v = k
  BY <1>4, Multiples
<1>6. k * v \in Nat
  BY SMT
<1>7. QED BY <1>2, <1>4, <1>5, <1>6

LEMMA BlockIndices ==
  ASSUME NEW u \in Nat \ {0}, NEW n \in Nat \ {0}, NEW f \in Nat, NEW q \in Nat,
         NEW chunk \in Nat, f * u + q * u <= chunk, NEW k \in 1 .. q * n,
         NEW s \in Nat
  PROVE  \E h \in Nat, i \in 1 .. n :
           /\ h = (k - 1) \div n /\ i = ((k - 1) % n) + 1
           /\ (f + h) * u < chunk
           /\ (s + h) * n + (i - 1) = s * n + k - 1
<1>1. q * n \in Nat
  BY SMT
<1>2. PICK j \in Nat : j = k - 1 /\ j < q * n
  BY <1>1
<1>3. PICK g \in Nat : g = j \div n
  BY Quotient
<1>4. PICK e \in 0 .. n - 1 : e = j % n
  <2>1. j % n \in 0 .. n - 1
    BY Division
  <2>2. QED BY <2>1
<1>5. j = g * n + e
  BY <1>3, <1>4, Division
<1>6. g < q
  <2>1. CASE q <= g
    <3>1. g * n >= q * n /\ g * n \in Int
      BY <2>1, Products
    <3>2. QED BY <1>1, <1>2, <1>5, <3>1
  <2>2. QED BY <2>1
<1>7. (f + g) * u < chunk
  <2>1. /\ (f + g) * u = f * u + g * u /\ (g + 1) * u = g * u + 1 * u /\ 1 * u = u
        /\ f * u \in Int /\ g * u \in Int /\ q * u \in Int
    BY Products
  <2>2. q * u >= (g + 1) * u
    BY <1>6, Products
  <2>3. QED BY <2>1, <2>2
<1>8. (s + g) * n + ((e + 1) - 1) = s * n + k - 1
  <2>1. (s + g) * n = s * n + g * n /\ s * n \in Int /\ g * n \in Int
    BY Products
  <2>2. s * n + k - 1 = s * n + (k - 1)
    BY <2>1
  <2>3. QED BY <1>2, <1>5, <2>1, <2>2
<1>9. /\ g \in Nat /\ e + 1 \in 1 .. n
      /\ g = (k - 1) \div n /\ e + 1 = ((k - 1) % n) + 1
  BY <1>2, <1>3, <1>4
<1>10. QED BY <1>7, <1>8, <1>9

\* Value k of a block is of sample g, counted from the first of the block.
BlockAt(u, n, f, q, chunk, k, s) ==
  /\ u \in Nat \ {0} /\ n \in Nat \ {0} /\ f \in Nat /\ q \in Nat
  /\ chunk \in Nat /\ f * u + q * u <= chunk /\ k \in 1 .. q * n
  /\ s \in Nat

\* It is channel i of sample f + h of the chunk.
InChunk(u, n, f, chunk, k, s) ==
  \E h \in Nat, i \in 1 .. n :
    /\ h = (k - 1) \div n /\ i = ((k - 1) % n) + 1
    /\ (f + h) * u < chunk
    /\ (s + h) * n + (i - 1) = s * n + k - 1

LEMMA BlockSample ==
  ASSUME NEW u, NEW n, NEW f, NEW q, NEW chunk, NEW k, NEW s,
         BlockAt(u, n, f, q, chunk, k, s)
  PROVE  InChunk(u, n, f, chunk, k, s)
BY BlockIndices DEF BlockAt, InChunk

\* Of a chunk in hand, in the units and with the channels of the request.
BlockOf(r, done, u, per, f, b, chunk, k, d, v) ==
  /\ u = Unit(r) /\ per = Len(Channels(r)) /\ d \in Nat /\ d = done \div u
  /\ BlockAt(u, per, f, b, chunk, k, d)
  /\ v = SampleOf(r, f + ((k - 1) \div per))[((k - 1) % per) + 1]

LEMMA BlockValue ==
  ASSUME NEW r, NEW done, NEW chunk, ChunkInHand(r, done, chunk),
         NEW u, NEW per, NEW f, NEW b, NEW k, NEW d, NEW v,
         BlockOf(r, done, u, per, f, b, chunk, k, d, v)
  PROVE  /\ v \in Item(r)
         /\ ChunkExact(chunk) => v = Wanted(r, (d + f) * per + k - 1)
<1>1. u \in Nat \ {0} /\ per \in Nat \ {0} /\ f \in Nat /\ b \in Nat
      /\ u = Unit(r) /\ per = Len(Channels(r)) /\ d \in Nat /\ d = done \div u
      /\ BlockAt(u, per, f, b, chunk, k, d)
      /\ v = SampleOf(r, f + ((k - 1) \div per))[((k - 1) % per) + 1]
  BY DEF BlockAt, BlockOf
<1>2. PICK s \in Nat : s = d + f
  BY <1>1
<1>3. BlockAt(u, per, f, b, chunk, k, s)
  BY <1>1, <1>2 DEF BlockAt
<1>4. InChunk(u, per, f, chunk, k, s)
  BY <1>3, BlockSample
<1>5. PICK g \in Nat, e \in 1 .. per :
        /\ g = (k - 1) \div per /\ e = ((k - 1) % per) + 1
        /\ (f + g) * u < chunk
        /\ (s + g) * per + (e - 1) = s * per + k - 1
  BY <1>4 DEF InChunk
<1>6. PICK w \in Nat : w = f + g
  BY <1>1
<1>7. w * Unit(r) < chunk /\ e \in 1 .. Len(Channels(r))
  BY <1>1, <1>5, <1>6
<1>8. /\ SampleOf(r, w)[e] \in Item(r)
      /\ ChunkExact(chunk) => SampleOf(r, w)[e] =
           Wanted(r, ((done \div Unit(r)) + w) * Len(Channels(r)) + (e - 1))
  BY <1>7, SampleExact
<1>9. (done \div u) + w = s + g
  BY <1>1, <1>2, <1>6
<1>10. v = SampleOf(r, w)[e]
  BY <1>1, <1>5, <1>6
<1>11. QED BY <1>1, <1>2, <1>5, <1>8, <1>9, <1>10

BlockIn(r, done, chunk, first, words, s) ==
  /\ ChunkInHand(r, done, chunk)
  /\ \E p \in Nat : first = p * Grain(r)
  /\ \E q \in Nat : words = q * Grain(r)
  /\ first + words <= chunk /\ s \in Nat /\ done + first = s * Unit(r)

\* What is sent for a block are the values that follow those of the s samples
\* before it.
LEMMA BlockExact ==
  ASSUME NEW r, NEW done, NEW chunk, NEW first, NEW words, NEW s,
         BlockIn(r, done, chunk, first, words, s),
         NEW c, c = Convert(r, first, words)
  PROVE  /\ c \in Seq(Item(r))
         /\ \E b \in Nat : words = b * Unit(r) /\ Len(c) = b * Len(Channels(r))
         /\ ChunkExact(chunk) =>
              \A k \in 1 .. Len(c) : c[k] = Wanted(r, s * Len(Channels(r)) + k - 1)
<1>1. /\ ChunkInHand(r, done, chunk) /\ s \in Nat
      /\ \E p \in Nat : first = p * Grain(r)
      /\ \E q \in Nat : words = q * Grain(r)
      /\ first + words <= chunk /\ done + first = s * Unit(r)
  BY DEF BlockIn
<1>2. /\ Sensible(r) /\ \E m \in Nat : done = m * Grain(r)
       /\ \E n \in Nat : chunk = n * Grain(r)
  BY <1>1 DEF ChunkInHand
<1>3. PICK u \in Nat \ {0} : u = Unit(r)
  BY <1>2, Grains
<1>4. PICK per \in Nat \ {0} : per = Len(Channels(r))
  <2>1. PICK i \in {1, 2} : i = Len(Channels(r))
    BY <1>2, ChannelsOf
  <2>2. i \in Nat \ {0}
    OBVIOUS
  <2>3. QED BY <2>1, <2>2
<1>5. PICK f \in Nat : f = first \div u /\ first = f * u
  BY <1>1, <1>3, <1>2, InUnits
<1>6. PICK b \in Nat : b = words \div u /\ words = b * u
  BY <1>1, <1>3, <1>2, InUnits
<1>7. PICK d \in Nat : d = done \div u /\ done = d * u
  BY <1>1, <1>3, <1>2, InUnits
<1>8. chunk \in Nat
  BY <1>2, InUnits
<1>9. s = d + f
  <2>1. (d + f) * u = d * u + f * u
    BY Products
  <2>2. s * u = (d + f) * u
    BY <1>1, <1>3, <1>5, <1>7, <2>1
  <2>3. (s * u) \div u = s /\ ((d + f) * u) \div u = d + f
    BY <1>1, Multiples
  <2>4. QED BY <2>2, <2>3
<1>10. f * u + b * u <= chunk
  BY <1>1, <1>5, <1>6
<1>11. c = [k \in 1 .. b * per |->
              SampleOf(r, f + ((k - 1) \div per))[((k - 1) % per) + 1]]
  BY <1>3, <1>4, <1>5, <1>6 DEF Convert, Unit
<1>12. ASSUME NEW k \in 1 .. b * per
       PROVE  /\ c[k] \in Item(r)
              /\ ChunkExact(chunk) => c[k] = Wanted(r, s * per + k - 1)
  <2>1. c[k] = SampleOf(r, f + ((k - 1) \div per))[((k - 1) % per) + 1]
    BY <1>11
  <2>2. /\ c[k] \in Item(r)
        /\ ChunkExact(chunk) => c[k] = Wanted(r, (d + f) * per + k - 1)
    <3>1. BlockAt(u, per, f, b, chunk, k, d)
      BY <1>8, <1>10 DEF BlockAt
    <3>2. PICK v : v = c[k]
      OBVIOUS
    <3>3. v = SampleOf(r, f + ((k - 1) \div per))[((k - 1) % per) + 1]
      BY <2>1, <3>2
    <3>4. BlockOf(r, done, u, per, f, b, chunk, k, d, v)
      BY <1>3, <1>4, <1>7, <3>1, <3>3 DEF BlockOf
    <3>5. /\ v \in Item(r)
          /\ ChunkExact(chunk) => v = Wanted(r, (d + f) * per + k - 1)
      BY <1>1, <3>4, BlockValue
    <3>6. QED BY <3>2, <3>5
  <2>3. QED BY <1>9, <2>2
<1>13. b * per \in Nat
  BY SMT
<1>14. c \in [1 .. b * per -> Item(r)]
  BY <1>11, <1>12
<1>15. c \in Seq(Item(r)) /\ Len(c) = b * per
  BY <1>13, <1>14, FunctionSeq
<1>16. QED BY <1>3, <1>4, <1>6, <1>12, <1>15

(***************************************************************************)
(* The inductive invariant.                                                *)
(***************************************************************************)
StreamType ==
  [phase : {"parse", "info", "read", "write", "done", "refused"},
   left : Nat, offset : Int, turn : Nat, pos : Nat]
ReaderType ==
  [step : {"idle", "lock", "read"}, at : 0 .. Size - 1, left : Nat,
   data : Seq(Word)]

ReadTypes ==
  /\ request \in Request /\ capture \in CaptureType /\ stream \in StreamType
  /\ header \in [samples : Nat, channels : 0 .. 2]
  /\ reader \in [ReadThread -> ReaderType]
  /\ dramMutex \in ReadThread \cup {"free"} /\ pos \in 0 .. Size - 1
  /\ waves \in [offset : Int, wf : Seq([{0, 1} -> Word])]
  /\ failed \in BOOLEAN

\* What each thread reads.
AskedAt(t) ==
  IF t = "stream" THEN stream.offset
  ELSE capture.origin + waves.offset * Bunches
AskedLen(t) == (IF t = "stream" THEN ReadSamples ELSE WaveLength) + Bunches

ReadExact(t) ==
  \A i \in 1 .. Len(reader[t].data) :
    reader[t].data[i] = (AskedAt(t) + (i - 1)) % Size

\* A read goes through its words in order, and the file is at the next one as
\* long as it holds the mutex.
ReaderInv(t) ==
  /\ reader[t].step = "idle" => reader[t].left = 0
  /\ reader[t].step = "lock" => reader[t].data = <<>>
  /\ reader[t] # NoRead =>
       /\ reader[t].at = AskedAt(t) % Size
       /\ Len(reader[t].data) + reader[t].left = AskedLen(t)
  /\ dramMutex = t <=> reader[t].step = "read"
  /\ ~failed => ReadExact(t)
  /\ ~failed /\ reader[t].step = "read" =>
       pos = (AskedAt(t) + Len(reader[t].data)) % Size

\* The words that all the chunks before this one were made from.
Done == AllWords(request) - stream.left

\* The values of s samples have been sent.
Sent(s) ==
  /\ values \in Seq(Item(request))
  /\ Len(values) = s * Len(Channels(request))
  /\ ~failed => \A j \in 1 .. Len(values) : values[j] = Wanted(request, j - 1)

Early == stream.phase \in {"parse", "info", "refused"}

StreamInv ==
  /\ Early => values = <<>> /\ header.samples = 0 /\ stream.turn = 0
  /\ ~Early =>
       /\ header = Header(request)
       /\ \E m \in Nat : Done = m * Grain(request)
       /\ \E m \in Nat : stream.left = m * Grain(request)
       /\ \E m \in Nat : stream.pos = m * Grain(request)
       /\ stream.offset = capture.origin + request.offset * Bunches + Done
       /\ request.format # "int16" => stream.turn * Bunches = Done
       /\ \E s \in Nat : Done + stream.pos = s * Unit(request) /\ Sent(s)
  /\ stream.phase = "write" => stream.pos <= ReadSamples
  /\ stream.phase # "write" => stream.pos = 0 /\ reader["stream"] = NoRead
  /\ stream.phase = "done" => stream.left = 0

ReadInv ==
  ReadTypes /\ (\A t \in ReadThread : ReaderInv(t)) /\ StreamInv /\ WaveFaithful

LEMMA ThreadIs == \A t \in ReadThread : t = "stream" \/ t = "wave"
BY DEF ReadThread

LEMMA Inside ==
  ASSUME NEW n \in Nat \ {0}, NEW a \in 0 .. n - 1
  PROVE  a % n = a
<1>1. (0 * n + a) % n = a
  BY DivisionUnique
<1>2. 0 * n + a = a
  BY Products
<1>3. QED BY <1>1, <1>2

LEMMA AtEnd ==
  ASSUME NEW n \in Nat \ {0}
  PROVE  n % n = 0
<1>1. (1 * n) % n = 0
  BY Multiples
<1>2. QED BY <1>1, Products

LEMMA Order ==
  ASSUME NEW u \in Nat \ {0}, NEW a \in Int, NEW b \in Int, a * u <= b * u
  PROVE  a <= b
<1>1. CASE a > b
  <2>1. a * u >= (b + 1) * u /\ (b + 1) * u = b * u + 1 * u /\ 1 * u = u
        /\ b * u \in Int /\ a * u \in Int
    BY <1>1, Products
  <2>2. QED BY <2>1
<1>2. QED BY <1>1

\* What a DMA read transfers: at least a word, and no more than was asked for
\* and than there is up to the end of memory.
LEMMA ClipBounds ==
  ASSUME pos \in 0 .. Size - 1, NEW left \in Nat \ {0}
  PROVE  Clip(left) \in 1 .. left /\ pos + Clip(left) <= Size
<1> DEFINE inMemory == Least(left, Size - pos)
<1> DEFINE start == pos % Align
<1> DEFINE words == start + inMemory + Align - 1
<1> DEFINE aligned == (words \div Align) * Align
<1>1. inMemory \in 1 .. left /\ pos + inMemory <= Size
  BY Sizes DEF Least
<1>2. start \in 0 .. Align - 1
  BY Sizes, Division
<1>3. PICK a \in Nat \ {0}, d \in Nat \ {0}, m \in Nat \ {0}, s \in Nat :
        a = Align /\ d = DmaBlock /\ m = inMemory /\ s = start
  BY Sizes, <1>1, <1>2
<1>4. PICK q \in Int : (s + m + a - 1) \div a = q /\ q * a <= s + m + a - 1
  <2>1. PICK x \in Int : x = s + m + a - 1
    OBVIOUS
  <2>2. x \div a \in Int /\ x % a \in 0 .. a - 1 /\ x = (x \div a) * a + (x % a)
    BY Division
  <2>3. PICK q \in Int, e \in 0 .. a - 1 : q = x \div a /\ x = q * a + e
    BY <2>2
  <2>4. q * a \in Int
    BY Products
  <2>5. QED BY <2>1, <2>3, <2>4
<1>5. PICK k \in Int : d = k * a
  <2>1. d % a = 0
    BY <1>3, Sizes
  <2>2. d \div a \in Int /\ d = (d \div a) * a + (d % a)
    BY Division
  <2>3. PICK k \in Int : k = d \div a
    BY <2>2
  <2>4. k * a \in Int
    BY Products
  <2>5. QED BY <2>1, <2>2, <2>3, <2>4
<1>6. k >= 1
  <2>1. CASE k <= 0
    <3>1. 0 * a >= k * a /\ 0 * a = 0 /\ k * a \in Int
      BY <2>1, Products
    <3>2. QED BY <1>5, <3>1
  <2>2. QED BY <2>1
<1>7. d >= a
  <2>1. k * a >= 1 * a /\ 1 * a = a /\ k * a \in Int
    BY <1>6, Products
  <2>2. QED BY <1>5, <2>1
<1>8. CASE q * a > d
  <2>1. q > k
    <3>1. CASE q <= k
      <4>1. k * a >= q * a /\ k * a \in Int /\ q * a \in Int
        BY <3>1, Products
      <4>2. QED BY <4>1, <1>5, <1>8
    <3>2. QED BY <3>1
  <2>2. q * a >= d + a
    <3>1. q * a >= (k + 1) * a /\ (k + 1) * a = k * a + 1 * a /\ 1 * a = a
      BY <2>1, Products
    <3>2. QED BY <3>1, <1>5
  <2>3. m >= d - s + 1 /\ d - s >= 1
    <3>1. PICK y \in Int : y = q * a
      BY Products
    <3>2. s < a
      BY <1>2, <1>3
    <3>3. QED BY <1>4, <1>7, <2>2, <3>1, <3>2
  <2>4. Clip(left) = d - s
    BY <1>3, <1>4, <1>8 DEF Clip
  <2>5. PICK n \in Int : n = d - s
    OBVIOUS
  <2>6. n >= 1 /\ n <= m
    BY <2>3, <2>5
  <2>7. Clip(left) = n /\ m <= left /\ pos + m <= Size
    BY <1>1, <1>3, <2>4, <2>5
  <2>8. QED BY <2>6, <2>7, Sizes
<1>9. CASE ~(q * a > d)
  <2>1. Clip(left) = m
    BY <1>3, <1>4, <1>9 DEF Clip
  <2>2. QED BY <1>1, <1>3, <2>1
<1>10. QED BY <1>8, <1>9

LEMMA NextPosIs ==
  ASSUME pos \in 0 .. Size - 1, NEW n \in Nat, pos + n <= Size
  PROVE  NextPos(n) = (pos + n) % Size /\ NextPos(n) \in 0 .. Size - 1
<1>1. CASE pos + n = Size
  BY <1>1, Sizes, AtEnd DEF NextPos
<1>2. CASE pos + n # Size
  <2>1. pos + n \in 0 .. Size - 1
    BY <1>2, Sizes
  <2>2. QED BY <1>2, <2>1, Sizes, Inside DEF NextPos
<1>3. QED BY <1>1, <1>2

\* Reading n more words from where the file is.
LEMMA NextWords ==
  ASSUME NEW a \in Int, NEW l \in Nat, pos \in 0 .. Size - 1,
         pos = (a + l) % Size, NEW n \in Nat, pos + n <= Size
  PROVE  /\ \A i \in 1 .. n : pos + i - 1 = (a + ((l + i) - 1)) % Size
         /\ NextPos(n) = (a + (l + n)) % Size
<1>1. \A b \in Int : (pos + b) % Size = ((a + l) + b) % Size
  <2>1. a + l \in Int
    OBVIOUS
  <2>2. QED BY <2>1, Sizes, ModuloSum
<1>2. ASSUME NEW i \in 1 .. n PROVE pos + i - 1 = (a + ((l + i) - 1)) % Size
  <2>1. pos + (i - 1) \in 0 .. Size - 1
    BY Sizes
  <2>2. (pos + (i - 1)) % Size = pos + (i - 1)
    BY <2>1, Sizes, Inside
  <2>3. (pos + (i - 1)) % Size = ((a + l) + (i - 1)) % Size
    BY <1>1
  <2>4. (a + l) + (i - 1) = a + ((l + i) - 1) /\ pos + (i - 1) = pos + i - 1
    OBVIOUS
  <2>5. QED BY <2>2, <2>3, <2>4
<1>3. NextPos(n) = (a + (l + n)) % Size
  <2>1. (a + l) + n = a + (l + n)
    OBVIOUS
  <2>2. QED BY <1>1, <2>1, NextPosIs
<1>4. QED BY <1>2, <1>3
LEMMA ReadInvInit ==
  ASSUME ReadInit
  PROVE  ReadInv
<1>1. ReadTypes
  <2>1. capture \in CaptureType
    <3>1. capture.origin \in Origins /\ capture.delay \in [{0, 1} -> Delays]
          /\ capture = [origin |-> capture.origin, delay |-> capture.delay]
      BY DEF ReadInit
    <3>2. Origins \subseteq Int /\ Delays \subseteq 0 .. Bunches
      BY MemoryReadAssumption
    <3>3. capture.delay \in [{0, 1} -> 0 .. Bunches]
      BY <3>1, <3>2
    <3>4. QED BY <3>1, <3>2, <3>3 DEF CaptureType
  <2>2. NoRead \in ReaderType
    BY Sizes DEF NoRead, ReaderType
  <2>3. waves \in [offset : Int, wf : Seq([{0, 1} -> Word])]
    BY DEF ReadInit
  <2>4. stream \in StreamType
    BY DEF ReadInit, StreamType
  <2>5. reader \in [ReadThread -> ReaderType]
    BY <2>2 DEF ReadInit
  <2>6. pos \in 0 .. Size - 1 /\ header \in [samples : Nat, channels : 0 .. 2]
    BY Sizes DEF ReadInit
  <2>7. QED BY <2>1, <2>3, <2>4, <2>5, <2>6 DEF ReadInit, ReadTypes
<1>2. ASSUME NEW t \in ReadThread PROVE ReaderInv(t)
  <2>1. reader[t] = NoRead /\ dramMutex # t
    BY <1>2, ThreadIs DEF ReadInit
  <2>2. QED BY <2>1 DEF NoRead, ReaderInv, ReadExact
<1>3. StreamInv
  <2>1. reader["stream"] = NoRead
    BY DEF ReadInit, ReadThread
  <2>2. QED BY <2>1 DEF ReadInit, StreamInv, Early
<1>4. WaveFaithful
  BY DEF ReadInit, WaveFaithful
<1>5. QED BY <1>1, <1>2, <1>3, <1>4 DEF ReadInv

\* What the types say of the parameters of each step.
LEMMA ReadParts ==
  ASSUME ReadTypes
  PROVE  /\ Sensible(request) /\ request.offset \in Int /\ request.count \in Nat
         /\ AllWords(request) \in Nat /\ AllWords(request) = request.count * Bunches * request.decimation
         /\ capture.origin \in Int /\ \A c \in {0, 1} : capture.delay[c] \in 0 .. Bunches
         /\ stream.left \in Nat /\ stream.offset \in Int /\ stream.turn \in Nat
         /\ stream.pos \in Nat
         /\ ReadSamples \in Nat /\ ReadSamples <= stream.left
         /\ ReadSamples <= ReadBuffer - Bunches
         /\ waves.offset \in Int /\ waves.offset * Bunches \in Int
         /\ \A t \in ReadThread : reader[t] \in ReaderType
         /\ \A t \in ReadThread : AskedAt(t) \in Int /\ AskedLen(t) \in Nat \ {0}
<1>1. Sensible(request)
  BY RequestSensible DEF ReadTypes
<1>2. request.offset \in Int /\ request.count \in Nat
  BY <1>1 DEF Sensible, RequestType
<1>3. AllWords(request) \in Nat /\ AllWords(request) = request.count * Bunches * request.decimation
  BY <1>1, Grains DEF AllWords
<1>4. capture.origin \in Int /\ \A c \in {0, 1} : capture.delay[c] \in 0 .. Bunches
  BY DEF ReadTypes, CaptureType
<1>5. stream.left \in Nat /\ stream.offset \in Int /\ stream.turn \in Nat /\ stream.pos \in Nat
  BY DEF ReadTypes, StreamType
<1>6. ReadSamples \in Nat /\ ReadSamples <= stream.left /\ ReadSamples <= ReadBuffer - Bunches
  <2>1. ReadBufferSize(request) \in 0 .. ReadBuffer - Bunches
    BY <1>1, ReadBufferIs
  <2>2. PICK b \in Nat : b = ReadBufferSize(request) /\ b <= ReadBuffer - Bunches
    BY <2>1, Sizes
  <2>3. QED BY <1>5, <2>2, Sizes DEF ReadSamples, Least
<1>7. waves.offset \in Int /\ waves.offset * Bunches \in Int
  BY Sizes, Products DEF ReadTypes
<1>8. \A t \in ReadThread : reader[t] \in ReaderType
  BY DEF ReadTypes
<1>9. \A t \in ReadThread : AskedAt(t) \in Int /\ AskedLen(t) \in Nat \ {0}
  BY <1>4, <1>5, <1>6, <1>7, Sizes DEF AskedAt, AskedLen
<1>10. QED BY <1>1, <1>2, <1>3, <1>4, <1>5, <1>6, <1>7, <1>8, <1>9

LEMMA NewRead ==
  ASSUME ReadTypes, NEW t \in ReadThread, NEW a \in Int, NEW n \in Nat,
         CallRead(t, a, n)
  PROVE  /\ reader' \in [ReadThread -> ReaderType]
         /\ reader'[t] = [step |-> "lock", at |-> a % Size, left |-> n,
                          data |-> <<>>]
         /\ \A u \in ReadThread \ {t} : reader'[u] = reader[u]
<1>1. a % Size \in 0 .. Size - 1
  BY Sizes, Division
<1>2. [step |-> "lock", at |-> a % Size, left |-> n, data |-> <<>>] \in ReaderType
  BY <1>1 DEF ReaderType
<1>3. QED BY <1>2 DEF CallRead, ReadTypes

\* A word of each channel for a waveform is in what has been read.
LEMMA WaveWords ==
  ASSUME ReadTypes, ReaderInv("wave"), Arrived("wave"),
         NEW i \in 1 .. WaveLength, NEW c \in {0, 1}
  PROVE  /\ (i - 1) + capture.delay[c] + 1 \in 1 .. Len(reader["wave"].data)
         /\ Extract("wave", c, i - 1) \in Word
         /\ ReadExact("wave") => Extract("wave", c, i - 1) =
              (capture.origin + waves.offset * Bunches + i - 1
                 + capture.delay[c]) % Size
<1>1. reader["wave"] # NoRead /\ "wave" \in ReadThread
  BY DEF Arrived, NoRead, ReadThread
<1>2. reader["wave"].data \in Seq(Word) /\ reader["wave"].left = 0
  BY <1>1, ReadParts DEF ReaderType, ReaderInv, Arrived
<1>3. Len(reader["wave"].data) = WaveLength + Bunches
  <2>1. AskedLen("wave") = WaveLength + Bunches
    BY DEF AskedLen
  <2>2. QED BY <1>1, <1>2, <2>1, Sizes DEF ReaderInv
<1>4. PICK d \in 0 .. Bunches : d = capture.delay[c]
  BY ReadParts
<1>5. (i - 1) + d + 1 \in 1 .. Len(reader["wave"].data)
  <2>1. (i - 1) \in 0 .. WaveLength - 1
    BY Sizes
  <2>2. (i - 1) + d + 1 \in 1 .. WaveLength + Bunches
    BY <2>1, Sizes, Delayed
  <2>3. QED BY <1>3, <2>2
<1>6. Extract("wave", c, i - 1) = reader["wave"].data[(i - 1) + d + 1]
  BY <1>4 DEF Extract
<1>7. Extract("wave", c, i - 1) \in Word
  BY <1>2, <1>5, <1>6, ElementOfSeq
<1>8. ASSUME ReadExact("wave")
      PROVE  Extract("wave", c, i - 1) =
               (capture.origin + waves.offset * Bunches + i - 1
                  + capture.delay[c]) % Size
  <2>1. PICK a \in Int : a = capture.origin + waves.offset * Bunches
    BY ReadParts
  <2>2. AskedAt("wave") = a
    BY <2>1 DEF AskedAt
  <2>3. Extract("wave", c, i - 1) = (a + (((i - 1) + d + 1) - 1)) % Size
    BY <1>5, <1>6, <1>8, <2>2 DEF ReadExact
  <2>4. a + (((i - 1) + d + 1) - 1) = a + i - 1 + d
    BY Sizes
  <2>5. QED BY <1>4, <2>1, <2>3, <2>4
<1>9. QED BY <1>4, <1>5, <1>7, <1>8

LEMMA ReadTypesKept ==
  ASSUME ReadInv, [ReadNext]_streamVars
  PROVE  ReadTypes'
<1>1. ReadTypes /\ (\A t \in ReadThread : ReaderInv(t)) /\ StreamInv
  BY DEF ReadInv
<1>2. CASE StartCommand
  BY <1>1, <1>2 DEF StartCommand, ReadTypes, StreamType
<1>3. CASE WriteInfo
  <2>1. AllWords(request) \in Nat
        /\ AllWords(request) = request.count * Bunches * request.decimation
    BY <1>1, ReadParts
  <2>2. capture.origin + request.offset * Bunches \in Int
    BY <1>1, ReadParts, Sizes, Products
  <2>3. stream' \in StreamType
    BY <1>1, <1>3, <2>1, <2>2 DEF WriteInfo, ReadTypes, StreamType
  <2>4. Header(request) \in [samples : Nat, channels : 0 .. 2]
    <3>1. request.count \in Nat /\ request.count * Bunches \in Nat
      BY <1>1, ReadParts, Sizes, SMT
    <3>2. Len(Channels(request)) \in 0 .. 2
      BY <1>1, ReadParts, ChannelsOf
    <3>3. QED BY <3>1, <3>2 DEF Header
  <2>5. QED BY <1>1, <1>3, <2>3, <2>4 DEF WriteInfo, ReadTypes
<1>4. CASE ReadChunk
  <2>1. stream' \in StreamType
    <3>1. \/ stream' = [stream EXCEPT !.phase = "done"]
          \/ stream' = [stream EXCEPT !.phase = "write", !.pos = 0]
      BY <1>4 DEF ReadChunk
    <3>2. stream \in StreamType
      BY <1>1 DEF ReadTypes
    <3>3. [stream EXCEPT !.phase = "done"] \in StreamType
      BY <3>2 DEF StreamType
    <3>4. [stream EXCEPT !.phase = "write", !.pos = 0] \in StreamType
      BY <3>2 DEF StreamType
    <3>5. QED BY <3>1, <3>3, <3>4
  <2>2. reader' \in [ReadThread -> ReaderType]
    <3>1. CASE stream.left = 0
      BY <1>1, <1>4, <3>1 DEF ReadChunk, ReadTypes
    <3>2. CASE stream.left # 0
      <4>1. "stream" \in ReadThread
        BY DEF ReadThread
      <4>2. stream.offset \in Int /\ ReadSamples + Bunches \in Nat
        BY <1>1, ReadParts, Sizes
      <4>3. CallRead("stream", stream.offset, ReadSamples + Bunches)
        BY <1>4, <3>2 DEF ReadChunk
      <4>4. QED BY <1>1, <4>1, <4>2, <4>3, NewRead
    <3>3. QED BY <3>1, <3>2
  <2>3. QED BY <1>1, <1>4, <2>1, <2>2 DEF ReadChunk, ReadTypes
<1>5. CASE SendBlock
  <2>1. NoRead \in ReaderType
    BY Sizes DEF NoRead, ReaderType
  <2>2. reader' \in [ReadThread -> ReaderType]
    BY <1>1, <1>5, <2>1 DEF SendBlock, ReadTypes
  <2>3. PICK n \in Nat : n = Least(ReadSamples - stream.pos, BlockWords(request))
    <3>1. ReadSamples \in Nat /\ stream.pos \in Nat /\ stream.pos <= ReadSamples
      BY <1>1, <1>5, ReadParts DEF StreamInv, SendBlock
    <3>2. BlockWords(request) \in Nat
      <4>1. PICK m \in Nat, g \in Nat : BlockWords(request) = m * g
        BY <1>1, ReadParts, BlockSize, Grains
      <4>2. m * g \in Nat
        BY SMT
      <4>3. QED BY <4>1, <4>2
    <3>3. QED BY <3>1, <3>2 DEF Least
  <2>4. PICK t \in Nat : t = stream.turn + ReadSamples \div Bunches
    <3>1. ReadSamples \div Bunches \in Nat
      BY <1>1, ReadParts, Sizes, Quotient
    <3>2. QED BY <1>1, <3>1, ReadParts
  <2>5. /\ stream.offset + ReadSamples \in Int /\ stream.left - ReadSamples \in Nat
        /\ stream.pos + n \in Nat
    BY <1>1, ReadParts
  <2>6. stream' \in StreamType
    BY <1>1, <1>5, <2>3, <2>4, <2>5 DEF SendBlock, ReadTypes, StreamType
  <2>7. QED BY <1>1, <1>5, <2>2, <2>6 DEF SendBlock, ReadTypes
<1>6. CASE ReadWave
  <2>1. PICK o \in Int :
          /\ waves' = [offset |-> o, wf |-> <<>>]
          /\ CallRead("wave", capture.origin + o * Bunches, WaveLength + Bunches)
    BY <1>6, MemoryReadAssumption DEF ReadWave
  <2>2. capture.origin + o * Bunches \in Int /\ WaveLength + Bunches \in Nat
    BY <1>1, ReadParts, Sizes, Products
  <2>3. reader' \in [ReadThread -> ReaderType]
    BY <1>1, <2>1, <2>2, NewRead DEF ReadThread
  <2>4. waves' \in [offset : Int, wf : Seq([{0, 1} -> Word])]
    BY <2>1
  <2>5. QED BY <1>1, <1>6, <2>3, <2>4 DEF ReadWave, ReadTypes
<1>7. CASE ShowWave
  <2>1. NoRead \in ReaderType
    BY Sizes DEF NoRead, ReaderType
  <2>2. reader' \in [ReadThread -> ReaderType]
    BY <1>1, <1>7, <2>1 DEF ShowWave, ReadTypes
  <2>3. PICK w : w = [i \in 1 .. WaveLength |->
                       [c \in {0, 1} |-> Extract("wave", c, i - 1)]]
    OBVIOUS
  <2>4. \A i \in 1 .. WaveLength, c \in {0, 1} :
          Extract("wave", c, i - 1) \in Word
    BY <1>1, <1>7, WaveWords DEF ShowWave, ReadThread
  <2>5. w \in [1 .. WaveLength -> [{0, 1} -> Word]]
    BY <2>3, <2>4
  <2>6. w \in Seq([{0, 1} -> Word])
    BY <2>5, Sizes, FunctionSeq
  <2>7. waves' = [waves EXCEPT !.wf = w]
    BY <1>7, <2>3 DEF ShowWave
  <2>8. waves' \in [offset : Int, wf : Seq([{0, 1} -> Word])]
    BY <1>1, <2>6, <2>7 DEF ReadTypes
  <2>9. QED BY <1>1, <1>7, <2>2, <2>8 DEF ShowWave, ReadTypes
<1>8. ASSUME NEW t \in ReadThread, LockAndSeek(t) PROVE ReadTypes'
  <2>1. reader[t] \in ReaderType
    BY <1>1, ReadParts
  <2>2. [reader[t] EXCEPT !.step = "read"] \in ReaderType /\ reader[t].at \in 0 .. Size - 1
    BY <2>1 DEF ReaderType
  <2>3. reader' \in [ReadThread -> ReaderType]
    BY <1>1, <1>8, <2>2 DEF LockAndSeek, ReadTypes
  <2>4. QED BY <1>1, <1>8, <2>2, <2>3 DEF LockAndSeek, ReadTypes
<1>9. ASSUME NEW t \in ReadThread, Read(t) PROVE ReadTypes'
  <2>1. reader[t] \in ReaderType
    BY <1>1, ReadParts
  <2>2. PICK l \in Nat : l = reader[t].left
    BY <2>1 DEF ReaderType
  <2>3. reader' \in [ReadThread -> ReaderType] /\ pos' \in 0 .. Size - 1
    <3>1. CASE l = 0
      <4>1. [reader[t] EXCEPT !.step = "idle"] \in ReaderType
        BY <2>1 DEF ReaderType
      <4>2. QED BY <1>1, <1>9, <2>2, <3>1, <4>1 DEF Read, ReadTypes
    <3>2. CASE l # 0
      <4>1. PICK n \in Nat : n = Clip(l) /\ n <= l /\ pos + n <= Size /\ pos \in 0 .. Size - 1
        <5>1. pos \in 0 .. Size - 1
          BY <1>1 DEF ReadTypes
        <5>2. Clip(l) \in 1 .. l /\ pos + Clip(l) <= Size
          BY <3>2, <5>1, ClipBounds
        <5>3. QED BY <5>1, <5>2
      <4>2. NextPos(n) \in 0 .. Size - 1
        BY <4>1, NextPosIs
      <4>3. PICK d : d = [i \in 1 .. n |-> pos + i - 1]
        OBVIOUS
      <4>4. PICK f : f = [i \in 1 .. l |-> Stale]
        OBVIOUS
      <4>5. d \in Seq(Word) /\ f \in Seq(Word)
        <5>1. \A i \in 1 .. n : pos + i - 1 \in Word
          BY <4>1, Sizes DEF Word
        <5>2. d \in [1 .. n -> Word]
          BY <4>3, <5>1
        <5>3. f \in [1 .. l -> Word]
          BY <4>4 DEF Word
        <5>4. QED BY <5>2, <5>3, FunctionSeq
      <4>6. reader[t].data \in Seq(Word)
        BY <2>1 DEF ReaderType
      <4>7. reader[t].data \o d \in Seq(Word) /\ reader[t].data \o f \in Seq(Word)
        BY <4>5, <4>6, ConcatProperties
      <4>8. /\ [reader[t] EXCEPT !.data = reader[t].data \o d, !.left = l - n] \in ReaderType
            /\ [reader[t] EXCEPT !.data = reader[t].data \o f, !.left = 0] \in ReaderType
        <5>1. l - n \in Nat
          BY <4>1
        <5>2. QED BY <2>1, <4>7, <5>1 DEF ReaderType
      <4>9. \/ /\ reader' = [reader EXCEPT ![t].data = reader[t].data \o d, ![t].left = l - n]
               /\ pos' = NextPos(n)
            \/ /\ reader' = [reader EXCEPT ![t].data = reader[t].data \o f, ![t].left = 0]
               /\ pos' = pos
        BY <1>1, <1>9, <2>2, <3>2, <4>1, <4>3, <4>4 DEF Read, ReadTypes
      <4>10. QED BY <1>1, <4>1, <4>2, <4>8, <4>9 DEF ReadTypes
    <3>3. QED BY <3>1, <3>2
  <2>4. QED BY <1>1, <1>9, <2>3 DEF Read, ReadTypes
<1>10. CASE UNCHANGED streamVars
  BY <1>1, <1>10 DEF streamVars, ReadTypes
<1>11. QED
  BY <1>2, <1>3, <1>4, <1>5, <1>6, <1>7, <1>8, <1>9, <1>10 DEF ReadNext, Stream
LEMMA ReaderKept ==
  ASSUME NEW t \in ReadThread, ReaderInv(t), reader'[t] = reader[t],
         \/ reader[t] = NoRead
         \/ AskedAt(t)' = AskedAt(t) /\ AskedLen(t)' = AskedLen(t),
         dramMutex' = t <=> dramMutex = t, failed => failed',
         reader[t].step = "read" => pos' = pos
  PROVE  ReaderInv(t)'
<1>1. CASE reader[t] = NoRead
  <2>1. reader[t].step = "idle" /\ reader[t].left = 0 /\ Len(reader[t].data) = 0
    BY <1>1 DEF NoRead
  <2>2. QED BY <1>1, <2>1 DEF ReaderInv, ReadExact, NoRead
<1>2. CASE AskedAt(t)' = AskedAt(t) /\ AskedLen(t)' = AskedLen(t)
  BY <1>2 DEF ReaderInv, ReadExact, NoRead
<1>3. QED BY <1>1, <1>2

\* A thread without a read.
LEMMA ReaderFree ==
  ASSUME NEW t, reader'[t] = NoRead, dramMutex' # t
  PROVE  ReaderInv(t)'
BY DEF ReaderInv, ReadExact, NoRead

\* A read that has just been called.
LEMMA ReaderCalled ==
  ASSUME NEW t, dramMutex' # t, NEW a, a = AskedAt(t)', NEW n \in Nat,
         n = AskedLen(t)',
         reader'[t] = [step |-> "lock", at |-> a % Size, left |-> n, data |-> <<>>]
  PROVE  ReaderInv(t)'
BY DEF ReaderInv, ReadExact

LEMMA AskedKept ==
  ASSUME UNCHANGED <<request, capture, waves>>
  PROVE  /\ AskedAt("wave")' = AskedAt("wave") /\ AskedLen("wave")' = AskedLen("wave")
         /\ stream'.offset = stream.offset => AskedAt("stream")' = AskedAt("stream")
         /\ stream'.left = stream.left =>
              ReadSamples' = ReadSamples /\ AskedLen("stream")' = AskedLen("stream")
BY DEF AskedAt, AskedLen, ReadSamples, ReadBufferSize

LEMMA LockedExact ==
  ASSUME ReadInv, NEW t \in ReadThread, LockAndSeek(t)
  PROVE  ReaderInv(t)'
<1>1. ReaderInv(t) /\ reader \in [ReadThread -> ReaderType]
      /\ AskedAt(t) \in Int
  BY ReadParts DEF ReadInv, ReadTypes
<1>2. reader'[t] = [reader[t] EXCEPT !.step = "read"] /\ reader[t].step = "lock"
  BY <1>1 DEF LockAndSeek
<1>3. /\ reader'[t].step = "read" /\ reader'[t].at = reader[t].at
      /\ reader'[t].left = reader[t].left /\ reader'[t].data = reader[t].data
  BY <1>1, <1>2 DEF ReaderType
<1>4. reader[t] # NoRead /\ reader[t].data = <<>>
  BY <1>1, <1>2 DEF NoRead, ReaderInv
<1>5. pos' = AskedAt(t) % Size /\ dramMutex' = t
  BY <1>1, <1>4 DEF LockAndSeek, ReaderInv
<1>6. AskedAt(t)' = AskedAt(t) /\ AskedLen(t)' = AskedLen(t)
  BY AskedKept, ThreadIs DEF LockAndSeek
<1>7. Len(reader'[t].data) = 0
  BY <1>3, <1>4
<1>8. ReadExact(t)'
  BY <1>7 DEF ReadExact
<1>9. AskedAt(t) + 0 = AskedAt(t)
  BY <1>1
<1>10. QED BY <1>1, <1>3, <1>4, <1>5, <1>6, <1>7, <1>8, <1>9 DEF ReaderInv

\* Words read in order follow those that were there.
LEMMA MoreWords ==
  ASSUME NEW old \in Seq(Word), NEW more \in Seq(Word), NEW a \in Int,
         \A i \in 1 .. Len(old) : old[i] = (a + (i - 1)) % Size,
         \A i \in 1 .. Len(more) : more[i] = (a + ((Len(old) + i) - 1)) % Size
  PROVE  \A i \in 1 .. Len(old \o more) : (old \o more)[i] = (a + (i - 1)) % Size
<1>1. Len(old) \in Nat /\ Len(more) \in Nat /\ Len(old \o more) = Len(old) + Len(more)
  BY ConcatProperties
<1>2. SUFFICES ASSUME NEW i \in 1 .. Len(old) + Len(more)
      PROVE (old \o more)[i] = (a + (i - 1)) % Size
  BY <1>1
<1>3. CASE i <= Len(old)
  <2>1. (old \o more)[i] = old[i]
    BY <1>1, <1>3, ConcatProperties
  <2>2. QED BY <1>1, <1>3, <2>1
<1>4. CASE i > Len(old)
  <2>1. (old \o more)[i] = more[i - Len(old)]
    BY <1>1, <1>4, ConcatProperties
  <2>2. PICK l \in Nat, m \in Nat : l = Len(old) /\ m = Len(more)
    BY <1>1
  <2>3. i - l \in 1 .. m /\ l + (i - l) = i
    BY <1>4, <2>2
  <2>4. QED BY <2>1, <2>2, <2>3
<1>5. QED BY <1>1, <1>3, <1>4

LEMMA ReadKeeps ==
  ASSUME ReadInv, NEW t \in ReadThread, Read(t)
  PROVE  ReaderInv(t)'
<1>1. /\ ReaderInv(t) /\ reader \in [ReadThread -> ReaderType]
      /\ reader[t] \in ReaderType /\ pos \in 0 .. Size - 1
      /\ AskedAt(t) \in Int
  BY ReadParts DEF ReadInv, ReadTypes
<1>2. AskedAt(t)' = AskedAt(t) /\ AskedLen(t)' = AskedLen(t)
  BY AskedKept, ThreadIs DEF Read
<1>3. PICK a \in Int : a = AskedAt(t)
  BY <1>1
<1>4. PICK l \in Nat : l = reader[t].left
  BY <1>1 DEF ReaderType
<1>5. PICK old \in Seq(Word) : old = reader[t].data
  BY <1>1 DEF ReaderType
<1>6. PICK k \in Nat : k = Len(old)
  OBVIOUS
<1>7. /\ reader[t].step = "read" /\ reader[t] # NoRead /\ dramMutex = t
      /\ reader[t].at = a % Size /\ k + l = AskedLen(t)
      /\ ~failed => ReadExact(t) /\ pos = (a + k) % Size
  BY <1>1, <1>3, <1>4, <1>5, <1>6 DEF Read, ReaderInv, NoRead
<1>8. CASE l = 0
  <2>1. reader'[t] = [reader[t] EXCEPT !.step = "idle"] /\ dramMutex' = "free"
        /\ failed' = failed
    BY <1>1, <1>4, <1>8 DEF Read
  <2>2. /\ reader'[t].step = "idle" /\ reader'[t].at = a % Size
        /\ reader'[t].left = 0 /\ reader'[t].data = old
    BY <1>1, <1>4, <1>5, <1>7, <1>8, <2>1 DEF ReaderType
  <2>3. dramMutex' # t
    BY <2>1, ThreadIs
  <2>4. ~failed => ReadExact(t)'
    BY <1>2, <1>5, <1>7, <2>2 DEF ReadExact
  <2>5. QED BY <1>2, <1>3, <1>6, <1>7, <1>8, <2>1, <2>2, <2>3, <2>4 DEF ReaderInv
<1>9. CASE l # 0
  <2>1. PICK n \in Nat : n = Clip(l) /\ n <= l /\ pos + n <= Size
    <3>1. Clip(l) \in 1 .. l /\ pos + Clip(l) <= Size
      BY <1>1, <1>9, ClipBounds
    <3>2. QED BY <3>1
  <2>2. PICK d : d = [i \in 1 .. n |-> pos + i - 1]
    OBVIOUS
  <2>3. PICK f : f = [i \in 1 .. l |-> Stale]
    OBVIOUS
  <2>4. d \in Seq(Word) /\ Len(d) = n /\ f \in Seq(Word) /\ Len(f) = l
    <3>1. \A i \in 1 .. n : pos + i - 1 \in Word
      BY <1>1, <2>1, Sizes DEF Word
    <3>2. d \in [1 .. n -> Word] /\ f \in [1 .. l -> Word]
      BY <2>2, <2>3, <3>1 DEF Word
    <3>3. QED BY <3>2, FunctionSeq
  <2>5. /\ Len(old \o d) = k + n /\ Len(old \o f) = k + l
    BY <1>6, <2>4, ConcatProperties
  <2>6. /\ dramMutex' = t
        /\ \/ /\ reader'[t] = [reader[t] EXCEPT !.data = old \o d, !.left = l - n]
              /\ pos' = NextPos(n) /\ failed' = failed
           \/ /\ reader'[t] = [reader[t] EXCEPT !.data = old \o f, !.left = 0]
              /\ failed'
    BY <1>1, <1>4, <1>5, <1>7, <1>9, <2>1, <2>2, <2>3 DEF Read
  <2>7. CASE /\ reader'[t] = [reader[t] EXCEPT !.data = old \o d, !.left = l - n]
             /\ pos' = NextPos(n) /\ failed' = failed
    <3>1. /\ reader'[t].step = "read" /\ reader'[t].at = a % Size
          /\ reader'[t].left = l - n /\ reader'[t].data = old \o d
      BY <1>1, <1>7, <2>7 DEF ReaderType
    <3>2. ASSUME ~failed
          PROVE  ReadExact(t)' /\ pos' = (a + (k + n)) % Size
      <4>1. /\ \A i \in 1 .. n : pos + i - 1 = (a + ((k + i) - 1)) % Size
            /\ NextPos(n) = (a + (k + n)) % Size
        BY <1>1, <1>7, <2>1, <3>2, NextWords
      <4>2. \A i \in 1 .. Len(d) : d[i] = (a + ((Len(old) + i) - 1)) % Size
        BY <1>6, <2>2, <2>4, <4>1
      <4>3. \A i \in 1 .. Len(old) : old[i] = (a + (i - 1)) % Size
        BY <1>3, <1>5, <1>7, <3>2 DEF ReadExact
      <4>4. \A i \in 1 .. Len(old \o d) : (old \o d)[i] = (a + (i - 1)) % Size
        BY <2>4, <4>2, <4>3, MoreWords
      <4>5. QED BY <1>2, <1>3, <2>7, <3>1, <4>1, <4>4 DEF ReadExact
    <3>3. (k + n) + (l - n) = AskedLen(t)
      BY <1>7
    <3>4. QED
      BY <1>2, <1>3, <2>5, <2>6, <2>7, <3>1, <3>2, <3>3 DEF ReaderInv
  <2>8. CASE /\ reader'[t] = [reader[t] EXCEPT !.data = old \o f, !.left = 0]
             /\ failed'
    <3>1. /\ reader'[t].step = "read" /\ reader'[t].at = a % Size
          /\ reader'[t].left = 0 /\ reader'[t].data = old \o f
      BY <1>1, <1>7, <2>8 DEF ReaderType
    <3>2. QED BY <1>2, <1>3, <1>7, <2>5, <2>6, <2>8, <3>1 DEF ReaderInv
  <2>9. QED BY <2>6, <2>7, <2>8
<1>10. QED BY <1>8, <1>9

LEMMA ReadersKept ==
  ASSUME ReadInv, [ReadNext]_streamVars
  PROVE  \A t \in ReadThread : ReaderInv(t)'
<1>1. ReadTypes /\ (\A t \in ReadThread : ReaderInv(t)) /\ StreamInv
      /\ reader \in [ReadThread -> ReaderType]
      /\ "stream" \in ReadThread /\ "wave" \in ReadThread
  BY DEF ReadInv, ReadTypes, ReadThread
<1>2. SUFFICES ReaderInv("stream")' /\ ReaderInv("wave")'
  BY ThreadIs
<1>3. \A t \in ReadThread : reader[t].step # "read" => dramMutex # t
  BY <1>1 DEF ReaderInv
<1>4. CASE StartCommand \/ WriteInfo
  <2>1. reader["stream"] = NoRead
    BY <1>1, <1>4 DEF StreamInv, StartCommand, WriteInfo
  <2>2. UNCHANGED <<request, capture, waves, reader, dramMutex, failed, pos>>
    BY <1>4 DEF StartCommand, WriteInfo
  <2>3. QED BY <1>1, <2>1, <2>2, ReaderKept, AskedKept
<1>5. CASE ReadChunk
  <2>1. UNCHANGED <<request, capture, waves, dramMutex, failed, pos>>
    BY <1>5 DEF ReadChunk
  <2>2. stream'.offset = stream.offset /\ stream'.left = stream.left
    BY <1>1, <1>5 DEF ReadChunk, ReadTypes, StreamType
  <2>3. AskedAt("stream")' = stream.offset /\ AskedLen("stream")' = ReadSamples + Bunches
    BY <2>1, <2>2, AskedKept DEF AskedAt, AskedLen
  <2>4. CASE stream.left = 0
    <3>1. reader' = reader
      BY <1>5, <2>4 DEF ReadChunk
    <3>2. QED BY <1>1, <2>1, <2>2, <3>1, ReaderKept, AskedKept
  <2>5. CASE stream.left # 0
    <3>1. stream.offset \in Int /\ ReadSamples + Bunches \in Nat
      BY <1>1, ReadParts, Sizes
    <3>2. CallRead("stream", stream.offset, ReadSamples + Bunches)
      BY <1>5, <2>5 DEF ReadChunk
    <3>3. /\ reader'["stream"] = [step |-> "lock", at |-> stream.offset % Size,
                                  left |-> ReadSamples + Bunches, data |-> <<>>]
          /\ reader'["wave"] = reader["wave"]
      BY <1>1, <3>1, <3>2, NewRead
    <3>4. dramMutex' # "stream"
      BY <1>1, <1>3, <1>5, <2>1 DEF ReadChunk, NoRead
    <3>5. ReaderInv("stream")'
      BY <2>3, <3>1, <3>3, <3>4, ReaderCalled
    <3>6. ReaderInv("wave")'
      BY <1>1, <2>1, <3>3, ReaderKept, AskedKept
    <3>7. QED BY <3>5, <3>6
  <2>6. QED BY <2>4, <2>5
<1>6. CASE SendBlock
  <2>1. UNCHANGED <<request, capture, waves, dramMutex, failed, pos>>
    BY <1>6 DEF SendBlock
  <2>2. dramMutex' # "stream"
    BY <1>1, <1>3, <1>6, <2>1 DEF SendBlock, Arrived
  <2>3. CASE reader' = [reader EXCEPT !["stream"] = NoRead]
    <3>1. reader'["stream"] = NoRead /\ reader'["wave"] = reader["wave"]
      BY <1>1, <2>3
    <3>2. ReaderInv("stream")'
      BY <2>2, <3>1, ReaderFree
    <3>3. QED BY <1>1, <2>1, <3>1, <3>2, ReaderKept, AskedKept
  <2>4. CASE reader' = reader /\ \E n : stream' = [stream EXCEPT !.pos = @ + n]
    <3>1. stream'.offset = stream.offset /\ stream'.left = stream.left
      BY <1>1, <2>4 DEF ReadTypes, StreamType
    <3>2. QED BY <1>1, <2>1, <2>4, <3>1, ReaderKept, AskedKept
  <2>5. QED BY <1>6, <2>3, <2>4 DEF SendBlock
<1>7. CASE ReadWave
  <2>1. UNCHANGED <<request, capture, stream, dramMutex, failed, pos>>
    BY <1>7 DEF ReadWave
  <2>2. PICK o \in Int :
          /\ waves' = [offset |-> o, wf |-> <<>>]
          /\ CallRead("wave", capture.origin + o * Bunches, WaveLength + Bunches)
    BY <1>7, MemoryReadAssumption DEF ReadWave
  <2>3. capture.origin + o * Bunches \in Int /\ WaveLength + Bunches \in Nat
    BY <1>1, ReadParts, Sizes, Products
  <2>4. /\ reader'["wave"] = [step |-> "lock",
                              at |-> (capture.origin + o * Bunches) % Size,
                              left |-> WaveLength + Bunches, data |-> <<>>]
        /\ reader'["stream"] = reader["stream"]
    BY <1>1, <2>2, <2>3, NewRead
  <2>5. dramMutex' # "wave"
    BY <1>1, <1>3, <1>7, <2>1 DEF ReadWave, NoRead
  <2>6. AskedAt("wave")' = capture.origin + o * Bunches
        /\ AskedLen("wave")' = WaveLength + Bunches
    BY <2>1, <2>2 DEF AskedAt, AskedLen
  <2>7. ReaderInv("wave")'
    BY <2>3, <2>4, <2>5, <2>6, ReaderCalled
  <2>8. AskedAt("stream")' = AskedAt("stream") /\ AskedLen("stream")' = AskedLen("stream")
    BY <2>1 DEF AskedAt, AskedLen, ReadSamples, ReadBufferSize
  <2>9. ReaderInv("stream")'
    BY <1>1, <2>1, <2>4, <2>8, ReaderKept
  <2>10. QED BY <2>7, <2>9
<1>8. CASE ShowWave
  <2>1. UNCHANGED <<request, capture, stream, dramMutex, failed, pos>>
    BY <1>8 DEF ShowWave
  <2>2. reader'["wave"] = NoRead /\ reader'["stream"] = reader["stream"]
    BY <1>1, <1>8 DEF ShowWave
  <2>3. dramMutex' # "wave"
    BY <1>1, <1>3, <1>8, <2>1 DEF ShowWave, Arrived
  <2>4. ReaderInv("wave")'
    BY <2>2, <2>3, ReaderFree
  <2>5. AskedAt("stream")' = AskedAt("stream") /\ AskedLen("stream")' = AskedLen("stream")
    BY <2>1 DEF AskedAt, AskedLen, ReadSamples, ReadBufferSize
  <2>6. ReaderInv("stream")'
    BY <1>1, <2>1, <2>2, <2>5, ReaderKept
  <2>7. QED BY <2>4, <2>6
<1>9. ASSUME NEW t \in ReadThread, LockAndSeek(t) \/ Read(t)
      PROVE  ReaderInv("stream")' /\ ReaderInv("wave")'
  <2>1. ReaderInv(t)'
    BY <1>9, LockedExact, ReadKeeps
  <2>2. ASSUME NEW u \in ReadThread, u # t PROVE ReaderInv(u)'
    <3>1. UNCHANGED <<request, capture, waves, stream>> /\ (failed => failed')
      BY <1>9 DEF LockAndSeek, Read
    <3>2. reader'[u] = reader[u]
      BY <1>1, <1>9, <2>2 DEF LockAndSeek, Read
    <3>3. dramMutex' # u
      BY <1>1, <1>9, <2>2, ThreadIs DEF LockAndSeek, Read, ReaderInv
    <3>4. reader[u].step # "read" /\ dramMutex # u
      BY <1>1, <1>9, <2>2, ThreadIs DEF LockAndSeek, Read, ReaderInv
    <3>5. AskedAt(u)' = AskedAt(u) /\ AskedLen(u)' = AskedLen(u)
      BY <3>1, AskedKept, ThreadIs
    <3>6. QED BY <1>1, <3>1, <3>2, <3>3, <3>4, <3>5, ReaderKept
  <2>3. QED BY <1>1, <2>1, <2>2
<1>10. CASE UNCHANGED streamVars
  <2>1. UNCHANGED <<request, capture, waves, stream, reader, dramMutex, failed, pos>>
    BY <1>10 DEF streamVars
  <2>2. QED BY <1>1, <2>1, ReaderKept, AskedKept
<1>11. QED
  BY <1>4, <1>5, <1>6, <1>7, <1>8, <1>9, <1>10 DEF ReadNext, Stream
(***************************************************************************)
(* The stream of values.                                                   *)
(***************************************************************************)
\* The samples of the whole request.
Samples(r) == r.count * (IF r.bunch >= 0 THEN 1 ELSE Bunches)

LEMMA SamplesOf ==
  ASSUME NEW r, Sensible(r)
  PROVE  /\ Samples(r) \in Nat /\ AllWords(r) = Samples(r) * Unit(r)
         /\ Total(r) = Samples(r) * Len(Channels(r))
         /\ Header(r).samples * Header(r).channels = Total(r)
<1>1. PICK c \in Nat, d \in Nat \ {0}, b \in Nat \ {0} :
        c = r.count /\ d = r.decimation /\ b = Bunches
  BY Sizes DEF Sensible, RequestType
<1>2. PICK n \in Nat : n = Len(Channels(r))
  <2>1. PICK i \in {1, 2} : i = Len(Channels(r))
    BY ChannelsOf
  <2>2. QED BY <2>1
<1>3. CASE r.bunch >= 0
  <2>1. d = 1 /\ Unit(r) = b /\ Samples(r) = c * 1 /\ Total(r) = n * c * 1
        /\ AllWords(r) = c * b * d /\ Header(r).samples = c
    BY <1>1, <1>2, <1>3
       DEF Sensible, RequestType, Unit, Samples, Total, AllWords, Header
  <2>2. c * 1 = c /\ n * c \in Int /\ (n * c) * 1 = n * c /\ n * c = c * n
        /\ c * b \in Int /\ (c * b) * 1 = c * b
    BY Products
  <2>3. Header(r).channels = n
    BY <1>2 DEF Header
  <2>4. QED BY <1>1, <1>2, <2>1, <2>2, <2>3
<1>4. CASE ~(r.bunch >= 0)
  <2>1. Unit(r) = d /\ Samples(r) = c * b /\ Total(r) = n * c * b
        /\ AllWords(r) = c * b * d /\ Header(r).samples = c * b
    BY <1>1, <1>2, <1>4 DEF Unit, Samples, Total, AllWords, Header
  <2>2. PICK p \in Nat : p = c * b
    BY SMT
  <2>3. (n * c) * b = n * (c * b) /\ n * p = p * n
    BY <2>2, Products
  <2>4. Header(r).channels = n
    BY <1>2 DEF Header
  <2>5. QED BY <1>1, <1>2, <2>1, <2>2, <2>3, <2>4
<1>5. QED BY <1>3, <1>4

\* Nothing is sent, and no chunk is begun or ended.
LEMMA StreamKept ==
  ASSUME StreamInv, UNCHANGED <<request, capture, stream, values, header>>,
         failed => failed', stream.phase # "write" => reader'["stream"] = NoRead
  PROVE  StreamInv'
<1>1. Done' = Done /\ ReadSamples' = ReadSamples /\ Early' = Early
  BY DEF Done, ReadSamples, ReadBufferSize, Early, AllWords
<1>2. \A s : Sent(s) => Sent(s)'
  <2>1. \A j : Wanted(request, j)' = Wanted(request, j)
    BY DEF Wanted, Channels
  <2>2. Item(request)' = Item(request) /\ Len(Channels(request))' = Len(Channels(request))
    BY DEF Item, Channels, Word
  <2>3. QED BY <2>1, <2>2 DEF Sent
<1>3. /\ Grain(request)' = Grain(request) /\ Unit(request)' = Unit(request)
      /\ Header(request)' = Header(request)
  BY DEF Grain, Unit, Header, Channels
<1>4. QED BY <1>1, <1>2, <1>3 DEF StreamInv

LEMMA DifferenceIs ==
  ASSUME NEW g \in Nat \ {0}, NEW a \in Nat, NEW b \in Nat, a * g <= b * g
  PROVE  \E m \in Nat : b * g - a * g = m * g
<1>1. b - a \in Nat
  BY Order
<1>2. (b - a) * g = b * g - a * g
  BY Products
<1>3. QED BY <1>1, <1>2

LEMMA SumIs ==
  ASSUME NEW g \in Nat \ {0}, NEW a \in Nat, NEW b \in Nat
  PROVE  \E m \in Nat : a * g + b * g = m * g
<1>1. (a + b) * g = a * g + b * g /\ a + b \in Nat
  BY Products
<1>2. QED BY <1>1

\* Chunks consist of whole grains.
LEMMA ChunkGrains ==
  ASSUME ReadTypes, StreamInv, ~Early
  PROVE  \E m \in Nat : ReadSamples = m * Grain(request)
<1>1. PICK a \in Nat : stream.left = a * Grain(request)
  BY DEF StreamInv
<1>2. PICK b \in Nat : ReadBufferSize(request) = b * Grain(request)
  BY ReadParts, ReadBufferIs
<1>3. QED BY <1>1, <1>2 DEF ReadSamples, Least

LEMMA ChunkReady ==
  ASSUME ReadInv, stream.phase = "write", Arrived("stream")
  PROVE  /\ ChunkInHand(request, Done, ReadSamples)
         /\ ~failed => ChunkExact(ReadSamples)
<1>1. /\ ReadTypes /\ StreamInv /\ ~Early /\ ReaderInv("stream")
      /\ "stream" \in ReadThread
  BY DEF ReadInv, ReadThread, Early
<1>2. reader["stream"] # NoRead
  BY DEF Arrived, NoRead
<1>3. reader["stream"].data \in Seq(Word) /\ reader["stream"].left = 0
  BY <1>1, ReadParts DEF ReaderInv, Arrived, ReaderType
<1>4. Len(reader["stream"].data) = ReadSamples + Bunches
  BY <1>1, <1>2, <1>3 DEF ReaderInv, AskedLen
<1>5. ChunkInHand(request, Done, ReadSamples)
  BY <1>1, <1>3, <1>4, ReadParts, ChunkGrains
     DEF ChunkInHand, StreamInv, ReadTypes
<1>6. ASSUME ~failed PROVE ChunkExact(ReadSamples)
  <2>1. PICK a \in Int : a = stream.offset /\ a = AskedAt("stream")
    BY <1>1, ReadParts DEF AskedAt
  <2>2. \A x \in 1 .. ReadSamples + Bunches :
          reader["stream"].data[x] = (a + (x - 1)) % Size
    BY <1>1, <1>4, <1>6, <2>1 DEF ReaderInv, ReadExact
  <2>3. \A x \in 1 .. ReadSamples + Bunches : a + (x - 1) = a + x - 1
    BY <1>1, ReadParts, Sizes
  <2>4. QED BY <2>1, <2>2, <2>3 DEF ChunkExact
<1>7. QED BY <1>5, <1>6

\* The samples that a block adds to those that have been sent.
LEMMA BlockSent ==
  ASSUME ReadInv, SendBlock, NEW n, NEW m \in Nat, n = m * Grain(request),
         stream.pos + n <= ReadSamples,
         values' = values \o Convert(request, stream.pos, n)
  PROVE  \E s \in Nat : Done + (stream.pos + n) = s * Unit(request) /\ Sent(s)'
<1>1. ReadTypes /\ StreamInv /\ stream.phase = "write" /\ Arrived("stream") /\ ~Early
  BY DEF ReadInv, SendBlock, Early
<1>2. UNCHANGED <<request, capture, failed>>
  BY DEF SendBlock
<1>3. Sensible(request)
  BY <1>1, ReadParts
<1>4. ChunkInHand(request, Done, ReadSamples) /\ (~failed => ChunkExact(ReadSamples))
  BY <1>1, ChunkReady
<1>5. PICK p \in Nat : stream.pos = p * Grain(request)
  BY <1>1 DEF StreamInv
<1>6. PICK s \in Nat : Done + stream.pos = s * Unit(request) /\ Sent(s)
  BY <1>1 DEF StreamInv
<1>7. PICK c : c = Convert(request, stream.pos, n)
  OBVIOUS
<1>8. BlockIn(request, Done, ReadSamples, stream.pos, n, s)
  BY <1>4, <1>5, <1>6 DEF BlockIn
<1>9. /\ c \in Seq(Item(request))
      /\ \E b \in Nat : n = b * Unit(request) /\ Len(c) = b * Len(Channels(request))
      /\ ChunkExact(ReadSamples) =>
           \A k \in 1 .. Len(c) :
             c[k] = Wanted(request, s * Len(Channels(request)) + k - 1)
  BY <1>7, <1>8, BlockExact, SMTT(30)
<1>10. PICK per \in Nat : per = Len(Channels(request))
  <2>1. PICK i \in {1, 2} : i = Len(Channels(request))
    BY <1>3, ChannelsOf
  <2>2. QED BY <2>1
<1>11. PICK u \in Nat \ {0} : u = Unit(request)
  BY <1>3, Grains
<1>12. PICK l \in Nat : l = s * per
  BY SMT
<1>13. PICK b \in Nat : n = b * u /\ Len(c) = b * per
  BY <1>9, <1>10, <1>11
<1>14. PICK lc \in Nat : lc = Len(c)
  BY <1>9
<1>15. values \in Seq(Item(request)) /\ Len(values) = l
  BY <1>6, <1>10, <1>12 DEF Sent
<1>16. /\ values \o c \in Seq(Item(request)) /\ Len(values \o c) = l + lc
       /\ \A j \in 1 .. l + lc :
            (values \o c)[j] = IF j <= l THEN values[j] ELSE c[j - l]
  BY <1>9, <1>15, <1>14, ConcatProperties
<1>17. ASSUME ~failed, NEW j \in 1 .. l + lc
       PROVE  (values \o c)[j] = Wanted(request, j - 1)
  <2>1. CASE j <= l
    BY <1>6, <1>15, <1>16, <1>17, <2>1 DEF Sent
  <2>2. CASE j > l
    <3>1. j - l \in 1 .. lc /\ l + (j - l) - 1 = j - 1
      BY <2>2, <1>17
    <3>2. c[j - l] = Wanted(request, l + (j - l) - 1)
      BY <1>4, <1>9, <1>10, <1>12, <1>17, <1>14, <3>1
    <3>3. QED BY <1>16, <2>2, <3>1, <3>2
  <2>3. j <= l \/ j > l
    BY <1>17
  <2>4. QED BY <2>1, <2>2, <2>3
<1>18. (s + b) * per = l + lc /\ (s + b) * u = s * u + b * u
       /\ s * u \in Int /\ b * u \in Int
  BY <1>12, <1>13, <1>14, Products
<1>19. Sent(s + b)'
  <2>1. \A j : Wanted(request, j)' = Wanted(request, j)
    BY <1>2 DEF Wanted, Channels
  <2>2. Item(request)' = Item(request) /\ Len(Channels(request))' = per
    BY <1>2, <1>10 DEF Item, Channels, Word
  <2>3. values' = values \o c
    BY <1>7
  <2>4. Len(values') = (s + b) * per /\ values' \in Seq(Item(request))
    BY <1>16, <1>18, <2>3
  <2>5. ASSUME ~failed' PROVE \A j \in 1 .. Len(values') : values'[j] = Wanted(request, j - 1)
    BY <1>2, <1>16, <1>17, <2>3, <2>5
  <2>6. QED BY <2>1, <2>2, <2>4, <2>5 DEF Sent
<1>20. Done + (stream.pos + n) = (s + b) * u
  <2>1. PICK x \in Int, y \in Int : x = s * u /\ y = b * u
    BY <1>18
  <2>2. PICK d \in Int, t \in Int : d = Done /\ t = stream.pos
    BY <1>1, ReadParts DEF Done
  <2>3. d + t = x /\ n = y /\ (s + b) * u = x + y
    BY <1>6, <1>11, <1>18, <1>13, <2>1, <2>2
  <2>4. d + (t + y) = x + y
    BY <2>3
  <2>5. QED BY <2>2, <2>3, <2>4
<1>21. s + b \in Nat
  OBVIOUS
<1>22. QED BY <1>11, <1>19, <1>20, <1>21
LEMMA StreamInvKept ==
  ASSUME ReadInv, [ReadNext]_streamVars
  PROVE  StreamInv'
<1>1. /\ ReadTypes /\ (\A t \in ReadThread : ReaderInv(t)) /\ StreamInv
      /\ reader \in [ReadThread -> ReaderType] /\ stream \in StreamType
      /\ "stream" \in ReadThread
  BY DEF ReadInv, ReadTypes, ReadThread
<1>2. CASE StartCommand
  <2>1. /\ UNCHANGED <<values, header, reader>> /\ Early /\ Early'
        /\ stream'.pos = stream.pos /\ stream'.turn = stream.turn
        /\ stream'.phase \in {"info", "refused"} /\ stream.phase = "parse"
    BY <1>1, <1>2 DEF StartCommand, StreamType, Early
  <2>2. QED BY <1>1, <2>1 DEF StreamInv
<1>3. CASE WriteInfo
  <2>1. /\ UNCHANGED <<request, capture, values, reader, failed>>
        /\ stream.phase = "info" /\ Early
        /\ stream'.phase = "read" /\ stream'.pos = 0 /\ stream'.turn = 0
        /\ stream'.left = AllWords(request)
        /\ stream'.offset = capture.origin + request.offset * Bunches
        /\ header' = Header(request) /\ values = <<>>
        /\ reader["stream"] = NoRead
    BY <1>1, <1>3 DEF WriteInfo, StreamType, StreamInv, Early, AllWords
  <2>2. /\ AllWords(request)' = AllWords(request) /\ Grain(request)' = Grain(request)
        /\ Unit(request)' = Unit(request) /\ Header(request)' = Header(request)
    BY <2>1 DEF AllWords, Grain, Unit, Header, Channels
  <2>3. Done' = 0
    <3>1. AllWords(request) \in Nat
      BY <1>1, ReadParts
    <3>2. QED BY <2>1, <2>2, <3>1 DEF Done
  <2>4. /\ Grain(request) \in Nat \ {0} /\ Unit(request) \in Nat \ {0}
        /\ \E m \in Nat : AllWords(request) = m * Grain(request)
    BY <1>1, ReadParts, Grains
  <2>5. 0 = 0 * Grain(request) /\ 0 = 0 * Unit(request) /\ 0 * Bunches = 0
    BY <2>4, Sizes, Products
  <2>6. Sent(0)'
    <3>1. Len(Channels(request)) \in Nat
      <4>1. PICK i \in {1, 2} : i = Len(Channels(request))
        BY <1>1, ReadParts, ChannelsOf
      <4>2. QED BY <4>1
    <3>2. Len(Channels(request))' = Len(Channels(request))
      BY <2>1 DEF Channels
    <3>3. values' = <<>>
      BY <2>1
    <3>4. 0 * Len(Channels(request)) = 0
      BY <3>1, Products
    <3>5. QED BY <3>2, <3>3, <3>4 DEF Sent
  <2>7. capture.origin + request.offset * Bunches + 0
          = capture.origin + request.offset * Bunches
    <3>1. capture.origin + request.offset * Bunches \in Int
      BY <1>1, ReadParts, Sizes, Products
    <3>2. QED BY <3>1
  <2>8. ~Early' /\ stream'.phase # "write" /\ stream'.phase # "done"
    BY <2>1 DEF Early
  <2>9. \E s \in Nat : Done' + stream'.pos = s * Unit(request)' /\ Sent(s)'
    BY <2>1, <2>2, <2>3, <2>5, <2>6
  <2>10. \E m \in Nat : Done' = m * Grain(request)'
    BY <2>2, <2>3, <2>5
  <2>11. \E m \in Nat : stream'.pos = m * Grain(request)'
    BY <2>1, <2>2, <2>5
  <2>12. stream'.turn * Bunches = Done'
    BY <2>1, <2>3, <2>5
  <2>13. stream'.offset = capture'.origin + request'.offset * Bunches + Done'
    BY <2>1, <2>3, <2>7
  <2>14. \E m \in Nat : stream'.left = m * Grain(request)'
    BY <2>1, <2>2, <2>4
  <2>15. header' = Header(request)' /\ reader'["stream"] = NoRead
    BY <2>1, <2>2
  <2>16. QED
    BY <2>1, <2>8, <2>9, <2>10, <2>11, <2>12, <2>13, <2>14, <2>15 DEF StreamInv
<1>4. CASE ReadChunk
  <2>1. /\ UNCHANGED <<request, capture, values, header, failed>>
        /\ stream.phase = "read" /\ reader["stream"] = NoRead /\ stream.pos = 0
        /\ stream'.left = stream.left /\ stream'.offset = stream.offset
        /\ stream'.turn = stream.turn /\ stream'.pos = 0
        /\ \/ stream'.phase = "done" /\ stream.left = 0 /\ reader' = reader
           \/ stream'.phase = "write"
    BY <1>1, <1>4 DEF ReadChunk, StreamType, StreamInv
  <2>2. ~Early /\ ~Early'
    BY <2>1 DEF Early
  <2>3. Done' = Done /\ ReadSamples' = ReadSamples
    BY <2>1 DEF Done, ReadSamples, ReadBufferSize, AllWords
  <2>4. \A s : Sent(s) => Sent(s)'
    <3>1. \A j : Wanted(request, j)' = Wanted(request, j)
      BY <2>1 DEF Wanted, Channels
    <3>2. Item(request)' = Item(request) /\ Len(Channels(request))' = Len(Channels(request))
      BY <2>1 DEF Item, Channels, Word
    <3>3. QED BY <2>1, <3>1, <3>2 DEF Sent
  <2>5. /\ Grain(request)' = Grain(request) /\ Unit(request)' = Unit(request)
        /\ Header(request)' = Header(request)
    BY <2>1 DEF Grain, Unit, Header, Channels
  <2>6. ReadSamples \in Nat
    BY <1>1, ReadParts
  <2>7. QED BY <1>1, <2>1, <2>2, <2>3, <2>4, <2>5, <2>6 DEF StreamInv
<1>5. CASE SendBlock
  <2>1. UNCHANGED <<request, capture, header, failed>> /\ stream.phase = "write"
        /\ ~Early
    BY <1>5 DEF SendBlock, Early
  <2>2. PICK g \in Nat \ {0}, c \in Nat, left \in Nat, at \in Nat, done \in Int :
          /\ g = Grain(request) /\ c = ReadSamples /\ left = stream.left
          /\ at = stream.pos /\ done = Done
    <3>1. Grain(request) \in Nat \ {0}
      BY <1>1, ReadParts, Grains
    <3>2. ReadSamples \in Nat /\ stream.left \in Nat /\ stream.pos \in Nat
      BY <1>1, ReadParts
    <3>3. Done \in Int
      BY <1>1, ReadParts DEF Done
    <3>4. QED BY <3>1, <3>2, <3>3
  <2>3. c <= left /\ at <= c
    BY <1>1, <2>1, <2>2, ReadParts DEF StreamInv
  <2>4. PICK cg \in Nat, lg \in Nat, ag \in Nat, dg \in Nat, bg \in Nat :
          /\ c = cg * g /\ left = lg * g /\ at = ag * g /\ done = dg * g
          /\ BlockWords(request) = bg * g
    <3>1. PICK cg \in Nat : c = cg * g
      BY <1>1, <2>1, <2>2, ChunkGrains
    <3>2. PICK bg \in Nat : BlockWords(request) = bg * g
      BY <1>1, <2>2, ReadParts, BlockSize
    <3>3. PICK lg \in Nat, ag \in Nat, dg \in Nat :
            left = lg * g /\ at = ag * g /\ done = dg * g
      BY <1>1, <2>1, <2>2 DEF StreamInv
    <3>4. QED BY <3>1, <3>2, <3>3
  <2>5. PICK n : n = Least(ReadSamples - stream.pos, BlockWords(request))
    OBVIOUS
  <2>6. PICK ng \in Nat : n = ng * g
    <3>1. \E m \in Nat : c - at = m * g
      <4>1. ag * g <= cg * g
        BY <2>3, <2>4
      <4>2. \E m \in Nat : cg * g - ag * g = m * g
        BY <4>1, DifferenceIs
      <4>3. QED BY <2>4, <4>2
    <3>2. n = c - at \/ n = bg * g
      BY <2>2, <2>4, <2>5 DEF Least
    <3>3. QED BY <3>1, <3>2
  <2>7. n \in Nat /\ at + n <= c
    <3>1. ng * g \in Nat /\ bg * g \in Nat
      BY SMT
    <3>2. PICK b \in Nat : b = BlockWords(request)
      BY <2>4, <3>1
    <3>3. n = IF c - at <= b THEN c - at ELSE b
      BY <2>2, <2>5, <3>2 DEF Least
    <3>4. QED BY <2>3, <3>2, <3>3
  <2>8. values' = values \o Convert(request, stream.pos, n)
    BY <1>5, <2>5 DEF SendBlock
  <2>9. PICK s \in Nat : Done + (stream.pos + n) = s * Unit(request) /\ Sent(s)'
    BY <1>5, <2>2, <2>6, <2>7, <2>8, BlockSent
  <2>10. /\ Grain(request)' = g /\ Unit(request)' = Unit(request)
         /\ Header(request)' = Header(request) /\ AllWords(request)' = AllWords(request)
    BY <2>1, <2>2 DEF Grain, Unit, Header, Channels, AllWords
  <2>11. /\ header = Header(request)
         /\ stream.offset = capture.origin + request.offset * Bunches + Done
         /\ request.format # "int16" => stream.turn * Bunches = Done
    BY <1>1, <2>1 DEF StreamInv
  <2>12. CASE at + n = c
    <3>1. stream' = [stream EXCEPT !.phase = "read", !.pos = 0,
                       !.offset = @ + ReadSamples, !.left = @ - ReadSamples,
                       !.turn = @ + ReadSamples \div Bunches]
          /\ reader' = [reader EXCEPT !["stream"] = NoRead]
      BY <1>5, <2>2, <2>5, <2>12 DEF SendBlock
    <3>2. /\ stream'.phase = "read" /\ stream'.pos = 0
          /\ stream'.offset = stream.offset + c /\ stream'.left = left - c
          /\ stream'.turn = stream.turn + (c \div Bunches)
          /\ reader'["stream"] = NoRead
      BY <1>1, <2>2, <3>1 DEF StreamType
    <3>3. ~Early'
      BY <3>2 DEF Early
    <3>4. Done' = done + c
      <4>1. PICK w \in Int : w = AllWords(request)
        BY <1>1, ReadParts
      <4>2. done = w - left /\ Done' = w - (left - c)
        BY <2>2, <2>10, <3>2, <4>1 DEF Done
      <4>3. QED BY <4>2
    <3>5. PICK m \in Nat : done + c = m * g
      <4>1. PICK m \in Nat : dg * g + cg * g = m * g
        BY SumIs
      <4>2. QED BY <2>4, <4>1
    <3>6. PICK k \in Nat : left - c = k * g
      <4>1. cg * g <= lg * g
        BY <2>3, <2>4
      <4>2. PICK k \in Nat : lg * g - cg * g = k * g
        BY <4>1, DifferenceIs
      <4>3. QED BY <2>4, <4>2
    <3>7. \E q \in Nat : Done' + stream'.pos = q * Unit(request)' /\ Sent(q)'
      <4>1. Done' + 0 = Done + (stream.pos + n)
        BY <2>2, <2>7, <2>12, <3>4
      <4>2. QED BY <2>9, <2>10, <3>2, <4>1
    <3>8. stream'.offset = capture'.origin + request'.offset * Bunches + Done'
      <4>1. PICK a \in Int : a = capture.origin + request.offset * Bunches
        BY <1>1, ReadParts, Sizes, Products
      <4>2. (a + done) + c = a + (done + c)
        OBVIOUS
      <4>3. stream.offset = a + done
        BY <2>2, <2>11, <4>1
      <4>4. stream'.offset = a + (done + c)
        BY <3>2, <4>2, <4>3
      <4>5. capture'.origin + request'.offset * Bunches = a
        BY <2>1, <4>1
      <4>6. QED BY <3>4, <4>4, <4>5
    <3>9. ASSUME request.format # "int16" PROVE stream'.turn * Bunches = Done'
      <4>1. PICK b \in Nat \ {0}, d \in Nat, t \in Nat :
              b = Bunches /\ d = request.decimation /\ t = stream.turn
        BY <1>1, ReadParts, Sizes DEF Sensible, RequestType
      <4>2. g = b * d
        BY <2>2, <3>9, <4>1 DEF Grain
      <4>3. PICK y \in Nat : y = cg * d
        BY SMT
      <4>4. c = y * b
        <5>1. cg * (b * d) = (cg * d) * b
          BY SMT
        <5>2. QED BY <2>4, <4>2, <4>3, <5>1
      <4>5. c \div b = y
        BY <4>4, Multiples
      <4>6. (t + y) * b = t * b + y * b
        BY Products
      <4>7. t * b = done
        BY <2>2, <2>11, <3>9, <4>1
      <4>8. stream'.turn = t + y
        BY <3>2, <4>1, <4>5
      <4>9. stream'.turn * Bunches = done + c
        BY <4>1, <4>4, <4>6, <4>7, <4>8
      <4>10. QED BY <3>4, <4>9
    <3>10. 0 = 0 * g
      BY Products
    <3>11. /\ \E q \in Nat : Done' = q * Grain(request)'
           /\ \E q \in Nat : stream'.left = q * Grain(request)'
           /\ \E q \in Nat : stream'.pos = q * Grain(request)'
      <4>1. \E q \in Nat : Done' = q * g
        BY <3>4, <3>5
      <4>2. \E q \in Nat : stream'.left = q * g
        BY <3>2, <3>6
      <4>3. \E q \in Nat : stream'.pos = q * g
        BY <3>2, <3>10
      <4>4. QED BY <2>10, <4>1, <4>2, <4>3
    <3>12. header' = Header(request)'
      BY <2>1, <2>10, <2>11
    <3>13. QED
      BY <2>1, <3>2, <3>3, <3>7, <3>8, <3>9, <3>11, <3>12 DEF StreamInv
  <2>13. CASE at + n # c
    <3>1. stream' = [stream EXCEPT !.pos = @ + n] /\ reader' = reader
      BY <1>5, <2>2, <2>5, <2>13 DEF SendBlock
    <3>2. /\ stream'.phase = "write" /\ stream'.pos = at + n
          /\ stream'.offset = stream.offset /\ stream'.left = left
          /\ stream'.turn = stream.turn
      BY <1>1, <2>1, <2>2, <3>1 DEF StreamType
    <3>3. ~Early' /\ Done' = Done /\ ReadSamples' = ReadSamples
      BY <2>1, <2>2, <2>10, <3>2 DEF Early, Done, ReadSamples, ReadBufferSize
    <3>4. PICK m \in Nat : at + n = m * g
      <4>1. PICK m \in Nat : ag * g + ng * g = m * g
        BY SumIs
      <4>2. QED BY <2>4, <2>6, <4>1
    <3>5. \E q \in Nat : Done' + stream'.pos = q * Unit(request)' /\ Sent(q)'
      BY <2>2, <2>9, <2>10, <3>2, <3>3
    <3>6. stream'.pos <= ReadSamples'
      BY <2>2, <2>7, <3>2, <3>3
    <3>7. /\ \E q \in Nat : Done' = q * Grain(request)'
          /\ \E q \in Nat : stream'.left = q * Grain(request)'
          /\ \E q \in Nat : stream'.pos = q * Grain(request)'
      BY <2>2, <2>4, <2>10, <3>2, <3>3, <3>4
    <3>8. header' = Header(request)'
      BY <2>1, <2>10, <2>11
    <3>9. QED
      BY <2>1, <2>2, <2>11, <3>2, <3>3, <3>5, <3>6, <3>7, <3>8 DEF StreamInv
  <2>14. QED BY <2>12, <2>13
<1>6. CASE ReadWave
  <2>1. UNCHANGED <<request, capture, stream, values, header, failed>>
        /\ reader'["stream"] = reader["stream"]
    BY <1>1, <1>6 DEF ReadWave, CallRead
  <2>2. QED BY <1>1, <2>1, StreamKept DEF StreamInv
<1>7. CASE ShowWave
  <2>1. UNCHANGED <<request, capture, stream, values, header, failed>>
        /\ reader'["stream"] = reader["stream"]
    BY <1>1, <1>7 DEF ShowWave
  <2>2. QED BY <1>1, <2>1, StreamKept DEF StreamInv
<1>8. ASSUME NEW t \in ReadThread, LockAndSeek(t) \/ Read(t)
      PROVE  StreamInv'
  <2>1. UNCHANGED <<request, capture, stream, values, header>> /\ (failed => failed')
    BY <1>8 DEF LockAndSeek, Read
  <2>2. reader["stream"] = NoRead => reader'["stream"] = NoRead
    BY <1>1, <1>8 DEF LockAndSeek, Read, NoRead
  <2>3. QED BY <1>1, <2>1, <2>2, StreamKept DEF StreamInv
<1>9. CASE UNCHANGED streamVars
  <2>1. UNCHANGED <<request, capture, stream, values, header, failed, reader>>
    BY <1>9 DEF streamVars
  <2>2. QED BY <1>1, <2>1, StreamKept DEF StreamInv
<1>10. QED
  BY <1>2, <1>3, <1>4, <1>5, <1>6, <1>7, <1>8, <1>9 DEF ReadNext, Stream

LEMMA WaveKept ==
  ASSUME ReadInv, [ReadNext]_streamVars
  PROVE  WaveFaithful'
<1>1. ReadTypes /\ (\A t \in ReadThread : ReaderInv(t)) /\ WaveFaithful
      /\ "wave" \in ReadThread
  BY DEF ReadInv, ReadThread
<1>2. CASE UNCHANGED <<waves, capture>> /\ (failed => failed')
  BY <1>1, <1>2 DEF WaveFaithful
<1>3. CASE ReadWave
  BY <1>3 DEF ReadWave, WaveFaithful
<1>4. CASE ShowWave
  <2>1. UNCHANGED <<capture, failed>>
    BY <1>4 DEF ShowWave
  <2>2. PICK w : w = [i \in 1 .. WaveLength |->
                       [c \in {0, 1} |-> Extract("wave", c, i - 1)]]
    OBVIOUS
  <2>3. waves' = [waves EXCEPT !.wf = w]
    BY <1>4, <2>2 DEF ShowWave
  <2>4. waves'.wf = w /\ waves'.offset = waves.offset
    BY <1>1, <2>3 DEF ReadTypes
  <2>5. ASSUME ~failed, NEW i \in 1 .. WaveLength, NEW c \in {0, 1}
        PROVE  w[i][c] = (capture.origin + waves.offset * Bunches + i - 1
                            + capture.delay[c]) % Size
    <3>1. ReadExact("wave") /\ Arrived("wave")
      BY <1>1, <1>4, <2>5 DEF ReaderInv, ShowWave
    <3>2. QED BY <1>1, <2>2, <3>1, WaveWords
  <2>6. DOMAIN w = 1 .. WaveLength
    BY <2>2
  <2>7. QED BY <2>1, <2>4, <2>5, <2>6 DEF WaveFaithful
<1>5. CASE Stream
  BY <1>2, <1>5
     DEF Stream, StartCommand, WriteInfo, ReadChunk, SendBlock
<1>6. ASSUME NEW t \in ReadThread, LockAndSeek(t) \/ Read(t)
      PROVE  WaveFaithful'
  BY <1>2, <1>6 DEF LockAndSeek, Read
<1>7. CASE UNCHANGED streamVars
  BY <1>2, <1>7 DEF streamVars
<1>8. QED BY <1>3, <1>4, <1>5, <1>6, <1>7 DEF ReadNext

LEMMA ReadInductive == ReadSpec => []ReadInv
<1>1. ReadInit => ReadInv
  BY ReadInvInit
<1>2. ReadInv /\ [ReadNext]_streamVars => ReadInv'
  <2>1. SUFFICES ASSUME ReadInv, [ReadNext]_streamVars PROVE ReadInv'
    OBVIOUS
  <2>2. \A t \in ReadThread : ReaderInv(t)'
    BY <2>1, ReadersKept
  <2>3. QED BY <2>1, <2>2, ReadTypesKept, StreamInvKept, WaveKept DEF ReadInv
<1>3. QED BY <1>1, <1>2, PTL DEF ReadSpec

\* Offsets, lengths and buffers stay in their ranges, and a chunk fits the
\* buffer that it is read into (send_memory_data, hw_read_dram_memory).
THEOREM ReadTypeCorrect == ReadSpec => []ReadTypeOK
<1>1. ReadInv => ReadTypeOK
  <2>1. SUFFICES ASSUME ReadInv PROVE ReadTypeOK
    OBVIOUS
  <2>2. ReadTypes /\ ReaderInv("stream") /\ "stream" \in ReadThread
    BY <2>1 DEF ReadInv, ReadThread
  <2>3. ASSUME NEW t \in ReadThread
        PROVE  /\ reader[t].step \in {"idle", "lock", "read"}
               /\ reader[t].at \in 0 .. Size - 1 /\ reader[t].left \in Nat
               /\ reader[t].data \in Seq(Word)
    <3>1. reader[t] \in ReaderType
      BY <2>2, ReadParts
    <3>2. QED BY <3>1 DEF ReaderType
  <2>4. Len(reader["stream"].data) + reader["stream"].left <= ReadBuffer
    <3>1. CASE reader["stream"] = NoRead
      BY <3>1, Sizes DEF NoRead
    <3>2. CASE reader["stream"] # NoRead
      <4>1. Len(reader["stream"].data) + reader["stream"].left = ReadSamples + Bunches
        BY <2>2, <3>2 DEF ReaderInv, AskedLen
      <4>2. ReadSamples \in Nat /\ ReadSamples <= ReadBuffer - Bunches
        BY <2>2, ReadParts
      <4>3. QED BY <4>1, <4>2, Sizes
    <3>3. QED BY <3>1, <3>2
  <2>5. QED
    BY <2>2, <2>3, <2>4 DEF ReadTypes, ReadTypeOK, StreamType, Request
<1>2. QED BY <1>1, ReadInductive, PTL

\* Short of a failed read and of an error of the connection, every value that
\* is sent, and every word that is shown, is the one that was asked for, and as
\* many values are sent as were announced, whatever the sizes and the chunks,
\* blocks and transfers that follow from them, and however the two threads take
\* turns (send_memory_data, readout_memory).
THEOREM ReadIsFaithful == ReadSpec => []ReadFaithful
<1>1. ReadInv => ReadFaithful
  <2>1. SUFFICES ASSUME ReadInv PROVE StreamFaithful /\ HeaderKept
    BY DEF ReadFaithful, ReadInv
  <2>2. ReadTypes /\ StreamInv
    BY <2>1 DEF ReadInv
  <2>3. Sensible(request)
    BY <2>2, ReadParts
  <2>4. PICK per \in Nat : per = Len(Channels(request))
    <3>1. PICK i \in {1, 2} : i = Len(Channels(request))
      BY <2>3, ChannelsOf
    <3>2. QED BY <3>1
  <2>5. PICK u \in Nat \ {0}, n \in Nat :
          /\ u = Unit(request) /\ n = Samples(request)
          /\ AllWords(request) = n * u /\ Total(request) = n * per
    BY <2>3, <2>4, Grains, SamplesOf
  <2>6. CASE Early
    <3>1. Len(values) = 0 /\ stream.phase # "done"
      BY <2>2, <2>6 DEF StreamInv, Early
    <3>2. n * per \in Nat
      BY SMT
    <3>3. \A j \in DOMAIN values : FALSE
      BY <2>2, <2>6 DEF StreamInv
    <3>4. QED BY <2>5, <3>1, <3>2, <3>3 DEF StreamFaithful, HeaderKept
  <2>7. CASE ~Early
    <3>1. PICK s \in Nat : Done + stream.pos = s * u /\ Sent(s)
      BY <2>2, <2>5, <2>7 DEF StreamInv
    <3>2. PICK left \in Nat, at \in Nat :
            left = stream.left /\ at = stream.pos /\ at <= left
      BY <2>2, ReadParts DEF StreamInv
    <3>3. PICK w \in Int, x \in Int : w = n * u /\ x = s * u
      BY Products
    <3>4. (w - left) + at = x
      BY <2>5, <3>1, <3>2, <3>3 DEF Done
    <3>5. s <= n
      <4>1. s * u <= n * u
        BY <3>2, <3>3, <3>4
      <4>2. QED BY <4>1, Order
    <3>6. s * per <= n * per
      BY <3>5, Products
    <3>7. Len(values) = s * per
      BY <2>4, <3>1 DEF Sent
    <3>8. StreamFaithful
      <4>1. Len(values) <= Total(request)
        BY <2>5, <3>6, <3>7
      <4>2. DOMAIN values = 1 .. Len(values)
        BY <3>1 DEF Sent
      <4>3. QED BY <3>1, <4>1, <4>2 DEF StreamFaithful, Sent
    <3>9. ASSUME stream.phase = "done"
          PROVE  header.samples * header.channels = Len(values)
      <4>1. left = 0 /\ at = 0
        BY <2>2, <3>2, <3>9 DEF StreamInv
      <4>2. s * u = n * u
        BY <3>3, <3>4, <4>1
      <4>3. n <= s
        BY <4>2, Order
      <4>4. s = n
        BY <3>5, <4>3
      <4>5. header.samples * header.channels = Total(request)
        BY <2>2, <2>3, <2>7, SamplesOf DEF StreamInv
      <4>6. QED BY <2>5, <3>7, <4>4, <4>5
    <3>10. QED BY <3>8, <3>9 DEF HeaderKept
  <2>8. QED BY <2>6, <2>7
<1>2. QED BY <1>1, ReadInductive, PTL

-----------------------------------------------------------------------------
(***************************************************************************)
(* All three.                                                              *)
(***************************************************************************)
\* The parts are checked side by side, and every behaviour of them is one of
\* each part, or its rest: what the FIFO, the socket's stream and the waveforms
\* hold keeps its type (tune_pll_fifo.c, socket_command.c, memory.c).
THEOREM ReadoutTypesCorrect == MCSpec => []TypesOK
<1>1. MCSpec => FifoSpec
  <2>1. MCInit => FifoInit
    BY DEF MCInit
  <2>2. [MCFifo \/ MCStream \/ MCCapture]_mcVars => [FifoNext]_fifoVars
    BY DEF MCFifo, MCStream, MCCapture, mcVars, streamVars, memVars
  <2>3. QED BY <2>1, <2>2, PTL DEF MCSpec, FifoSpec
<1>2. MCSpec => ReadSpec
  <2>1. MCInit => ReadInit
    BY DEF MCInit
  <2>2. [MCFifo \/ MCStream \/ MCCapture]_mcVars => [ReadNext]_streamVars
    BY DEF MCFifo, MCStream, MCCapture, mcVars, fifoVars, memVars
  <2>3. QED BY <2>1, <2>2, PTL DEF MCSpec, ReadSpec
<1>3. MCSpec => CaptureSpec
  <2>1. MCInit => CaptureInit
    BY DEF MCInit
  <2>2. [MCFifo \/ MCStream \/ MCCapture]_mcVars => [CaptureNext]_memVars
    BY DEF MCFifo, MCStream, MCCapture, mcVars, fifoVars, streamVars
  <2>3. QED BY <2>1, <2>2, PTL DEF MCSpec, CaptureSpec
<1>4. FifoTypeOK /\ ReadTypeOK /\ CaptureTypeOK => TypesOK
  BY DEF TypesOK
<1>5. QED
  BY <1>1, <1>2, <1>3, <1>4, FifoTypeCorrect, ReadTypeCorrect, CaptureTypeCorrect,
     PTL

=============================================================================
