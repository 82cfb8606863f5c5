------------------------------ MODULE MemoryRead ------------------------------
(***************************************************************************)
(* Reading captured memory: the M command of the socket server             *)
(* (epics/src/socket_command.c), which turns a request into a stream of    *)
(* values in one of four formats, and the MEM waveforms (memory.c) read    *)
(* beside it.  Both go through one file handle (hardware.c), the driver    *)
(* that clips a read to its memory and its DMA buffer (driver/memory.c,    *)
(* driver/dma_control.c).  The capture is complete and stays as it is, see *)
(* MemoryCapture.                                                          *)
(*                                                                         *)
(* Memory is a ring of words, a word being both channels of a bunch.  A    *)
(* value that is sent is <<channel, terms, bunch>>: the average of the     *)
(* terms <<address, angle>>, where the angle counts turns, rotated by the  *)
(* bunch.  Angle and bunch are 0 in the formats that do not rotate.        *)
(***************************************************************************)
EXTENDS Integers, Sequences

CONSTANTS
  Size,         \* words of memory
  DmaBlock,     \* words the DMA buffer holds
  Align,        \* words a DMA transfer is aligned to
  Bunches,      \* bunches per turn
  ReadBuffer,   \* words of the read buffer: READ_BUFFER_BYTES
  WriteBuffer,  \* int16 of the write buffer: WRITE_BUFFER_BYTES
  WaveLength,   \* words of the MEM waveforms
  Counts, Starts, Decimations, \* of requests
  Origins, Delays   \* where a trigger can fall; channel delays

\* The extra turn that is read covers the delays, a transfer is at least a
\* word, and a write buffer holds a turn of complex values of two channels.
ASSUME MemoryReadAssumption ==
  /\ {Size, DmaBlock, Align, Bunches, ReadBuffer, WriteBuffer, WaveLength}
       \subseteq Nat \ {0}
  /\ DmaBlock % Align = 0 /\ Size % Align = 0
  /\ ReadBuffer >= 2 * Bunches /\ WriteBuffer >= 8 * Bunches
  /\ Counts \subseteq Nat /\ Decimations \subseteq Nat \ {0}
  /\ Starts \subseteq Int /\ Origins \subseteq 0 .. Size - 1
  /\ Delays \subseteq 0 .. Bunches

VARIABLES
  request,      \* the arguments of the command
  capture,      \* trigger_origin and channel_delays
  stream,       \* the command: phase, samples left, offset, turn, pos
  values,       \* history: the values sent
  header,       \* the frame: samples, channels
  reader,       \* a read of each thread: step, at, left, data
  dramMutex,    \* who holds dram_mutex, or "free"
  pos,          \* the position of the shared file
  waves,        \* the waveforms and the offset asked for
  failed        \* history: a read has failed

streamVars == <<request, capture, stream, values, header, reader, dramMutex, pos, waves,
          failed>>

ReadThread == {"stream", "wave"}
Least(a, b) == IF a <= b THEN a ELSE b
Stale == -1     \* a word that was not read

Word == {Stale} \cup 0 .. Size - 1

ReadTypeOK ==
  /\ request \in [count : Counts, offset : Starts, channel : {-1, 0, 1},
                  bunch : -1 .. Bunches - 1, decimation : Decimations,
                  format : {"int16", "float32", "complex64"}]
  /\ stream.phase \in {"parse", "info", "read", "write", "done", "refused"}
  /\ stream.left \in Nat /\ stream.pos \in Nat /\ stream.turn \in Nat
  /\ header \in [samples : Nat, channels : 0 .. 2]
  /\ \A t \in ReadThread :
       /\ reader[t].step \in {"idle", "lock", "read"}
       /\ reader[t].at \in 0 .. Size - 1 /\ reader[t].left \in Nat
       /\ reader[t].data \in Seq(Word)
  /\ Len(reader["stream"].data) + reader["stream"].left <= ReadBuffer
  /\ dramMutex \in ReadThread \cup {"free"} /\ pos \in 0 .. Size - 1

NoRead == [step |-> "idle", at |-> 0, left |-> 0, data |-> <<>>]

\* A B option excludes D and T; D and T choose the format.
Request ==
  {r \in [count : Counts, offset : Starts, channel : {-1, 0, 1},
          bunch : -1 .. Bunches - 1, decimation : Decimations,
          format : {"int16", "float32", "complex64"}] :
     /\ r.bunch >= 0 => r.format = "int16"
     /\ r.format = "int16" => r.decimation = 1}

ReadInit ==
  /\ request \in Request
  /\ capture \in [origin : Origins, delay : [{0, 1} -> Delays]]
  /\ stream = [phase |-> "parse", left |-> 0, offset |-> 0, turn |-> 0,
               pos |-> 0]
  /\ values = <<>> /\ header = [samples |-> 0, channels |-> 0]
  /\ reader = [t \in ReadThread |-> NoRead] /\ dramMutex = "free" /\ pos = 0
  /\ waves = [offset |-> 0, wf |-> <<>>] /\ failed = FALSE

-----------------------------------------------------------------------------
(* hw_read_dram_memory() and the driver.                                   *)

CallRead(t, offset, samples) ==
  reader' = [reader EXCEPT ![t] = [step |-> "lock", at |-> offset % Size,
                                   left |-> samples, data |-> <<>>]]

LockAndSeek(t) ==
  /\ reader[t].step = "lock" /\ dramMutex = "free"
  /\ dramMutex' = t /\ pos' = reader[t].at
  /\ reader' = [reader EXCEPT ![t].step = "read"]
  /\ UNCHANGED <<request, capture, stream, values, header, waves, failed>>

\* mbf_dma_read(): up to the end of memory, and what fits the DMA buffer
\* behind the aligned start.
Clip(n) ==
  LET inMemory == Least(n, Size - pos)
      start == pos % Align
      aligned == ((start + inMemory + Align - 1) \div Align) * Align
  IN  IF aligned > DmaBlock THEN DmaBlock - start ELSE inMemory

\* A file position that reaches the end goes back to the beginning.
NextPos(n) == IF pos + n = Size THEN 0 ELSE pos + n

\* The read ends with its last word, or with an error: what has not been read
\* is left as it was.
Read(t) ==
  LET n == Clip(reader[t].left) IN
  /\ reader[t].step = "read"
  /\ IF reader[t].left = 0
     THEN /\ reader' = [reader EXCEPT ![t].step = "idle"]
          /\ dramMutex' = "free"
          /\ UNCHANGED <<pos, failed>>
     ELSE \/ /\ reader' = [reader EXCEPT
                  ![t].data = @ \o [i \in 1 .. n |-> pos + i - 1],
                  ![t].left = @ - n]
             /\ pos' = NextPos(n)
             /\ UNCHANGED <<dramMutex, failed>>
          \/ /\ reader' = [reader EXCEPT
                  ![t].data = @ \o [i \in 1 .. reader[t].left |-> Stale],
                  ![t].left = 0]
             /\ failed' = TRUE
             /\ UNCHANGED <<dramMutex, pos>>
  /\ UNCHANGED <<request, capture, stream, values, header, waves>>

Arrived(t) == reader[t].step = "idle" /\ reader[t].data # <<>>

-----------------------------------------------------------------------------
(* The request.                                                            *)

Channels(r) == IF r.channel >= 0 THEN <<r.channel>> ELSE <<0, 1>>
Rounded(n, unit) == (n \div unit) * unit

\* compute_read_buffer_size()
ReadBufferSize(r) ==
  LET words == ReadBuffer - Bunches
  IN  IF r.bunch >= 0 THEN Rounded(words, Bunches)
      ELSE IF r.format # "int16" THEN Rounded(words, Bunches * r.decimation)
      ELSE words

\* Mutant of Accepted: the decimation is not checked against the buffer.
AcceptedAny(r) == r.count <= (Size \div Bunches) \div r.decimation

\* What parse_memory_args() and process_memory_command() accept.
Accepted(r) ==
  /\ r.count <= (Size \div Bunches) \div r.decimation
  /\ r.format # "int16" => ReadBufferSize(r) > 0

\* write_memory_info(), whether or not the frame has been asked for.
Header(r) ==
  [samples |-> IF r.bunch >= 0 THEN r.count ELSE r.count * Bunches,
   channels |-> Len(Channels(r))]

StartCommand ==
  /\ stream.phase = "parse"
  /\ stream' = [stream EXCEPT
       !.phase = IF Accepted(request) THEN "info" ELSE "refused"]
  /\ UNCHANGED <<request, capture, values, header, reader, dramMutex, pos, waves,
                 failed>>

\* The frame, the channel delays, and the place to start at:
\* compute_dram_offset().
WriteInfo ==
  /\ stream.phase = "info"
  /\ header' = Header(request)
  /\ stream' = [stream EXCEPT
       !.phase = "read",
       !.left = request.count * Bunches * request.decimation,
       !.offset = capture.origin + request.offset * Bunches]
  /\ UNCHANGED <<request, capture, values, reader, dramMutex, pos, waves, failed>>

ReadSamples == Least(stream.left, ReadBufferSize(request))

\* The loop of send_memory_data(): a chunk, and a turn more for the delays.
ReadChunk ==
  /\ stream.phase = "read" /\ reader["stream"] = NoRead
  /\ IF stream.left = 0
     THEN stream' = [stream EXCEPT !.phase = "done"] /\ UNCHANGED reader
     ELSE /\ CallRead("stream", stream.offset, ReadSamples + Bunches)
          /\ stream' = [stream EXCEPT !.phase = "write", !.pos = 0]
  /\ UNCHANGED <<request, capture, values, header, dramMutex, pos, waves, failed>>

-----------------------------------------------------------------------------
(* The formats.                                                            *)

\* Channel c of the nth word: extract_channels_one_bunch()
Extract(t, c, n) == reader[t].data[n + capture.delay[c] + 1]

\* The value of each channel for one bunch of a decimated turn.
Values(r, word, turn, bunch) ==
  [i \in 1 .. Len(Channels(r)) |->
    LET c == Channels(r)[i]
    IN  <<c, [d \in 1 .. r.decimation |->
               <<Extract("stream", c, word + (d - 1) * Bunches),
                 IF r.format = "complex64" THEN turn + d - 1 ELSE 0>>],
          IF r.format = "complex64" THEN bunch ELSE 0>>]

\* The words, from stream.pos on, that a write buffer of values is made from.
BlockWords(r) ==
  LET perSample == Len(Channels(r))
      turn == Bunches * r.decimation
      turnsOf(size) == (WriteBuffer \div size) \div (Bunches * perSample)
  IN  CASE r.bunch >= 0 -> (WriteBuffer \div perSample) * Bunches
        [] r.bunch < 0 /\ r.format = "int16" -> WriteBuffer \div perSample
        [] r.format = "float32" -> turnsOf(2) * turn
        [] r.format = "complex64" -> turnsOf(4) * turn

\* Mutant of FirstTurn: the angle starts again with every chunk.
FirstTurnOfChunk(w) == (w \div Bunches)

\* The angle of the turn at word w: it goes on from chunk to chunk.
FirstTurn(w) == stream.turn + (w \div Bunches)

\* What send_bunch_memory_data(), send_int16_memory_data(),
\* send_float32_memory_data() and send_complex64_memory_data() make of sample w
\* of the chunk.
SampleOf(r, w) ==
  LET base == (w \div Bunches) * (Bunches * r.decimation)
  IN  IF r.bunch >= 0 THEN Values(r, w * Bunches + r.bunch, 0, 0)
      ELSE IF r.format = "int16" THEN Values(r, w, 0, 0)
      ELSE Values(r, base + (w % Bunches), FirstTurn(base), w % Bunches)

\* The values made from the given words of the chunk.
Convert(r, first, words) ==
  LET unit == IF r.bunch >= 0 THEN Bunches ELSE r.decimation
      perSample == Len(Channels(r))
  IN  [k \in 1 .. (words \div unit) * perSample |->
        SampleOf(r, (first \div unit) + ((k - 1) \div perSample))
          [((k - 1) % perSample) + 1]]

\* One block of the write buffer; with the last one of the chunk go on to the
\* next chunk.
SendBlock ==
  /\ stream.phase = "write" /\ Arrived("stream")
  /\ LET n == Least(ReadSamples - stream.pos, BlockWords(request))
         last == stream.pos + n = ReadSamples
     IN  /\ values' = values \o Convert(request, stream.pos, n)
         /\ stream' = IF last
              THEN [stream EXCEPT
                      !.phase = "read", !.pos = 0,
                      !.offset = @ + ReadSamples, !.left = @ - ReadSamples,
                      !.turn = @ + ReadSamples \div Bunches]
              ELSE [stream EXCEPT !.pos = @ + n]
         /\ reader' = IF last THEN [reader EXCEPT !["stream"] = NoRead]
                      ELSE reader
  /\ UNCHANGED <<request, capture, header, dramMutex, pos, waves, failed>>

-----------------------------------------------------------------------------
(* The waveforms: readout_memory(), after a write of OFFSET.               *)

ReadWave ==
  /\ reader["wave"] = NoRead
  /\ \E o \in Starts :
       /\ waves' = [offset |-> o, wf |-> <<>>]
       /\ CallRead("wave", capture.origin + o * Bunches,
                   WaveLength + Bunches)
  /\ UNCHANGED <<request, capture, stream, values, header, dramMutex, pos, failed>>

ShowWave ==
  /\ Arrived("wave")
  /\ waves' = [waves EXCEPT !.wf = [i \in 1 .. WaveLength |->
                [c \in {0, 1} |-> Extract("wave", c, i - 1)]]]
  /\ reader' = [reader EXCEPT !["wave"] = NoRead]
  /\ UNCHANGED <<request, capture, stream, values, header, dramMutex, pos, failed>>

Stream == StartCommand \/ WriteInfo \/ ReadChunk \/ SendBlock

ReadNext ==
  \/ Stream
  \/ ReadWave \/ ShowWave
  \/ \E t \in ReadThread : LockAndSeek(t) \/ Read(t)

ReadSpec == ReadInit /\ [][ReadNext]_streamVars

\* The connection's thread and the reads under way go on; the mutex is given
\* to the stream in the end, whatever the waveforms do.
ReadFairness ==
  /\ WF_streamVars(Stream) /\ SF_streamVars(LockAndSeek("stream"))
  /\ WF_streamVars(\E t \in ReadThread : Read(t))

-----------------------------------------------------------------------------
(* Properties.                                                             *)

\* The value number j, counted from 0, that the request asks for.
Wanted(r, j) ==
  LET n == Len(Channels(r))
      c == Channels(r)[(j % n) + 1]
      s == j \div n
      t == IF r.bunch >= 0 THEN s ELSE s \div Bunches
      b == IF r.bunch >= 0 THEN r.bunch ELSE s % Bunches
      rotated == r.format = "complex64"
      turn(d) == t * r.decimation + d - 1
  IN  <<c, [d \in 1 .. r.decimation |->
             <<(capture.origin + (r.offset + turn(d)) * Bunches + b
                 + capture.delay[c]) % Size,
               IF rotated THEN turn(d) ELSE 0>>],
        IF rotated THEN b ELSE 0>>

Total(r) == Len(Channels(r)) * r.count * (IF r.bunch >= 0 THEN 1 ELSE Bunches)

\* What is sent is what was asked for: across chunks, blocks, the end of
\* memory and reads that the driver cuts short, in every format, while the
\* waveforms are read through the same file (send_memory_data).
StreamFaithful ==
  /\ Len(values) <= Total(request)
  /\ ~failed => \A j \in DOMAIN values : values[j] = Wanted(request, j - 1)

\* The frame tells the client exactly how many values follow, even if reads
\* have failed meanwhile (write_memory_info).
HeaderKept ==
  stream.phase = "done" => header.samples * header.channels = Len(values)

\* The waveforms are those of the offset asked for, whatever the socket reads
\* (readout_memory, dram_mutex).
WaveFaithful ==
  ~failed => \A i \in DOMAIN waves.wf : \A c \in {0, 1} :
    waves.wf[i][c] = (capture.origin + waves.offset * Bunches + i - 1
                      + capture.delay[c]) % Size

\* Every command that is taken comes to its end: no buffer is too small to
\* make progress (process_memory_command, send_memory_data).
StreamEnds == []<>(stream.phase \in {"parse", "done", "refused"})

\* What is read is what was asked for, by the socket and by EPICS through one
\* file: all the values, as many as announced (send_memory_data,
\* write_memory_info, readout_memory).
ReadFaithful == StreamFaithful /\ HeaderKept /\ WaveFaithful

=============================================================================
