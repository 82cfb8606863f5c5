----------------------------- MODULE SocketServer -----------------------------
(***************************************************************************)
(* The socket server of the IOC: epics/src/socket_server.c with the        *)
(* buffered file under it (buffered_file.c) and the frame of its commands  *)
(* (socket_command.c).  One connection is modelled with its client, the    *)
(* thread that accepts it and the main thread that shuts the server down.  *)
(*                                                                         *)
(* A character of the nth line is the number n, a newline is 0.  What the  *)
(* commands write is numbered as it is written, 1, 2, 3, ...  The trigger  *)
(* lock is granted or refused here; TriggerTarget has the lock itself.     *)
(***************************************************************************)
EXTENDS Naturals, Sequences

CONSTANTS
  LineSize,     \* room for a line and its end
  InSize,       \* size of the input buffer
  OutSize,      \* size of the output buffer
  ErrorLength,  \* length of an error reply
  BlockLength,  \* length of a block of data
  Lengths,      \* lengths of the lines a client sends
  MaxLines      \* bound: lines sent

ASSUME SocketAssumption ==
  /\ {LineSize, InSize, OutSize, ErrorLength, BlockLength} \subseteq Nat \ {0}
  /\ ErrorLength < OutSize
  /\ Lengths \subseteq Nat /\ MaxLines \in Nat

VARIABLES
  client,       \* "reading", "stalled" or "gone"
  ended,        \* the client will send no more
  asked,        \* history: the lengths of the lines sent
  wire,         \* characters sent and not yet read
  conn,         \* the buffered file: in, out, eof, error
  line,         \* the line being assembled: text, flushed
  handled,      \* history: the lines handled
  place,        \* what the connection thread does
  todo,         \* what is left to do of the command
  locked,       \* the trigger lock is held
  sndtimeo,     \* the socket has a send timeout
  sending,      \* what write() has still to send
  sent,         \* history: what has reached the client
  said,         \* history: how much has been written
  server,       \* the accepting thread: "accepting", "stopped"
  main          \* the main thread: "running", "joining", "joined"

clientVars == <<client, ended, asked>>
lineVars == <<line, handled, wire>>
serverVars == <<server, main>>
srvVars == <<clientVars, lineVars, conn, place, todo, locked, sndtimeo, sending,
          sent, said, serverVars>>

Op == {"char", "text", "block", "unlock", "close"}

ServerTypeOK ==
  /\ client \in {"reading", "stalled", "gone"} /\ ended \in BOOLEAN
  /\ asked \in Seq(Lengths) /\ wire \in Seq(0 .. MaxLines)
  /\ conn.in \in Seq(0 .. MaxLines) /\ Len(conn.in) <= InSize
  /\ conn.out \in Seq(1 .. said) /\ Len(conn.out) < OutSize
  /\ conn.eof \in BOOLEAN /\ conn.error \in BOOLEAN
  /\ Len(line.text) < LineSize
  /\ place \in {"none", "orphan", "parse", "read", "command", "lock", "work",
                "delete", "close", "done"}
  /\ todo \in Seq(Op)
  /\ locked \in BOOLEAN /\ sndtimeo \in BOOLEAN /\ said \in Nat
  /\ server \in {"accepting", "stopped"}
  /\ main \in {"running", "joining", "joined"}

ServerInit ==
  /\ client = "reading" /\ ended = FALSE /\ asked = <<>> /\ wire = <<>>
  /\ conn = [in |-> <<>>, out |-> <<>>, eof |-> FALSE, error |-> FALSE]
  /\ line = [text |-> <<>>, flushed |-> FALSE] /\ handled = <<>>
  /\ place = "none" /\ todo = <<>> /\ locked = FALSE /\ sndtimeo = FALSE
  /\ sending = <<>> /\ sent = <<>> /\ said = 0
  /\ server = "accepting" /\ main = "running"

-----------------------------------------------------------------------------
(* The client.                                                             *)

SendLine ==
  /\ ~ended /\ client # "gone" /\ Len(asked) < MaxLines
  /\ \E n \in Lengths :
       /\ asked' = Append(asked, n)
       /\ wire' = wire \o [i \in 1 .. n |-> Len(asked')] \o <<0>>
  /\ UNCHANGED <<client, ended, conn, line, handled, place, todo, locked,
                 sndtimeo, sending, sent, said, serverVars>>

\* The client shuts its sending side, stops or goes on reading, or goes away.
ClientTurns ==
  /\ client # "gone"
  /\ \/ /\ ~ended /\ ended' = TRUE /\ UNCHANGED client
     \/ /\ client' \in {"reading", "stalled", "gone"} \ {client}
        /\ UNCHANGED ended
  /\ UNCHANGED <<asked, lineVars, conn, place, todo, locked, sndtimeo,
                 sending, sent, said, serverVars>>

\* write() sends what it can; a client that is gone ends it with an error,
\* and one that does not read for so long if there is a timeout on sending.
Send ==
  /\ sending # <<>>
  /\ \/ /\ client = "reading"
        /\ \E k \in 1 .. Len(sending) :
             /\ sent' = sent \o SubSeq(sending, 1, k)
             /\ sending' = SubSeq(sending, k + 1, Len(sending))
        /\ UNCHANGED conn
     \/ /\ client = "gone" \/ (client = "stalled" /\ sndtimeo)
        /\ conn' = [conn EXCEPT !.error = TRUE]
        /\ sending' = <<>>
        /\ UNCHANGED sent
  /\ UNCHANGED <<clientVars, lineVars, place, todo, locked, sndtimeo, said,
                 serverVars>>

-----------------------------------------------------------------------------
(* Reading lines: read_line() and fill_in_buf().                           *)

Blocked == sending # <<>>
commandVars == <<clientVars, todo, locked, sndtimeo, sent, said, serverVars>>

\* Mutant of Fits: the part of the line that has been set aside is forgotten.
FitsAlone(n) == n + 1 < LineSize

\* Room in the line for n more characters and the end.
Fits(n) == Len(line.text) + n + 1 < LineSize

Overrun ==
  /\ conn' = [conn EXCEPT !.error = TRUE]
  /\ place' = "delete"
  /\ UNCHANGED <<lineVars, sending>>

\* Mutant of TakeLine: what has been set aside is forgotten.
TakeLineAlone(n) ==
  /\ handled' = Append(handled, SubSeq(conn.in, 1, n))
  /\ line' = [text |-> <<>>, flushed |-> FALSE]
  /\ conn' = [conn EXCEPT !.in = SubSeq(@, n + 2, Len(@))]
  /\ place' = "command"
  /\ UNCHANGED <<wire, sending>>

\* The n characters in front of the newline complete the line.
TakeLine(n) ==
  /\ handled' = Append(handled, line.text \o SubSeq(conn.in, 1, n))
  /\ line' = [text |-> <<>>, flushed |-> FALSE]
  /\ conn' = [conn EXCEPT !.in = SubSeq(@, n + 2, Len(@))]
  /\ place' = "command"
  /\ UNCHANGED <<wire, sending>>

\* The buffer holds no newline: set it aside, send what there is to send, and
\* read more.
SetAside ==
  /\ line' = [text |-> line.text \o conn.in, flushed |-> TRUE]
  /\ sending' = IF line.flushed THEN <<>> ELSE conn.out
  /\ conn' = [conn EXCEPT !.in = <<>>,
                          !.out = IF line.flushed THEN @ ELSE <<>>]
  /\ place' = "read"
  /\ UNCHANGED <<wire, handled>>

\* n characters are in front of the first newline of the buffer.
NewlineAfter(n) ==
  /\ n + 1 \in DOMAIN conn.in /\ conn.in[n + 1] = 0
  /\ \A i \in 1 .. n : conn.in[i] # 0

ReadLine ==
  /\ place = "parse"
  /\ IF conn.eof \/ conn.error
     THEN place' = "delete" /\ UNCHANGED <<lineVars, conn, sending>>
     ELSE \/ \E n \in 0 .. Len(conn.in) :
               /\ NewlineAfter(n)
               /\ IF Fits(n) THEN TakeLine(n) ELSE Overrun
          \/ /\ \A i \in DOMAIN conn.in : conn.in[i] # 0
             /\ IF Fits(Len(conn.in)) THEN SetAside ELSE Overrun
  /\ UNCHANGED commandVars

\* read() returns what there is, the end of the input or an error.
FillInBuf ==
  /\ place = "read" /\ ~Blocked
  /\ \/ conn.error /\ UNCHANGED <<conn, wire>>
     \/ /\ ~conn.error /\ wire # <<>>
        /\ \E k \in 1 .. InSize :
             /\ k <= Len(wire)
             /\ conn' = [conn EXCEPT !.in = SubSeq(wire, 1, k)]
             /\ wire' = SubSeq(wire, k + 1, Len(wire))
     \/ /\ ~conn.error /\ wire = <<>> /\ ended
        /\ conn' = [conn EXCEPT !.eof = TRUE]
        /\ UNCHANGED wire
     \/ /\ ~conn.error /\ client = "gone"
        /\ conn' = [conn EXCEPT !.error = TRUE]
        /\ UNCHANGED wire
  /\ place' = "parse"
  /\ UNCHANGED <<commandVars, line, handled, sending>>

-----------------------------------------------------------------------------
(* Commands: process_connection(), process_memory_command() and            *)
(* process_detector_command().                                             *)

keptVars == <<clientVars, lineVars, sent, serverVars>>

\* report_error(); an error in raw mode ends the connection without a word.
ErrorReply(raw) == IF raw THEN <<"close">> ELSE <<"text">>

\* Mutant of Unlock: the lock is released only after a successful reply.
UnlockReplied(lock, ok) == IF lock /\ ok THEN <<"unlock">> ELSE <<>>

\* release_lock()
Unlock(lock, ok) == IF lock THEN <<"unlock">> ELSE <<>>

\* The reply: a mark of success, a frame or not, the data.
Reply(raw, framed) ==
  (IF raw THEN <<>> ELSE <<"char">>)
  \o (IF framed THEN <<"block">> ELSE <<>>) \o <<"block">>

\* What is done with the lock held, or with no lock asked for: the readout,
\* or (a detector command) the refusal as no detector is enabled.
Work(raw, lock) ==
  \/ \E framed \in BOOLEAN : todo' = Reply(raw, framed) \o Unlock(lock, TRUE)
  \/ todo' = Unlock(lock, FALSE) \o ErrorReply(raw)

\* A line that does not parse, or a readout without a lock.
Command ==
  /\ place = "command"
  /\ \E raw \in BOOLEAN : todo' = ErrorReply(raw) \/ Work(raw, FALSE)
  /\ place' = "work"
  /\ UNCHANGED <<keptVars, conn, locked, sndtimeo, sending, said>>

\* wait_for_lock(): sets a timeout on sending before it waits.
WaitForLock ==
  /\ place = "command"
  /\ sndtimeo' = TRUE
  /\ place' = "lock"
  /\ UNCHANGED <<keptVars, conn, todo, locked, sending, said>>

Granted ==
  /\ place = "lock"
  /\ locked' = TRUE
  /\ \E raw \in BOOLEAN : Work(raw, TRUE)
  /\ place' = "work"
  /\ UNCHANGED <<keptVars, conn, sndtimeo, sending, said>>

Refused(raw) ==
  /\ todo' = ErrorReply(raw)
  /\ place' = "work"
  /\ UNCHANGED <<keptVars, conn, locked, sndtimeo, sending, said>>

\* The wait is over without the lock ...
LockTimeout == place = "lock" /\ \E raw \in BOOLEAN : Refused(raw)

\* ... or the client has gone meanwhile: check_connection()
ClientLost ==
  place = "lock" /\ client = "gone" /\ \E raw \in BOOLEAN : Refused(raw)

-----------------------------------------------------------------------------
(* Writing: buffered_file.c.  Nothing is written after an error.           *)

Numbers(n) == [i \in 1 .. n |-> said + i]

Step(op) ==
  /\ place = "work" /\ ~Blocked /\ todo # <<>> /\ Head(todo) = op
  /\ todo' = Tail(todo)

\* Puts n characters into the buffer after sending the first part of it.
Write(first, rest, n) ==
  IF conn.error
  THEN UNCHANGED <<conn, sending, said>>
  ELSE /\ sending' = first
       /\ conn' = [conn EXCEPT !.out = rest]
       /\ said' = said + n

WriteChar ==
  /\ Step("char")
  /\ LET out == conn.out \o Numbers(1)
     IN  IF Len(out) >= OutSize THEN Write(out, <<>>, 1)
         ELSE Write(<<>>, out, 1)
  /\ UNCHANGED <<keptVars, place, locked, sndtimeo>>

\* write_formatted_string(): whole in what is left of the buffer, or whole in
\* the empty buffer.
WriteFormatted ==
  /\ Step("text")
  /\ LET text == Numbers(ErrorLength)
     IN  IF ErrorLength < OutSize - Len(conn.out)
         THEN Write(<<>>, conn.out \o text, ErrorLength)
         ELSE Write(conn.out, text, ErrorLength)
  /\ UNCHANGED <<keptVars, place, locked, sndtimeo>>

\* Mutant of WriteBlock: the block is sent and the buffer is not.
WriteBlockAlone ==
  /\ Step("block")
  /\ Write(Numbers(BlockLength), conn.out, BlockLength)
  /\ UNCHANGED <<keptVars, place, locked, sndtimeo>>

\* write_block(): the buffer and the block are sent.
WriteBlock ==
  /\ Step("block")
  /\ Write(conn.out \o Numbers(BlockLength), <<>>, BlockLength)
  /\ UNCHANGED <<keptVars, place, locked, sndtimeo>>

ReleaseLock ==
  /\ Step("unlock")
  /\ locked' = FALSE
  /\ UNCHANGED <<keptVars, conn, place, sndtimeo, sending, said>>

\* The command is done, or an error in raw mode ends the connection.
CommandDone ==
  /\ \/ /\ place = "work" /\ ~Blocked /\ todo = <<>>
        /\ place' = "parse"
        /\ UNCHANGED todo
     \/ /\ Step("close")
        /\ place' = "delete"
  /\ UNCHANGED <<keptVars, conn, locked, sndtimeo, sending, said>>

\* delete_connection() flushes the buffer, unless there has been an error ...
DeleteConnection ==
  /\ place = "delete"
  /\ sending' = IF conn.error THEN <<>> ELSE conn.out
  /\ conn' = [conn EXCEPT !.out = <<>>]
  /\ place' = "close"
  /\ UNCHANGED <<keptVars, todo, locked, sndtimeo, said>>

\* ... and closes the socket; the thread ends.
CloseSocket ==
  /\ place = "close" /\ ~Blocked
  /\ place' = "done"
  /\ UNCHANGED <<keptVars, conn, todo, locked, sndtimeo, sending, said>>

-----------------------------------------------------------------------------
(* The accepting thread and shutdown.                                      *)

connectionVars == <<clientVars, lineVars, conn, todo, locked, sndtimeo,
                    sending, sent, said>>

\* run_server(): a thread for the connection; if it cannot be made, the
\* server stops and nobody has the connection.
Accept ==
  /\ server = "accepting" /\ main = "running" /\ place = "none"
  /\ \/ place' = "parse" /\ UNCHANGED server
     \/ place' = "orphan" /\ server' = "stopped"
  /\ UNCHANGED <<connectionVars, main>>

\* terminate_socket_server(): shutdown() makes accept() fail ...
Terminate ==
  /\ main = "running" /\ main' = "joining"
  /\ UNCHANGED <<connectionVars, place, server>>

AcceptFails ==
  /\ server = "accepting" /\ main = "joining" /\ server' = "stopped"
  /\ UNCHANGED <<connectionVars, place, main>>

\* ... and the thread is joined.  Connections have threads of their own.
Join ==
  /\ main = "joining" /\ server = "stopped" /\ main' = "joined"
  /\ UNCHANGED <<connectionVars, place, server>>

WriteStep == WriteChar \/ WriteFormatted \/ WriteBlock

Connection ==
  \/ ReadLine \/ FillInBuf
  \/ Command \/ WaitForLock \/ ClientLost
  \/ WriteStep \/ ReleaseLock \/ CommandDone
  \/ DeleteConnection \/ CloseSocket

Server == Accept \/ AcceptFails \/ Join

ServerNext ==
  \/ SendLine \/ ClientTurns \/ Send
  \/ Connection \/ Granted \/ LockTimeout
  \/ Server \/ Terminate

ServerSpec == ServerInit /\ [][ServerNext]_srvVars

\* The threads run and sends end when they can.  Nothing is assumed of the
\* client, nor of how long a lock is waited for.
ServerFairness ==
  WF_srvVars(Connection) /\ WF_srvVars(Send) /\ WF_srvVars(Server)

-----------------------------------------------------------------------------
(* Properties.                                                             *)

\* The lines handled are the lines that were sent, none lost, cut or merged,
\* however the input was split into reads and whatever it shared a buffer
\* with (read_line).
LinesFaithful ==
  /\ Len(handled) <= Len(asked)
  /\ \A n \in DOMAIN handled : handled[n] = [i \in 1 .. asked[n] |-> n]

\* Short of an error, everything the commands write is sent once and in that
\* order, through the buffer or past it (write_block flushes first), and has
\* left when the thread waits for the client (read_line) or has ended.
RepliesInOrder ==
  ~conn.error =>
    /\ sent \o sending \o conn.out = [i \in 1 .. said |-> i]
    /\ place \in {"read", "close", "done"} => conn.out = <<>>

\* What goes through the buffered file goes through it whole and in order, both
\* ways (buffered_file.c).
TrafficFaithful == LinesFaithful /\ RepliesInOrder

\* The trigger lock is never held for ever, whether the client reads, stalls
\* or goes away: sending has a timeout, and the lock is released on every way
\* out of the command (wait_for_lock, release_lock).
LockReleased == []<>~locked

\* A connection whose client has gone is deleted, also while it waits for a
\* lock (check_connection).
GoneDeleted ==
  []<>(client # "gone" \/ place \in {"none", "orphan", "done"})

\* A client that stalls or goes away holds up nobody but itself: its lock and
\* its connection are given up (process_connection, check_connection).
ConnectionEnds == LockReleased /\ GoneDeleted

=============================================================================
