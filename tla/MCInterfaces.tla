---------------------------- MODULE MCInterfaces ----------------------------
(***************************************************************************)
(* What other programs and EPICS meet of the system, checked side by side: *)
(* the device files of the driver, its event stream, and a connection of   *)
(* the socket server.  An initial state picks one of them, and the others  *)
(* stay as they are.                                                       *)
(***************************************************************************)
EXTENDS DriverCore, InterruptEvents, SocketServer

VARIABLE part
mcVars == <<part, vars, eventVars, srvVars>>

MCInit ==
  part \in {"driver", "events", "server"} /\ Init /\ EventInit /\ ServerInit

MCDriver == part = "driver" /\ Next /\ UNCHANGED <<part, eventVars, srvVars>>
MCEvents == part = "events" /\ EventNext /\ UNCHANGED <<part, vars, srvVars>>
MCServer == part = "server" /\ ServerNext /\ UNCHANGED <<part, vars, eventVars>>

\* Each part under its own fairness; <>[] as TLC needs no tableau for it.
MCFairness ==
  \/ <>[](part = "driver") /\ Fairness
  \/ <>[](part = "events") /\ EventFairness
  \/ <>[](part = "server") /\ ServerFairness

MCSpec == MCInit /\ [][MCDriver \/ MCEvents \/ MCServer]_mcVars /\ MCFairness

\* The types of all three parts (the driver's files, its event mask, and
\* socket_server.c with buffered_file.c).
TypesOK == TypeOK /\ EventTypeOK /\ ServerTypeOK

=============================================================================
