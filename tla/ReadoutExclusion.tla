-------------------------- MODULE ReadoutExclusion --------------------------
(***************************************************************************)
(* What the trigger target locks promise, from the comments of             *)
(* epics/src/trigger_target.h on lock_trigger_ready(): each target is      *)
(* either capturing or open for reading.  Readers of a capturing target    *)
(* queue and are admitted once the capture is over; a capture starts only  *)
(* on a target that nobody reads and nobody queues for.                    *)
(***************************************************************************)
CONSTANTS Target, Readers

VARIABLES
  capturing,   \* armed or busy, by target
  queue,       \* readers waiting for the target
  readers      \* readers the target is open to

vars == <<capturing, queue, readers>>

Free(t) == queue[t] = {} /\ readers[t] = {}

Init ==
  /\ capturing = [t \in Target |-> FALSE]
  /\ queue = [t \in Target |-> {}]
  /\ readers = [t \in Target |-> {}]

\* Captures start on the targets of S and end on those of E.
Capture(S, E) ==
  /\ \A t \in S : ~capturing[t]
  /\ \A t \in E : capturing[t]
  /\ capturing' = [t \in Target |-> (capturing[t] \/ t \in S) /\ t \notin E]

\* The targets concerned start together, all of them free.
Start(S) ==
  /\ \A t \in S : Free(t)
  /\ Capture(S, {})
  /\ UNCHANGED <<queue, readers>>

Finish(E) ==
  /\ Capture({}, E)
  /\ UNCHANGED <<queue, readers>>

Read(r, t) ==
  /\ ~capturing[t]
  /\ readers' = [readers EXCEPT ![t] = @ \cup {r}]
  /\ UNCHANGED <<capturing, queue>>

Enqueue(r, t) ==
  /\ capturing[t]
  /\ queue' = [queue EXCEPT ![t] = @ \cup {r}]
  /\ UNCHANGED <<capturing, readers>>

Admit(r, t) ==
  /\ r \in queue[t] /\ ~capturing[t]
  /\ queue' = [queue EXCEPT ![t] = @ \ {r}]
  /\ readers' = [readers EXCEPT ![t] = @ \cup {r}]
  /\ UNCHANGED capturing

\* A reader goes, served or not; captures held up by it may start at once.
Leave(r, t, S) ==
  /\ \/ /\ r \in queue[t]
        /\ queue' = [queue EXCEPT ![t] = @ \ {r}]
        /\ UNCHANGED readers
     \/ /\ r \in readers[t]
        /\ readers' = [readers EXCEPT ![t] = @ \ {r}]
        /\ UNCHANGED queue
  /\ \A u \in S : queue'[u] = {} /\ readers'[u] = {}
  /\ Capture(S, {})

Next ==
  \/ \E S \in SUBSET Target : Start(S) \/ Finish(S)
  \/ \E r \in Readers, t \in Target :
       \/ Read(r, t)
       \/ Enqueue(r, t)
       \/ Admit(r, t)
       \/ \E S \in SUBSET Target : Leave(r, t, S)

Spec == Init /\ [][Next]_vars

=============================================================================
