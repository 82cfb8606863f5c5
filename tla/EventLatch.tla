----------------------------- MODULE EventLatch -----------------------------
(***************************************************************************)
(* What the event stream of the driver promises: an interrupt event that   *)
(* is raised is owed to the readers until a read returns it.  Occurrences  *)
(* of one event may merge on the way, but the last one is never lost, and  *)
(* no event is returned more often than it was raised.                     *)
(***************************************************************************)
EXTENDS Naturals

CONSTANTS Events, Readers

VARIABLES
  owed,    \* occurrences raised and not yet returned, by event
  reply    \* what each read has taken

vars == <<owed, reply>>

Init ==
  /\ owed = [e \in Events |-> 0]
  /\ reply = [r \in Readers |-> {}]

\* A new occurrence, or one that merges with those already there.
Raise(e) ==
  /\ \/ owed' = [owed EXCEPT ![e] = @ + 1]
     \/ owed[e] > 0 /\ UNCHANGED owed
  /\ UNCHANGED reply

Merge(S) ==
  /\ \A e \in S : owed[e] > 1
  /\ owed' = [e \in Events |-> IF e \in S THEN owed[e] - 1 ELSE owed[e]]
  /\ UNCHANGED reply

Take(r, S) ==
  /\ \A e \in S : owed[e] > 0
  /\ reply[r] = {}
  /\ owed' = [e \in Events |-> IF e \in S THEN owed[e] - 1 ELSE owed[e]]
  /\ reply' = [reply EXCEPT ![r] = S]

Return(r) ==
  /\ reply' = [reply EXCEPT ![r] = {}]
  /\ UNCHANGED owed

Next ==
  \/ \E e \in Events : Raise(e)
  \/ \E S \in SUBSET Events : Merge(S) \/ \E r \in Readers : Take(r, S)
  \/ \E r \in Readers : Return(r)

Spec == Init /\ [][Next]_vars

=============================================================================
