--------------------------- MODULE MCSequencerArm ---------------------------
(***************************************************************************)
(* Constants for checking SequencerArm: the scenarios.                     *)
(***************************************************************************)
EXTENDS SequencerArm

CONSTANTS k1, k2   \* the two clients

Scenario(first, second, thread) ==
  [t \in Thread |-> CASE t = k1 -> first [] t = k2 -> second
                      [] t = "events" -> thread]

\* Edits that set the dirty flag themselves, and no disarm.
Flagged == Scenario({"freq", "arm"}, {"freq", "arm"}, {"rearm"})
\* All the operations, by one client and without automatic re-arming.
Alone == Scenario({"freq", "count", "arm", "disarm", "reset"}, {}, {})
Working == {Flagged, Alone}

\* Sequences that are armed, abandoned and armed again.
Abandoned == {Scenario({"freq", "arm", "disarm"}, {"freq", "arm", "disarm"}, {})}
\* Automatic re-arming against resets.
RearmAndReset == {Scenario({"arm", "reset"}, {"arm", "reset"}, {"rearm"})}

=============================================================================
