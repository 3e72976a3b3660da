----------------------------- MODULE EventSchedule -----------------------------
(***************************************************************************)
(* What an event replay promises, whichever program does it: the baseline  *)
(* first, the events of the profile one after the other in their order,    *)
(* the baseline in between only where a gap follows the event that ends,   *)
(* and the baseline last.  The state is the last entry of the execution    *)
(* log.  replay_events of bidirectional_replay.py and of                   *)
(* tc_event_replay_calibrated.py both implement this specification.        *)
(***************************************************************************)
EXTENDS Naturals, Sequences

CONSTANT Stoppable   \* TRUE: the rest of the events may be left out

VARIABLES
  profile,   \* the events, sorted by start
  action,    \* what was done last
  event      \* the event it was done for

vars == <<profile, action, event>>

Begin ==
  /\ action \in {"none", "final_baseline"}
  /\ action' = "baseline" /\ event' = 0

StartEvent ==
  /\ action \in {"baseline", "event_start", "event_end"}
  /\ event < Len(profile)
  /\ action' = "event_start" /\ event' = event + 1

EndEvent ==
  /\ action = "event_start"
  /\ event < Len(profile) /\ profile[event].end < profile[event + 1].start
  /\ action' = "event_end" /\ event' = event

\* A restored baseline is followed by the event it was restored for.
Finish ==
  /\ action \in {"baseline", "event_start"}
  /\ Stoppable \/ event = Len(profile)
  /\ action' = "final_baseline" /\ event' = 0

Init == action = "none" /\ event = 0
Next == (Begin \/ StartEvent \/ EndEvent \/ Finish) /\ UNCHANGED profile
Spec == Init /\ [][Next]_vars
=============================================================================
