---------------------------- MODULE OrbitAnnotation ----------------------------
(***************************************************************************)
(* visibility.py and annotation.py: the sky is sampled, the satellites in  *)
(* view make the rows of a table, and the rows in three windows around an  *)
(* event are its candidates.  The geometry is external: where a satellite  *)
(* is in view, and where its propagation fails, is given.  Times are whole *)
(* units; elevations and epochs, which order and date the candidates, are  *)
(* left out.                                                               *)
(***************************************************************************)
EXTENDS Integers, Sequences

CONSTANTS
  Sats,
  Skies, Failures,     \* functions from Sats to the instants in view, and in error
  EventLists,          \* an event is [start, end]
  Duration, Step,
  WindowBefore, WindowAfter

VARIABLES
  sky, failing, onlyVisible, events,
  pending,        \* the satellites compute_visibility has still to look at
  rows,           \* [t, sat, visible]
  annotations

vars == <<sky, failing, onlyVisible, events, pending, rows, annotations>>

\* sample_datetimes: the multiples of the step, and the end of the series.
\* Mutant of Samples: the end is not added.
SamplesOnGrid == {n * Step : n \in 0..(Duration \div Step)}
Samples == {n * Step : n \in 0..(Duration \div Step)} \cup {Duration}

\* compute_visibility, a satellite at a time.
InView(sat, t) == t \in sky[sat] /\ t \notin failing[sat]

LookAt(sat) ==
  /\ sat \in pending
  /\ pending' = pending \ {sat}
  /\ LET all == {[t |-> t, sat |-> sat, visible |-> InView(sat, t)] : t \in Samples}
     IN  rows' = rows \cup (IF onlyVisible THEN {r \in all : r.visible} ELSE all)
  /\ UNCHANGED <<sky, failing, onlyVisible, events, annotations>>

\* load_visibility_rows.
\* Mutant of Loaded: the rows of --all-satellites are taken for candidates.
LoadedAll == rows
Loaded == {r \in rows : r.visible}

\* The window before an event is open at its start.
Candidates(from, to, closed) ==
  {r.sat : r \in {x \in Loaded : from <= x.t /\ (x.t < to \/ (closed /\ x.t = to))}}

\* Mutant of Changed: what is the same again afterwards did not change.
ChangedAfter(before, during, after) == before # after
Changed(before, during, after) == before # during \/ during # after

\* annotate_event_document, an event at a time.
Annotate ==
  /\ pending = {} /\ Len(annotations) < Len(events)
  /\ LET e == events[Len(annotations) + 1]
         before == Candidates(e.start - WindowBefore, e.start, FALSE)
         during == Candidates(e.start, e.end, TRUE)
         after == Candidates(e.end, e.end + WindowAfter, TRUE)
     IN  annotations' = Append(annotations,
           [before |-> before, during |-> during, after |-> after, changed |-> Changed(before, during, after)])
  /\ UNCHANGED <<sky, failing, onlyVisible, events, pending, rows>>

Init ==
  /\ sky \in Skies /\ failing \in Failures
  /\ onlyVisible \in BOOLEAN /\ events \in EventLists
  /\ pending = Sats /\ rows = {} /\ annotations = <<>>

Next == (\E sat \in Sats : LookAt(sat)) \/ Annotate
Spec == Init /\ [][Next]_vars

(***************************************************************************)
(* Properties                                                              *)
(***************************************************************************)

\* A candidate was in view, by a propagation that did not fail, at some instant
\* of its window, whether or not the table holds the other satellites too.
CandidatesWereInView ==
  \A k \in DOMAIN annotations : LET e == events[k] a == annotations[k] IN
    /\ \A sat \in a.before : \E t \in e.start - WindowBefore .. e.start - 1 : t \in sky[sat] \ failing[sat]
    /\ \A sat \in a.during : \E t \in e.start .. e.end : t \in sky[sat] \ failing[sat]
    /\ \A sat \in a.after : \E t \in e.end .. e.end + WindowAfter : t \in sky[sat] \ failing[sat]

\* The windows hold a sample by their length, or because the series ends there.
Sampled(e) ==
  /\ e.start >= WindowBefore /\ WindowBefore >= Step
  /\ e.end <= Duration /\ (e.end - e.start >= Step \/ e.end = Duration)
  /\ WindowAfter >= Step \/ e.end + WindowAfter >= Duration

\* A sky that stays as it is does not change for an event: sampling invents no
\* transition of the candidates, up to the end of the series.
NoInventedChange ==
  \A k \in DOMAIN annotations :
    /\ Sampled(events[k])
    /\ \A sat \in Sats : (0..Duration \subseteq sky[sat] \ failing[sat]) \/ sky[sat] = {}
    => ~ annotations[k].changed

\* A satellite that is there for the event alone, or away for it alone, is a
\* change, although the sky before and the sky after are the same.
PassingChangeSeen ==
  \A k \in DOMAIN annotations : LET e == events[k] IN
    /\ Sampled(e)
    /\ \E sat \in Sats : failing[sat] = {} /\
         (\/ sky[sat] \cap 0..Duration = e.start..e.end
          \/ 0..Duration \ sky[sat] = e.start..e.end)
    => annotations[k].changed
=============================================================================
