------------------------- MODULE VisualizationTimeline -------------------------
(***************************************************************************)
(* visualization/bundle.py: one frame for each observation of a selection  *)
(* document, with the communication sample in force, the nearest visibility*)
(* of each satellite and the events of that moment.  Times are integers;   *)
(* a sample or an event is known by its place in its file.                 *)
(***************************************************************************)
EXTENDS Integers, Sequences

CONSTANTS
  Inputs,       \* [observations, start, profile, visibility, events]
  Tolerance,    \* of the visibility
  None

VARIABLES
  input,        \* what was read
  frames        \* built so far

vars == <<input, frames>>

Times == {input.observations[k] : k \in DOMAIN input.observations}
First == CHOOSE t \in Times : \A u \in Times : t <= u

\* Relative seconds count from --profile-start-utc or the first observation.
ProfileStart == IF input.start = None THEN First ELSE input.start
SampleTime(i) == ProfileStart + input.profile[i]

\* Sorted by time, rows of the same time in the order of the file.
\* Mutant of Precedes: the rows stay as they are in the file.
PrecedesInFile(i, j) == i < j
Precedes(i, j) ==
  SampleTime(i) < SampleTime(j) \/ (SampleTime(i) = SampleTime(j) /\ i < j)

Samples == DOMAIN input.profile
\* _latest_profile_sample: the loop ends at the first later one; before all of
\* them it is the first.
Communication(t) ==
  LET Passed == {i \in Samples : \A j \in Samples : j = i \/ Precedes(j, i) => SampleTime(j) <= t}
  IN  IF Samples = {} THEN None
      ELSE IF Passed = {} THEN CHOOSE i \in Samples : \A j \in Samples : j = i \/ Precedes(i, j)
      ELSE CHOOSE i \in Passed : \A j \in Passed : j = i \/ Precedes(j, i)

Sats == {input.visibility[i].sat : i \in DOMAIN input.visibility}
Off(i, t) == IF input.visibility[i].t < t THEN t - input.visibility[i].t ELSE input.visibility[i].t - t

\* _nearest_visibility: of two as near the first one read.
\* Mutant of Visibility: the last one within the tolerance.
VisibilityLast(sat, t) ==
  LET Near == {i \in DOMAIN input.visibility : input.visibility[i].sat = sat /\ Off(i, t) <= Tolerance}
  IN  IF Near = {} THEN None ELSE CHOOSE i \in Near : \A j \in Near : j <= i
Visibility(sat, t) ==
  LET Near == {i \in DOMAIN input.visibility : input.visibility[i].sat = sat /\ Off(i, t) <= Tolerance}
  IN  IF Near = {} THEN None
      ELSE CHOOSE i \in Near : \A j \in Near : Off(i, t) < Off(j, t) \/ (Off(i, t) = Off(j, t) /\ i <= j)

\* _active_events: both ends belong to the event.
\* Mutant of Active: neither end does.
ActiveInside(t) ==
  {k \in DOMAIN input.events : input.events[k].start < t - ProfileStart /\ t - ProfileStart < input.events[k].end}
Active(t) ==
  {k \in DOMAIN input.events : input.events[k].start <= t - ProfileStart /\ t - ProfileStart <= input.events[k].end}

FrameOf(t) == [t |-> t, communication |-> Communication(t),
               visibility |-> [sat \in Sats |-> Visibility(sat, t)], events |-> Active(t)]

Init == input \in Inputs /\ frames = <<>>

Shown == {frames[k].t : k \in DOMAIN frames}

\* The observations in the order of their time.
\* Mutant of AddFrame: in the order of the document.
AddFrameAsRead ==
  /\ Len(frames) < Len(input.observations)
  /\ frames' = Append(frames, FrameOf(input.observations[Len(frames) + 1]))
  /\ UNCHANGED input
AddFrame ==
  /\ \E t \in Times \ Shown :
       /\ \A u \in Times \ Shown : t <= u
       /\ frames' = Append(frames, FrameOf(t))
  /\ UNCHANGED input

Next == AddFrame
Spec == Init /\ [][Next]_vars

(***************************************************************************)
(* Properties                                                              *)
(***************************************************************************)

Built == Shown = Times

\* What a frame shows is what a replay of the same profile had in force then:
\* the last row of the file among those with the greatest second not after it.
ShowsWhatWasInForce ==
  \A k \in DOMAIN frames :
    LET t == frames[k].t
        c == frames[k].communication
        Due == {i \in Samples : SampleTime(i) <= t}
    IN  Due # {} =>
          /\ c \in Due
          /\ \A i \in Due : SampleTime(i) <= SampleTime(c)
          /\ \A i \in Due : SampleTime(i) = SampleTime(c) => i <= c

\* As the frames advance, so does the sample they show, and a frame before the
\* profile shows the sample that comes first.
CommunicationAdvances ==
  \A k, m \in DOMAIN frames : k < m =>
    /\ frames[k].t < frames[m].t
    /\ Samples # {} => SampleTime(frames[k].communication) <= SampleTime(frames[m].communication)

\* A visibility sample taken at the very time of a frame is never displaced by
\* one within the tolerance, and when the frames are farther apart than twice
\* the tolerance no sample is shown in two of them.
OwnVisibility ==
  \A k \in DOMAIN frames : \A sat \in Sats :
    LET t == frames[k].t
        v == frames[k].visibility[sat]
    IN  /\ (\E i \in DOMAIN input.visibility : input.visibility[i].sat = sat /\ input.visibility[i].t = t)
             => v # None /\ input.visibility[v].t = t
        /\ \A m \in 1..(k - 1) : t - frames[m].t > 2 * Tolerance /\ v # None
             => frames[m].visibility[sat] # v

\* An event that lasts at least as long as the observations are apart is seen
\* in a frame, if it lies within them.
Gap == 2
EveryLongEventSeen ==
  Built /\ (\A t \in Times : t = First \/ \E u \in Times : t - Gap <= u /\ u < t) =>
    \A k \in DOMAIN input.events :
      LET e == input.events[k] IN
      e.end - e.start >= Gap /\ ProfileStart + e.start >= First
        /\ (\E t \in Times : t >= ProfileStart + e.end)
      => \E m \in DOMAIN frames : k \in frames[m].events
=============================================================================
