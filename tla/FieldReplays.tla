---------------------------- MODULE FieldReplays ----------------------------
(***************************************************************************)
(* The tools of the field tests: the script that runs an experiment on     *)
(* remote machines, and the two replays of one direction it was written    *)
(* for.  The script sees of a replay how long it lasts and nothing else,   *)
(* so a behaviour is that of one of them; the others rest in an initial    *)
(* state of theirs.                                                        *)
(***************************************************************************)
EXTENDS Integers, Sequences

CONSTANTS
  Profiles, Offsets,                          \* of LegacyEventReplay
  Files,                                      \* of LegacySeriesReplay
  Modes, Formats, Lengths, IterMax,           \* of RemoteExperiment
  Duration, Linger, Lead, StartDelay, Tries,
  MaxClock, MaxFaults                         \* bounds

\* What the loaders leave of a profile and of a file of rows.
ASSUME InputsAssumption ==
  /\ Profiles \subseteq Seq([start : Int, end : Int]) /\ Offsets \subseteq Int
  /\ Files \subseteq Seq(Int)

\* At least one iteration; no wait is negative.
ASSUME WaitsAssumption ==
  /\ IterMax \in Nat \ {0}
  /\ Duration \in Nat /\ Linger \in Nat /\ Lead \in Nat /\ StartDelay \in Nat /\ Lengths \subseteq Nat

VARIABLES
  tool,                                                          \* the one that runs
  profile, offset, restore, loop, pc, job, next, lastEnd,        \* of LegacyEventReplay
  previous, clock, tbf, netem, logged,
  file, preserve, setupOnly, rows, at, line, stop, now, qdisc,   \* of LegacySeriesReplay
  mark,
  mode, format, length, doing, iter, tries, seconds, until,      \* of RemoteExperiment
  launched, iperf, ping, router, kept, orphan, seen, fetched, inputs, lines, faults

eventsVars == <<profile, offset, restore, loop, pc, job, next, lastEnd, previous, clock,
                tbf, netem, logged>>
seriesVars == <<file, preserve, setupOnly, rows, at, line, stop, now, qdisc, mark>>
remoteVars == <<mode, format, length, doing, iter, tries, seconds, until,
                launched, iperf, ping, router, kept, orphan, seen, fetched, inputs, lines, faults>>
vars == <<tool, eventsVars, seriesVars, remoteVars>>

Events == INSTANCE LegacyEventReplay
Series == INSTANCE LegacySeriesReplay WITH pc <- at, next <- line, clock <- now
Remote == INSTANCE RemoteExperiment WITH
  pc <- doing, clock <- seconds, qdisc <- router, logged <- seen, rows <- lines

(***************************************************************************)
(* One of them at a time                                                   *)
(***************************************************************************)

Any(S) == CHOOSE x \in S : TRUE

EventsRest ==
  /\ profile = Any(Profiles) /\ offset = Any(Offsets) /\ restore = FALSE /\ loop = FALSE
  /\ Events!Init
SeriesRest ==
  /\ file = Any(Files) /\ preserve = FALSE /\ setupOnly = FALSE /\ qdisc = 0
  /\ Series!Init
RemoteRest ==
  /\ mode = Any(Modes) /\ format = Any(Formats) /\ length = Any(Lengths)
  /\ iperf = [k \in 0..IterMax |-> "none"] /\ router = FALSE
  /\ Remote!Init

Init ==
  \/ tool = "events" /\ Events!Init /\ SeriesRest /\ RemoteRest
  \/ tool = "series" /\ Series!Init /\ EventsRest /\ RemoteRest
  \/ tool = "remote" /\ Remote!Init /\ EventsRest /\ SeriesRest

EventsStep == tool = "events" /\ Events!Next /\ UNCHANGED <<tool, seriesVars, remoteVars>>
SeriesStep == tool = "series" /\ Series!Next /\ UNCHANGED <<tool, eventsVars, remoteVars>>
RemoteStep == tool = "remote" /\ Remote!Next /\ UNCHANGED <<tool, eventsVars, seriesVars>>
Next == EventsStep \/ SeriesStep \/ RemoteStep

\* The programs are scheduled, iperf3 and ping end and time goes on; signals, kills and
\* refused commands may happen or not.
Spec ==
  /\ Init /\ [][Next]_vars
  /\ WF_vars(tool = "events" /\ Events!Process /\ UNCHANGED <<tool, seriesVars, remoteVars>>)
  /\ WF_vars(tool = "events" /\ Events!Tick /\ UNCHANGED <<tool, seriesVars, remoteVars>>)
  /\ WF_vars(tool = "series" /\ Series!Process /\ UNCHANGED <<tool, eventsVars, remoteVars>>)
  /\ WF_vars(tool = "series" /\ Series!Tick /\ UNCHANGED <<tool, eventsVars, remoteVars>>)
  /\ WF_vars(tool = "remote" /\ Remote!Script /\ UNCHANGED <<tool, eventsVars, seriesVars>>)
  /\ WF_vars(tool = "remote" /\ Remote!EndMeasurement /\ UNCHANGED <<tool, eventsVars, seriesVars>>)
  /\ WF_vars(tool = "remote" /\ Remote!Tick /\ UNCHANGED <<tool, eventsVars, seriesVars>>)

(***************************************************************************)
(* Properties: what the tools promise, out of the parts of their modules   *)
(***************************************************************************)

\* The device, the log and the clock agree: the log is at most one step behind
\* the device, nothing half set outlasts its commands, no event is shown before
\* its start nor the baseline before its end; a series shows the row whose second
\* came last, and after a signal sets at most the row it slept for.
ReplaysTrue ==
  /\ Events!LogOneBehind
  /\ Events!WholeWhileWaiting
  /\ Events!OnTime
  /\ Series!LatestRowShown
  /\ Series!StopIsPrompt

\* Each line of the log is a step of the abstract schedule.
ImplementsSchedule == Events!ImplementsSchedule

\* The lines of the results come in order, each from an iperf3 that had ended and
\* a ping log that reaches to the end of the replay, without anything waiting for
\* them; a replay longer than the measurement leaves no iteration out, save that
\* an event experiment over a v1 document leaves them all out; and the router is
\* clean when a measurement starts and when the script is over, except for a
\* deletion that was refused or the last row of an interrupted replay.
ResultsSound ==
  /\ Remote!RowsFromEndedMeasurements
  /\ Remote!RowsInOrder
  /\ Remote!LongReplayCompletes
  /\ Remote!RouterCleaned

\* Every pass of the loop shows every event, the replay of a series ends, and so
\* does the script, and the measurement it left behind some time after.
WorkGetsDone ==
  /\ Events!EveryEventShown
  /\ tool = "series" => Series!Ends
  /\ tool = "remote" => Remote!Ends
=============================================================================
