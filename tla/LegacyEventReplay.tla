--------------------------- MODULE LegacyEventReplay ---------------------------
(***************************************************************************)
(* tc_event_replay_calibrated.py, the single-direction event replay: a tbf *)
(* at the root of one device and a netem below it, each set by a command   *)
(* of its own, then a line in the execution log.  The program handles no   *)
(* signal, so that Ctrl-C, the only way out of --loop, ends it wherever it *)
(* is.                                                                     *)
(*                                                                         *)
(* A qdisc is abstracted to the event it was set for; event_to_tc_params   *)
(* is in ProfileDocument.  The clock counts profile seconds of one pass.   *)
(***************************************************************************)
EXTENDS Integers, Sequences

CONSTANTS
  Profiles,   \* inputs: sequences of events sorted by start
  Offsets,    \* --event-offset-sec
  MaxClock    \* bound of the clock

VARIABLES
  profile, offset,
  restore,    \* --restore-default-between-events
  loop,       \* --loop
  pc, job, next, lastEnd, previous,
  clock,
  tbf, netem, \* what the two commands set last
  logged      \* the last line of the log

options == <<profile, offset, restore, loop>>
vars == <<options, pc, job, next, lastEnd, previous, clock, tbf, netem, logged>>

Untouched == -1
Default   == 0

Job(action, event, planned, shown) ==
  [action |-> action, event |-> event, planned |-> planned, shown |-> shown]
NoJob == Job("none", 0, 0, Untouched)

Start(k) == profile[k].start + offset
End(k)   == profile[k].end + offset

\* An exception, wherever it is raised, leaves the devices as they are.
Fail == pc' = "failed"

\* shift_events; an event before second 0 is refused before anything is set.
Load ==
  /\ pc = "load"
  /\ pc' = IF \E k \in DOMAIN profile : Start(k) < 0 THEN "failed" ELSE "pass"
  /\ UNCHANGED <<options, job, next, lastEnd, previous, clock, tbf, netem, logged>>

Pass ==
  /\ pc = "pass"
  /\ clock' = 0 /\ next' = 1 /\ lastEnd' = 0 /\ previous' = 0
  /\ job' = Job("baseline", 0, 0, Default)
  /\ pc' = "tbf"
  /\ UNCHANGED <<options, tbf, netem, logged>>

\* Mutant of RestoreFirst: restores where no gap follows, too.
RestoreAlways == restore /\ previous # 0
RestoreFirst == restore /\ previous # 0 /\ Start(next) > lastEnd

EventJob == Job("event_start", next, Start(next), next)

NextJob ==
  /\ pc = "head"
  /\ job' = IF next > Len(profile) THEN Job("final_baseline", 0, lastEnd, Default)
            ELSE IF RestoreFirst THEN Job("event_end", previous, lastEnd, Default)
            ELSE EventJob
  /\ pc' = "wait"
  /\ UNCHANGED <<options, next, lastEnd, previous, clock, tbf, netem, logged>>

\* Mutant of Wait: the wait for the end of an event is left out.
WaitForStart ==
  /\ pc = "wait"
  /\ clock >= job.planned \/ job.action # "event_start"
  /\ pc' = "tbf"
  /\ UNCHANGED <<options, job, next, lastEnd, previous, clock, tbf, netem, logged>>
\* Mutant of Wait: polls for the very second, which may be over.
WaitExactly ==
  /\ pc = "wait"
  /\ clock = job.planned
  /\ pc' = "tbf"
  /\ UNCHANGED <<options, job, next, lastEnd, previous, clock, tbf, netem, logged>>
Wait ==
  /\ pc = "wait"
  /\ clock >= job.planned
  /\ pc' = "tbf"
  /\ UNCHANGED <<options, job, next, lastEnd, previous, clock, tbf, netem, logged>>

\* apply_tc: two commands, either of which the kernel may refuse.
SetTbf ==
  /\ pc = "tbf"
  /\ \/ tbf' = job.shown /\ pc' = "netem"
     \/ Fail /\ UNCHANGED tbf
  /\ UNCHANGED <<options, job, next, lastEnd, previous, clock, netem, logged>>

\* Mutant of SetNetem: a refused netem is not noticed.
SetNetemUnchecked ==
  /\ pc = "netem"
  /\ netem' \in {job.shown, netem} /\ pc' = "log"
  /\ UNCHANGED <<options, job, next, lastEnd, previous, clock, tbf, logged>>
SetNetem ==
  /\ pc = "netem"
  /\ \/ netem' = job.shown /\ pc' = "log"
     \/ Fail /\ UNCHANGED netem
  /\ UNCHANGED <<options, job, next, lastEnd, previous, clock, tbf, logged>>

AfterLog ==
  \/ /\ job.action = "baseline"
     /\ pc' = "head"
     /\ UNCHANGED <<job, next, lastEnd, previous>>
  \/ /\ job.action = "event_end"
     /\ job' = EventJob /\ pc' = "wait"
     /\ UNCHANGED <<next, lastEnd, previous>>
  \/ /\ job.action = "event_start"
     /\ lastEnd' = End(next) /\ previous' = next /\ next' = next + 1
     /\ pc' = "head"
     /\ UNCHANGED job
  \/ /\ job.action = "final_baseline"
     /\ pc' = IF loop THEN "pass" ELSE "done"
     /\ UNCHANGED <<job, next, lastEnd, previous>>

\* Mutant of WriteLog: a line that cannot be written is skipped.
WriteLogIfPossible ==
  /\ pc = "log"
  /\ logged' \in {job, logged} /\ AfterLog
  /\ UNCHANGED <<options, clock, tbf, netem>>
WriteLog ==
  /\ pc = "log"
  /\ \/ logged' = job /\ AfterLog
     \/ Fail /\ UNCHANGED <<logged, job, next, lastEnd, previous>>
  /\ UNCHANGED <<options, clock, tbf, netem>>

Ended == pc \in {"done", "failed", "killed"}

Tick ==
  /\ ~ Ended /\ clock < MaxClock
  /\ clock' = clock + 1
  /\ UNCHANGED <<options, pc, job, next, lastEnd, previous, tbf, netem, logged>>

\* SIGINT and SIGTERM end the program as SIGKILL does.
Kill ==
  /\ ~ Ended
  /\ pc' = "killed"
  /\ UNCHANGED <<options, job, next, lastEnd, previous, clock, tbf, netem, logged>>

Process == Load \/ Pass \/ NextJob \/ Wait \/ SetTbf \/ SetNetem \/ WriteLog
Next == Process \/ Tick \/ Kill \/ (Ended /\ UNCHANGED vars)

Init ==
  /\ profile \in Profiles /\ offset \in Offsets
  /\ restore \in BOOLEAN /\ loop \in BOOLEAN
  /\ pc = "load" /\ job = NoJob /\ logged = NoJob
  /\ next = 1 /\ lastEnd = 0 /\ previous = 0 /\ clock = 0
  /\ tbf = Untouched /\ netem = Untouched

Spec == Init /\ [][Next]_vars
FairSpec == Spec /\ WF_vars(Process) /\ WF_vars(Tick)

(***************************************************************************)
(* Properties                                                              *)
(***************************************************************************)

\* Wherever the program is ended, the log is at most one step behind the
\* device: each qdisc is the one of the last line or the one that was due.
LogOneBehind == {tbf, netem} \subseteq {logged.shown, job.shown}

\* While the program waits, tbf and netem belong together and the log tells
\* them: a half-set device never outlasts the commands without an error.
WholeWhileWaiting ==
  pc \in {"head", "wait", "pass"} => tbf = logged.shown /\ netem = logged.shown

\* The baseline between two events comes after the end of the event it ends,
\* and no event comes before its start, in every pass of the loop.
OnTime ==
  /\ tbf > 0 => clock >= Start(tbf)
  /\ tbf = Default /\ ~ Ended /\ previous > 0 => clock >= End(previous)

\* The abstract schedule, with the last line of the log as its state.
Schedule == INSTANCE EventSchedule WITH
  Stoppable <- FALSE, action <- logged.action, event <- logged.event

\* Each line of the log is a step of the abstract schedule.
ImplementsSchedule == Schedule!Spec

\* Every pass shows every event, also the later passes of a loop, unless the
\* program fails or is ended.
EveryEventShown ==
  \A k \in UNION {DOMAIN p : p \in Profiles} :
    (pc = "pass" /\ k <= Len(profile)) ~> (logged.shown = k \/ Ended)
=============================================================================
