------------------------- MODULE BidirectionalReplay -------------------------
(***************************************************************************)
(* One run of `leo-replay replay` with --direction-mode dual-egress or     *)
(* ifb: _bidirectional_replay (cli.py), prepare_targets, replay_events,    *)
(* replay_timeseries and cleanup_targets (bidirectional_replay.py), down   *)
(* to the single tc/ip command and the single line of the execution log.   *)
(*                                                                         *)
(* The process runs beside a clock, a signal (SIGINT or SIGTERM), a kernel *)
(* that may refuse a command and a SIGKILL.  The clock counts profile      *)
(* seconds since start_wall, so time_scale is the unit of the clock.  The  *)
(* dry run, which runs no command and never waits, is left out.            *)
(***************************************************************************)
EXTENDS TcBackend, ExecutionLog

CONSTANTS
  Options,     \* command lines: see OptionRecord
  Profiles,    \* inputs: sequences of entries sorted by start
  MaxClock,    \* bound of the clock
  CleanStart   \* TRUE: no run and nobody else touched the devices before

OptionRecord ==
  [mode      : {"event", "timeseries"},
   direction : {"dual-egress", "ifb"},
   offset    : Int,        \* --event-offset-sec
   restore   : BOOLEAN,    \* --restore-default-between-events
   setup_only: BOOLEAN,    \* --setup-only
   preserve  : BOOLEAN,    \* --preserve-existing
   cleanup   : BOOLEAN,    \* --cleanup-on-exit
   delete    : BOOLEAN]    \* --delete-ifb-device

\* An event, or a time-series state, whose `end` nothing reads.
Entry == [start : Nat, end : Nat]

\* What validate_document and read_directional_csv guarantee of an input.
WellFormed(p) ==
  /\ Len(p) > 0
  /\ \A i \in 1..Len(p) : p[i].start < p[i].end
  /\ \A i, j \in 1..Len(p) : i <= j => p[i].start <= p[j].start

ASSUME OptionsAssumption  == Options \subseteq OptionRecord
ASSUME ProfilesAssumption == \A p \in Profiles : p \in Seq(Entry) /\ WellFormed(p)
ASSUME MaxClockAssumption == MaxClock \in Nat /\ CleanStart \in BOOLEAN

VARIABLES
  opts, profile,   \* the command line and its input
  pc,              \* where the process is
  outcome,         \* how the body of the try ended
  job,             \* the pair of conditions being applied
  next,            \* index of the entry the loop looks at
  previousEnd, previousId,
  stop,            \* _stop_requested
  clock, log,
  stopMark         \* history: `next` when the signal arrived

control == <<opts, profile, pc, outcome, job, next, previousEnd, previousId,
             stop, clock, log, stopMark>>
vars == <<kernelVars, control>>

-----------------------------------------------------------------------------
(* Program points.                                                          *)

Preparing == {"link", "link_up", "ingress", "filter", "clear_fwd", "clear_rev"}
Pausing   == {"loop", "convert", "wait"}
Applying  == {"apply_fwd", "log_fwd", "apply_rev", "log_rev"}
Replaying == Pausing \cup Applying
Cleaning  == {"finally", "clean_fwd", "clean_ingress", "clean_rev",
              "link_down", "link_delete"}
Ended     == {"exited", "killed"}
Points    == Preparing \cup {"load"} \cup Replaying \cup Cleaning \cup Ended

Actions  == {"none", "baseline", "event_start", "event_end", "final_baseline",
             "timeseries_state"}
Outcomes == {"running", "ok", "unprepared", "bad_input", "tc_failed", "log_failed"}

Job(action, id, planned, condition) ==
  [action |-> action, id |-> id, planned |-> planned, condition |-> condition]

\* The event times the loop computes from the profile.
Start(k) == profile[k].start + opts.offset
End(k)   == profile[k].end + opts.offset

\* Mutant of Later: the last end seen instead of the latest one.
LaterLast(a, b) == b

Later(a, b) == IF a < b THEN b ELSE a

Goto(point) == pc' = point /\ UNCHANGED outcome

\* Mutant of RaiseUnprepared: a refused set-up command is not checked.
RaiseIgnored == pc' = "load" /\ UNCHANGED outcome

\* An exception before the try block leaves the program at once.
RaiseUnprepared == pc' = "exited" /\ outcome' = "unprepared"

\* Leaving the try block, normally or by an exception.
Leave(how) == pc' = "finally" /\ outcome' = how

inputVars  == <<opts, profile>>
loopVars   == <<next, previousEnd, previousId>>
environment == <<stop, clock, stopMark>>

-----------------------------------------------------------------------------
(* prepare_targets, called outside the try block: setup_ifb in ifb mode,    *)
(* then the old root qdiscs are cleared unless --preserve-existing.         *)

AfterSetup == IF opts.preserve THEN "load" ELSE "clear_fwd"

LinkSetup ==
  /\ pc = "link"
  /\ \/ EnsureIfbLink /\ Goto("link_up")
     \/ ifb = "absent" /\ Refused /\ RaiseUnprepared
  /\ UNCHANGED <<inputVars, loopVars, environment, job, log>>

LinkUp ==
  /\ pc = "link_up"
  /\ \/ SetIfbUp /\ Goto("ingress")
     \/ Refused /\ RaiseUnprepared
  /\ UNCHANGED <<inputVars, loopVars, environment, job, log>>

IngressSetup ==
  /\ pc = "ingress"
  /\ \/ ReplaceIngress /\ Goto("filter")
     \/ Refused /\ RaiseUnprepared
  /\ UNCHANGED <<inputVars, loopVars, environment, job, log>>

FilterSetup ==
  /\ pc = "filter"
  /\ \/ ReplaceRedirectFilter /\ Goto(AfterSetup)
     \/ Refused /\ RaiseUnprepared
  /\ UNCHANGED <<inputVars, loopVars, environment, job, log>>

ClearExisting ==
  /\ \/ pc = "clear_fwd" /\ ClearRoot("forward") /\ Goto("clear_rev")
     \/ pc = "clear_rev" /\ ClearRoot("reverse") /\ Goto("load")
  /\ UNCHANGED <<inputVars, loopVars, environment, job, log>>

-----------------------------------------------------------------------------
(* The body of the try block.  A log that cannot be opened, an input that   *)
(* does not validate and a baseline that does not convert all raise here.   *)

Load ==
  /\ pc = "load"
  /\ \/ /\ opts.mode = "event"
        /\ job' = Job("baseline", 0, 0, Baseline)
        /\ Goto("apply_fwd")
     \/ /\ opts.mode = "timeseries"
        /\ Goto("loop")
        /\ UNCHANGED job
     \/ Leave("bad_input") /\ UNCHANGED job
  /\ UNCHANGED <<kernelVars, inputVars, loopVars, environment, log>>

\* Mutant of Finishing: the loop does not look at the stop flag.
FinishingDeaf == next > Len(profile)

Finishing == next > Len(profile) \/ stop

\* replay_timeseries: the state at the head of the loop becomes the next pair.
NextState ==
  /\ pc = "loop" /\ opts.mode = "timeseries"
  /\ IF Finishing
       THEN Leave("ok") /\ UNCHANGED job
       ELSE /\ job' = Job("timeseries_state", 0, profile[next].start, next)
            /\ Goto("wait")
  /\ UNCHANGED <<kernelVars, inputVars, loopVars, environment, log>>

\* Mutant of FinishEvents: a stop returns without the final baseline.
FinishEventsAtOnce ==
  /\ pc = "loop" /\ opts.mode = "event"
  /\ Finishing
  /\ IF stop
       THEN Leave("ok") /\ UNCHANGED job
       ELSE /\ job' = Job("final_baseline", previousId, previousEnd, Baseline)
            /\ Goto("wait")
  /\ UNCHANGED <<kernelVars, inputVars, loopVars, environment, log>>

\* replay_events, head of the loop.  A stop leaves it, and what follows it is
\* still done: the wait for previous_end and the final baseline.
FinishEvents ==
  /\ pc = "loop" /\ opts.mode = "event"
  /\ Finishing
  /\ job' = Job("final_baseline", previousId, previousEnd, Baseline)
  /\ Goto("wait")
  /\ UNCHANGED <<kernelVars, inputVars, loopVars, environment, log>>

\* Mutant of StartsTooEarly: the shifted start is not checked.
StartsUnchecked == FALSE

StartsTooEarly == Start(next) < 0

RejectNegativeStart ==
  /\ pc = "loop" /\ opts.mode = "event"
  /\ ~ Finishing
  /\ StartsTooEarly
  /\ Leave("bad_input")
  /\ UNCHANGED <<kernelVars, inputVars, loopVars, environment, job, log>>

\* Mutant of RestoreBetween: restores whether or not there is a gap.
RestoreAlways == opts.restore /\ previousId # 0

\* Mutant of RestoreBetween: looks at the end of the last event only.
RestoreAfterLast ==
  opts.restore /\ previousId # 0 /\ Start(next) > End(previousId)

\* A gap before this event: the baseline is put back at the latest end so far.
RestoreBetween ==
  opts.restore /\ previousId # 0 /\ Start(next) > previousEnd

NextEvent ==
  /\ pc = "loop" /\ opts.mode = "event"
  /\ ~ Finishing
  /\ ~ StartsTooEarly
  /\ IF RestoreBetween
       THEN /\ job' = Job("event_end", previousId, previousEnd, Baseline)
            /\ Goto("wait")
       ELSE Goto("convert") /\ UNCHANGED job
  /\ UNCHANGED <<kernelVars, inputVars, loopVars, environment, log>>

\* Mutant of ConvertEvent: an event that does not convert is tried again.
ConvertRetry ==
  /\ pc = "convert"
  /\ \/ job' = Job("event_start", next, Start(next), next) /\ Goto("wait")
     \/ Goto("loop") /\ UNCHANGED job
  /\ UNCHANGED <<kernelVars, inputVars, loopVars, environment, log>>

\* event_direction_conditions and the event effects; a value the validation
\* let through may still be refused here, in the middle of the replay.
ConvertEvent ==
  /\ pc = "convert"
  /\ \/ job' = Job("event_start", next, Start(next), next) /\ Goto("wait")
     \/ Leave("bad_input") /\ UNCHANGED job
  /\ UNCHANGED <<kernelVars, inputVars, loopVars, environment, log>>

\* Mutant of WaitDone: wakes up one second early.
WaitShort ==
  /\ pc = "wait"
  /\ clock + 1 >= job.planned
  /\ Goto("apply_fwd")
  /\ UNCHANGED <<kernelVars, inputVars, loopVars, environment, job, log>>

\* _wait_until looks at the clock only: a signal does not cut it short.
WaitDone ==
  /\ pc = "wait"
  /\ clock >= job.planned
  /\ Goto("apply_fwd")
  /\ UNCHANGED <<kernelVars, inputVars, loopVars, environment, job, log>>

-----------------------------------------------------------------------------
(* _apply_direction_pair: the command, then its log line, forward first.    *)

\* Mutant of Apply: a refused replacement is not checked.
ApplyUnchecked(d, here, then) ==
  /\ pc = here
  /\ \/ ReplaceRoot(d, job.condition) /\ Goto(then)
     \/ Refused /\ Goto(then)
  /\ UNCHANGED <<inputVars, loopVars, environment, job, log>>

Apply(d, here, then) ==
  /\ pc = here
  /\ \/ ReplaceRoot(d, job.condition) /\ Goto(then)
     \/ Refused /\ Leave("tc_failed")
  /\ UNCHANGED <<inputVars, loopVars, environment, job, log>>

ApplyForward == Apply("forward", "apply_fwd", "log_fwd")
\* Mutant of ApplyReverse: both conditions go to the forward device.
ApplyReverseForward == Apply("forward", "apply_rev", "log_rev")

ApplyReverse == Apply("reverse", "apply_rev", "log_rev")

Record(d) == LogRecord(job.action, job.id, d, job.planned, job.condition)

LogForward ==
  /\ pc = "log_fwd"
  /\ \/ log' = Append(log, Record("forward")) /\ Goto("apply_rev")
     \/ Leave("log_failed") /\ UNCHANGED log
  /\ UNCHANGED <<kernelVars, inputVars, loopVars, environment, job>>

\* What the caller does once the pair is applied and logged.
PairDone ==
  \/ /\ job.action \in {"baseline", "event_end"}
     /\ Goto(IF job.action = "baseline" THEN "loop" ELSE "convert")
     /\ UNCHANGED loopVars
  \/ /\ job.action = "event_start"
     /\ previousEnd' = Later(previousEnd, End(next))
     /\ previousId' = next
     /\ next' = next + 1
     /\ Goto("loop")
  \/ /\ job.action = "timeseries_state"
     /\ next' = next + 1
     /\ IF opts.setup_only THEN Leave("ok") ELSE Goto("loop")
     /\ UNCHANGED <<previousEnd, previousId>>
  \/ /\ job.action = "final_baseline"
     /\ Leave("ok")
     /\ UNCHANGED loopVars

LogReverse ==
  /\ pc = "log_rev"
  /\ \/ log' = Append(log, Record("reverse")) /\ PairDone
     \/ Leave("log_failed") /\ UNCHANGED <<log, loopVars>>
  /\ UNCHANGED <<kernelVars, inputVars, environment, job>>

-----------------------------------------------------------------------------
(* The finally block: cleanup_targets under --cleanup-on-exit, every        *)
(* command of it unchecked.                                                 *)

\* Mutant of AfterForward: the ingress redirect is forgotten.
AfterForwardOnly == "clean_rev"

AfterForward == IF opts.direction = "ifb" THEN "clean_ingress" ELSE "clean_rev"

AfterReverse ==
  IF opts.direction = "ifb" /\ opts.delete THEN "link_down" ELSE "exited"

\* Mutant of Finally: cleans up after a normal end only.
FinallyOnSuccess ==
  /\ pc = "finally"
  /\ Goto(IF opts.cleanup /\ outcome = "ok" THEN "clean_fwd" ELSE "exited")
  /\ UNCHANGED <<kernelVars, inputVars, loopVars, environment, job, log>>

Finally ==
  /\ pc = "finally"
  /\ Goto(IF opts.cleanup THEN "clean_fwd" ELSE "exited")
  /\ UNCHANGED <<kernelVars, inputVars, loopVars, environment, job, log>>

Cleanup ==
  /\ \/ pc = "clean_fwd" /\ ClearRoot("forward") /\ Goto(AfterForward)
     \/ pc = "clean_ingress" /\ ClearIngress /\ Goto("clean_rev")
     \/ pc = "clean_rev" /\ ClearRoot("reverse") /\ Goto(AfterReverse)
     \/ pc = "link_down" /\ SetIfbDown /\ Goto("link_delete")
     \/ pc = "link_delete" /\ DeleteIfbLink /\ Goto("exited")
  /\ UNCHANGED <<inputVars, loopVars, environment, job, log>>

-----------------------------------------------------------------------------
(* What happens around the process.                                         *)

\* Time passes while the replay runs.
Tick ==
  /\ pc \in Replaying
  /\ clock < MaxClock
  /\ clock' = clock + 1
  /\ UNCHANGED <<kernelVars, inputVars, loopVars, pc, outcome, job, stop, log,
                 stopMark>>

\* SIGINT or SIGTERM: the handler sets the flag and the code goes on.
Signal ==
  /\ pc \notin Ended
  /\ ~ stop
  /\ stop' = TRUE
  /\ stopMark' = next
  /\ UNCHANGED <<kernelVars, inputVars, loopVars, pc, outcome, job, clock, log>>

\* SIGKILL, a power cut: nothing below the failing step is run.
Kill ==
  /\ pc \notin Ended
  /\ pc' = "killed"
  /\ UNCHANGED <<kernelVars, inputVars, loopVars, environment, outcome, job, log>>

Ending == pc \in Ended /\ UNCHANGED vars

Prepare == LinkSetup \/ LinkUp \/ IngressSetup \/ FilterSetup \/ ClearExisting
Replay  == \/ Load \/ NextState \/ FinishEvents \/ RejectNegativeStart
           \/ NextEvent \/ ConvertEvent \/ WaitDone
           \/ ApplyForward \/ LogForward \/ ApplyReverse \/ LogReverse
Process == Prepare \/ Replay \/ Finally \/ Cleanup
Next    == Process \/ Tick \/ Signal \/ Kill \/ Ending

-----------------------------------------------------------------------------
(* Where a run may start: a clean machine, or what an earlier run or        *)
(* somebody else left on it.                                                *)

LeftoverOK ==
  /\ redirect => ingress /\ ifb = "up"
  /\ ifb = "absent" /\ opts.direction = "ifb" => qdisc["reverse"] = NoQdisc
  /\ opts.direction = "dual-egress" => ifb = "absent" /\ ~ ingress
  /\ CleanStart => /\ ifb = "absent" /\ ~ ingress
                   /\ \A d \in Directions : qdisc[d] = NoQdisc

FirstPoint == IF opts.direction = "ifb" THEN "link" ELSE AfterSetup

Init ==
  /\ opts \in Options
  /\ profile \in Profiles
  /\ qdisc \in [Directions -> {NoQdisc, ForeignQdisc}]
  /\ ifb \in Links /\ ingress \in BOOLEAN /\ redirect \in BOOLEAN
  /\ LeftoverOK
  /\ faults = 0 /\ silent = 0
  /\ pc = FirstPoint
  /\ outcome = "running"
  /\ job = Job("none", 0, 0, Baseline)
  /\ next = 1 /\ previousEnd = 0 /\ previousId = 0
  /\ stop = FALSE /\ stopMark = 0
  /\ clock = 0
  /\ log = <<>>

\* The process is scheduled and time goes on; signals, refusals and kills may
\* happen or not.
Spec     == Init /\ [][Next]_vars
FairSpec == Spec /\ WF_vars(Process) /\ WF_vars(Tick)

-----------------------------------------------------------------------------
(* Properties.                                                              *)

\* Every variable has the values its code can give it; in particular the loop
\* never leaves the profile and nothing is planned before the replay starts.
TypeOK ==
  /\ KernelTypeOK
  /\ opts \in Options /\ profile \in Profiles
  /\ pc \in Points /\ outcome \in Outcomes
  /\ job \in [action : Actions, id : Nat, planned : Nat, condition : Nat]
  /\ next \in 1..(Len(profile) + 1)
  /\ previousEnd \in Nat /\ previousId \in Nat
  /\ stop \in BOOLEAN /\ stopMark \in Nat
  /\ clock \in 0..MaxClock
  /\ log \in Seq([action : Actions, id : Nat, direction : Directions,
                  planned : Nat, parameters : Nat])

\* EventEnds(k): the window of event k, as the profile and the offset say it.
EventEnds(k) == profile[k].end + opts.offset

\* While the events are replayed, a device is back on the baseline only when
\* every event that was started is over, also when a short event lies inside a
\* long one (previous_end is the maximum, not the last end).
NoBaselineDuringEvent ==
  opts.mode = "event" /\ pc \in Replaying =>
    \A d \in Directions : qdisc[d] = Baseline =>
      \A k \in 1..(next - 1) : EventEnds(k) <= clock

\* Between two applications both devices show the event started last (or the
\* baseline, before the first and once every started event is over): no pair
\* of replay_events is left half applied by a step that did not fail.
LatestEventShown ==
  opts.mode = "event" /\ pc \in Pausing =>
    \A d \in Directions :
      \/ qdisc[d] = next - 1
      \/ qdisc[d] = Baseline /\ \A k \in 1..(next - 1) : EventEnds(k) <= clock

\* No event is put on a device before its start: neither the restored baseline
\* nor a late earlier event makes the loop run ahead of the profile.
NeverEarly ==
  opts.mode = "event" /\ pc \in Replaying =>
    \A d \in Directions : qdisc[d] > 0 => clock >= Start(qdisc[d])

\* The log is in the order of the plan: a restored baseline is never planned
\* after the event that follows it, nor the final one before an event.
PlannedMonotone ==
  \A i, j \in 1..Len(log) : i <= j => log[i].planned <= log[j].planned

\* The parameters of the last record of direction d.
LastLogged(d, condition) ==
  \E i \in 1..Len(log) :
    /\ log[i].direction = d /\ log[i].parameters = condition
    /\ \A j \in (i + 1)..Len(log) : log[j].direction # d

\* Once a pair was applied, the log tells what each device carries, whatever
\* stopped the replay, except between a command and its own log line.
LogTellsDevices ==
  /\ log # <<>>
  /\ \/ pc \in Pausing \cup {"apply_fwd"}
     \/ pc = "finally" /\ outcome # "log_failed"
  => \A d \in Directions :
       \/ LastLogged(d, qdisc[d])
       \/ d = "reverse" /\ Len(log) = 1

\* The log of an event replay that ended normally, stopped or not, is one the
\* repeated-lab summary can pair: each key has its two directions, once each.
CompletedLogAccepted ==
  outcome = "ok" /\ opts.mode = "event" => SummaryAccepts(log)

\* An event replay that ends normally, a signal included, leaves the baseline
\* on both devices before any cleanup.
CompletedRestoresBaseline ==
  pc = "finally" /\ outcome = "ok" /\ opts.mode = "event" =>
    \A d \in Directions : qdisc[d] = Baseline

\* After a signal the loop starts at most the entry it was already working on.
StopIsPrompt == stop => next <= stopMark + 1

\* The replay body only runs in ifb mode with the traffic redirected to a link
\* that is up: a refused preparation step never lets it run on unshaped traffic.
ShapedWhileReplaying ==
  pc \in Replaying /\ opts.direction = "ifb" => redirect /\ ifb = "up"

\* A time series is applied in order, every state once and none before its
\* second; between two states and at a normal end both devices carry the last.
SeriesFollowsProfile ==
  /\ opts.mode = "timeseries" /\ next > 1
  /\ \/ pc \in Pausing
     \/ pc = "finally" /\ outcome = "ok"
  => /\ clock >= profile[next - 1].start
     /\ Len(log) = 2 * (next - 1)
     /\ \A d \in Directions : qdisc[d] = next - 1

\* Ingress traffic is never redirected to a link that is missing or down, at
\* any step of set-up and cleanup and after a crash, unless the kernel refused
\* an unchecked cleanup command.
RedirectNeedsLink == silent = 0 /\ redirect => ifb = "up"

\* With --cleanup-on-exit a replay that got past the preparation leaves nothing
\* behind, however its body ended, unless the kernel refused a cleanup command.
CleanupComplete ==
  /\ pc = "exited" /\ opts.cleanup
  /\ outcome # "unprepared" /\ silent = 0
  => /\ \A d \in Directions : qdisc[d] = NoQdisc
     /\ ~ ingress /\ ~ redirect
     /\ opts.direction = "ifb" /\ opts.delete => ifb = "absent"

\* README.md:264: "Use --cleanup-on-exit to remove qdiscs and ingress redirects
\* when the experiment terminates."  Started on a clean machine, a run that
\* terminates with that option should leave no ingress qdisc or redirect.
CleanupOnExitRemoves ==
  pc = "exited" /\ opts.cleanup /\ silent = 0 => ~ ingress /\ ~ redirect

\* Every run ends: the plan is finite and no wait lasts for ever.
Terminates == <>(pc \in Ended)

\* A stopped event replay gets back to the baseline, unless a later step fails
\* or the process is killed.
StopRestoresBaseline ==
  (stop /\ opts.mode = "event" /\ pc \in Pausing) ~>
    \/ \A d \in Directions : qdisc[d] = Baseline
    \/ outcome \notin {"running", "ok"}
    \/ pc = "killed"

\* The last line of the log whose pair is complete: forward and reverse lines
\* alternate.
LastPair ==
  LET complete == 2 * (Len(log) \div 2)
  IN  IF complete = 0 THEN [action |-> "none", id |-> 0] ELSE log[complete]

\* The abstract schedule, with the last complete pair of the log as its state.
Schedule == INSTANCE EventSchedule WITH
  Stoppable <- TRUE,
  action    <- LastPair.action,
  event     <- IF LastPair.action = "final_baseline" THEN 0 ELSE LastPair.id

\* An event replay implements the abstract schedule: each pair of log lines is
\* one step of it, and a stop only leaves out events at the end.
ImplementsSchedule ==
  Schedule!Init /\ [][opts.mode = "event" => Schedule!Next]_(Schedule!vars)
=============================================================================
