---------------------- MODULE BidirectionalReplayProofs ----------------------
(***************************************************************************)
(* Safety of BidirectionalReplay for every set of command lines, every     *)
(* well-formed input and every number of refused commands.                 *)
(*                                                                         *)
(* NoBaselineDuringEvent is not inductive: a step may put the baseline     *)
(* back only because of what the pending pair of conditions (job) was      *)
(* planned for and how far its application got.  ScheduleInv adds that.    *)
(* The first half is about the devices, the second about the log.          *)
(***************************************************************************)
EXTENDS BidirectionalReplay, TLAPS

InJob == pc \in {"wait"} \cup Applying

\* The pair being applied belongs to the entry the loop looks at.
JobOK ==
  InJob =>
    /\ job.action # "none"
    /\ job.action = "baseline" =>
         opts.mode = "event" /\ next = 1 /\ job.condition = Baseline
    /\ job.action = "event_start" =>
         opts.mode = "event" /\ next <= Len(profile)
         /\ job.condition = next /\ job.planned = Start(next)
    /\ job.action = "event_end" =>
         opts.mode = "event" /\ next <= Len(profile) /\ Start(next) >= 0
         /\ job.condition = Baseline /\ job.planned = previousEnd
    /\ job.action = "final_baseline" =>
         opts.mode = "event"
         /\ job.condition = Baseline /\ job.planned = previousEnd
    /\ job.action = "timeseries_state" =>
         opts.mode = "timeseries" /\ next <= Len(profile)
         /\ job.condition = next

ConvertOK ==
  pc = "convert" => opts.mode = "event" /\ next <= Len(profile) /\ Start(next) >= 0

\* The loop starts at the first entry.
FreshOK == pc \in Preparing \cup {"load"} => next = 1

\* How far the application of the pair got.
PairOK ==
  /\ pc \in Applying => clock >= job.planned
  /\ pc \in {"log_fwd", "apply_rev", "log_rev"} => qdisc["forward"] = job.condition
  /\ pc = "log_rev" => qdisc["reverse"] = job.condition

\* previous_end is past the end of every event that was started.
EndsOK ==
  opts.mode = "event" => \A k \in 1..(next - 1) : EventEnds(k) <= previousEnd

ScheduleInv ==
  /\ TypeOK /\ JobOK /\ ConvertOK /\ FreshOK /\ PairOK /\ EndsOK
  /\ NoBaselineDuringEvent

-----------------------------------------------------------------------------
\* What the assumptions on the constants say of the input of a run.
LEMMA InputFacts ==
  ASSUME opts \in Options, profile \in Profiles
  PROVE  /\ opts \in OptionRecord
         /\ profile \in Seq(Entry)
         /\ Len(profile) \in Nat /\ Len(profile) > 0
         /\ \A k \in 1..Len(profile) :
              /\ profile[k].start \in Nat /\ profile[k].end \in Nat
              /\ Start(k) \in Int /\ EventEnds(k) \in Int /\ End(k) = EventEnds(k)
              /\ Start(k) < EventEnds(k)
<1>1. opts \in OptionRecord
  BY OptionsAssumption DEF OptionsAssumption
<1>2. opts.offset \in Int
  BY <1>1 DEF OptionRecord
<1>3. profile \in Seq(Entry) /\ WellFormed(profile)
  BY ProfilesAssumption DEF ProfilesAssumption
<1>4. Len(profile) \in Nat /\ Len(profile) > 0
  BY <1>3 DEF WellFormed
<1>5. ASSUME NEW k \in 1..Len(profile)
      PROVE  /\ profile[k].start \in Nat /\ profile[k].end \in Nat
             /\ Start(k) \in Int /\ EventEnds(k) \in Int /\ End(k) = EventEnds(k)
             /\ Start(k) < EventEnds(k)
  <2>1. profile[k] \in Entry
    BY <1>3
  <2>2. profile[k].start < profile[k].end
    BY <1>3 DEF WellFormed
  <2> QED
    BY <1>2, <2>1, <2>2 DEF Entry, Start, End, EventEnds
<1> QED
  BY <1>1, <1>3, <1>4, <1>5

\* Every command leaves the kernel state well typed, accepted or refused.
Command ==
  \/ \E d \in Directions, c \in Nat : ReplaceRoot(d, c)
  \/ \E d \in Directions : ClearRoot(d)
  \/ EnsureIfbLink \/ SetIfbUp \/ ReplaceIngress \/ ReplaceRedirectFilter
  \/ ClearIngress \/ SetIfbDown \/ DeleteIfbLink
  \/ Refused
  \/ UNCHANGED kernelVars

LEMMA CommandTypes ==
  ASSUME KernelTypeOK, Command
  PROVE  KernelTypeOK'
<1> USE MaxFaultsAssumption DEF KernelTypeOK, kernel, kernelVars, Accepted,
    MaxFaultsAssumption
<1>1. ASSUME NEW d \in Directions, NEW c \in Nat, ReplaceRoot(d, c)
      PROVE  KernelTypeOK'
  BY <1>1 DEF ReplaceRoot
<1>2. ASSUME NEW d \in Directions, ClearRoot(d)
      PROVE  KernelTypeOK'
  BY <1>2 DEF ClearRoot, RefusedSilently, NoQdisc
<1>3. CASE EnsureIfbLink \/ SetIfbUp \/ ReplaceIngress \/ ReplaceRedirectFilter
  BY <1>3 DEF EnsureIfbLink, SetIfbUp, ReplaceIngress, ReplaceRedirectFilter, Links
<1>4. CASE ClearIngress
  <2>1. CASE RefusedSilently
    BY <2>1 DEF RefusedSilently
  <2>2. CASE ~ RefusedSilently
    <3>1. ingress' = FALSE /\ redirect' = FALSE
      BY <1>4, <2>2 DEF ClearIngress
    <3>2. UNCHANGED <<qdisc, ifb, faults, silent>>
      BY <1>4, <2>2 DEF ClearIngress
    <3> QED
      BY <3>1, <3>2
  <2> QED
    BY <2>1, <2>2
<1>7. CASE SetIfbDown
  BY <1>7 DEF SetIfbDown, RefusedSilently, Links
<1>5. CASE DeleteIfbLink
  BY <1>5 DEF DeleteIfbLink, RefusedSilently, Links, NoQdisc, Directions
<1>6. CASE Refused \/ UNCHANGED kernelVars
  BY <1>6 DEF Refused
<1> QED
  BY <1>1, <1>2, <1>3, <1>4, <1>5, <1>6, <1>7 DEF Command

\* The type invariant without the kernel part.
ControlTypeOK ==
  /\ opts \in Options /\ profile \in Profiles
  /\ pc \in Points /\ outcome \in Outcomes
  /\ job \in [action : Actions, id : Nat, planned : Nat, condition : Nat]
  /\ next \in 1..(Len(profile) + 1)
  /\ previousEnd \in Nat /\ previousId \in Nat
  /\ stop \in BOOLEAN /\ stopMark \in Nat
  /\ clock \in 0..MaxClock
  /\ log \in Seq([action : Actions, id : Nat, direction : Directions,
                  planned : Nat, parameters : Nat])

LEMMA TypeParts == TypeOK <=> KernelTypeOK /\ ControlTypeOK
BY DEF TypeOK, ControlTypeOK

LEMMA InitSchedule == Init => ScheduleInv
<1> SUFFICES ASSUME Init PROVE ScheduleInv
  OBVIOUS
<1>1. /\ opts \in Options /\ profile \in Profiles
      /\ Len(profile) \in Nat /\ Len(profile) > 0
  BY InputFacts DEF Init
<1>2. KernelTypeOK
  BY MaxFaultsAssumption
     DEF Init, KernelTypeOK, NoQdisc, ForeignQdisc, MaxFaultsAssumption
<1>3. ControlTypeOK
  <2>1. job \in [action : Actions, id : Nat, planned : Nat, condition : Nat]
    BY DEF Init, Job, Actions, Baseline
  <2>2. pc \in Points /\ outcome \in Outcomes
    BY DEF Init, FirstPoint, AfterSetup, Points, Preparing, Outcomes
  <2>3. clock \in 0..MaxClock /\ next \in 1..(Len(profile) + 1)
    BY <1>1, MaxClockAssumption DEF Init, MaxClockAssumption
  <2>4. log \in Seq([action : Actions, id : Nat, direction : Directions,
                      planned : Nat, parameters : Nat])
    BY DEF Init
  <2> QED
    BY <1>1, <2>1, <2>2, <2>3, <2>4 DEF Init, ControlTypeOK
<1>4. JobOK /\ ConvertOK /\ FreshOK /\ PairOK
  BY DEF Init, JobOK, ConvertOK, FreshOK, PairOK, InJob, Applying, FirstPoint, AfterSetup
<1>5. EndsOK /\ NoBaselineDuringEvent
  BY DEF Init, EndsOK, NoBaselineDuringEvent
<1> QED
  BY <1>2, <1>3, <1>4, <1>5, TypeParts DEF ScheduleInv

-----------------------------------------------------------------------------
\* A step outside the replay: the kernel may change, of the control only pc and
\* outcome do.
Outside ==
  /\ Command
  /\ pc' \in Points \ Replaying /\ outcome' \in Outcomes
  /\ pc' \in Preparing \cup {"load"} => pc \in Preparing
  /\ UNCHANGED <<opts, profile, job, next, previousEnd, previousId, stop,
                 clock, log, stopMark>>

LEMMA OutsideSchedule ==
  ASSUME ScheduleInv, Outside
  PROVE  ScheduleInv'
<1>1. KernelTypeOK'
  BY CommandTypes, TypeParts DEF ScheduleInv, Outside
<1>2. ControlTypeOK'
  BY TypeParts DEF ScheduleInv, Outside, ControlTypeOK
<1>3. JobOK' /\ ConvertOK' /\ FreshOK' /\ PairOK'
  BY DEF ScheduleInv, Outside, JobOK, ConvertOK, FreshOK, PairOK, InJob, Replaying,
     Pausing, Applying
<1>4. EndsOK' /\ NoBaselineDuringEvent'
  BY DEF ScheduleInv, Outside, EndsOK, EventEnds, NoBaselineDuringEvent
<1> QED
  BY <1>1, <1>2, <1>3, <1>4 DEF ScheduleInv, TypeOK, ControlTypeOK

LEMMA PrepareOutside == ASSUME TypeOK, Prepare PROVE Outside
<1> USE DEF Goto, RaiseUnprepared, AfterSetup, Points, Preparing, Replaying,
    Pausing, Applying, Ended, Outcomes, TypeOK, Outside, Command, inputVars,
    loopVars, environment
<1>1. CASE LinkSetup
  BY <1>1 DEF LinkSetup
<1>2. CASE LinkUp
  BY <1>2 DEF LinkUp
<1>3. CASE IngressSetup
  BY <1>3 DEF IngressSetup
<1>4. CASE FilterSetup
  BY <1>4 DEF FilterSetup
<1>5. CASE ClearExisting
  BY <1>5 DEF ClearExisting, Directions
<1> QED
  BY <1>1, <1>2, <1>3, <1>4, <1>5 DEF Prepare

LEMMA CleanupOutside == ASSUME TypeOK, Finally \/ Cleanup \/ Kill PROVE Outside
<1> USE DEF Goto, Points, Preparing, Cleaning, Replaying, Pausing, Applying,
    Ended, Outcomes, TypeOK, Outside, Command, inputVars, loopVars, environment
<1>1. CASE Finally
  BY <1>1 DEF Finally
<1>2. CASE Cleanup
  BY <1>2 DEF Cleanup, Directions, AfterForward, AfterReverse
<1>3. CASE Kill
  BY <1>3 DEF Kill
<1> QED
  BY <1>1, <1>2, <1>3

-----------------------------------------------------------------------------
JobType == [action : Actions, id : Nat, planned : Nat, condition : Nat]

\* A step that plans or gives up: the devices, the log and the loop stay.
Planning ==
  /\ UNCHANGED <<kernelVars, opts, profile, next, previousEnd, previousId,
                 stop, clock, log, stopMark>>
  /\ pc \in {"load", "loop", "convert", "wait"}
  /\ pc' \in Replaying \cup {"finally"} /\ outcome' \in Outcomes
  /\ job' \in JobType

LEMMA PlanningSchedule ==
  ASSUME ScheduleInv, Planning, JobOK', ConvertOK', PairOK'
  PROVE  ScheduleInv'
<1>1. TypeOK'
  BY DEF ScheduleInv, Planning, TypeOK, KernelTypeOK, kernelVars, JobType, Points,
     Cleaning
<1>2. FreshOK'
  BY DEF Planning, FreshOK, Preparing, Replaying, Pausing, Applying
<1>3. EndsOK'
  BY DEF ScheduleInv, Planning, EndsOK, EventEnds
<1>4. NoBaselineDuringEvent'
  BY DEF ScheduleInv, Planning, FreshOK, Preparing, EventEnds, NoBaselineDuringEvent,
     kernelVars, Replaying, Pausing
<1> QED
  BY <1>1, <1>2, <1>3, <1>4 DEF ScheduleInv

\* Where a planning action may go, with the job it leaves.
LEMMA PlanFacts ==
  ASSUME ScheduleInv
  PROVE  /\ Len(profile) \in Nat /\ next \in 1..(Len(profile) + 1)
         /\ previousEnd \in Nat /\ previousId \in Nat /\ clock \in Nat
         /\ job \in JobType /\ pc \in Points /\ outcome \in Outcomes
         /\ opts.mode \in {"event", "timeseries"}
BY InputFacts, MaxClockAssumption
   DEF ScheduleInv, TypeOK, MaxClockAssumption, JobType, OptionRecord

\* What a planning action leaves alone.
Kept == UNCHANGED <<kernelVars, opts, profile, next, previousEnd, previousId,
                    stop, clock, log, stopMark>>

\* The three ways a planning action ends: it plans a pair, moves on inside the
\* loop, or leaves the try block.
LEMMA PlanPair ==
  ASSUME ScheduleInv, Kept, pc \in {"load", "loop", "convert"},
         pc' \in {"wait", "apply_fwd"}, UNCHANGED outcome,
         job' \in JobType, JobOK', PairOK'
  PROVE  ScheduleInv'
<1>1. Planning
  BY PlanFacts DEF Planning, Kept, Replaying, Pausing, Applying
<1>2. ConvertOK'
  BY DEF ConvertOK
<1> QED
  BY <1>1, <1>2, PlanningSchedule

LEMMA PlanMove ==
  ASSUME ScheduleInv, Kept, pc \in {"load", "loop", "convert"},
         pc' \in {"loop", "convert"}, UNCHANGED <<outcome, job>>, ConvertOK'
  PROVE  ScheduleInv'
<1>1. Planning
  BY PlanFacts DEF Planning, Kept, Replaying, Pausing
<1>2. JobOK' /\ PairOK'
  BY DEF JobOK, PairOK, InJob, Applying
<1> QED
  BY <1>1, <1>2, PlanningSchedule

LEMMA PlanLeave ==
  ASSUME ScheduleInv, Kept, pc \in {"load", "loop", "convert"}, UNCHANGED job,
         NEW how \in Outcomes, Leave(how)
  PROVE  ScheduleInv'
<1>1. Planning
  BY PlanFacts DEF Planning, Kept, Leave
<1>2. JobOK' /\ ConvertOK' /\ PairOK'
  BY DEF JobOK, ConvertOK, PairOK, InJob, Applying, Leave
<1> QED
  BY <1>1, <1>2, PlanningSchedule

LEMMA LoadSchedule == ASSUME ScheduleInv, Load PROVE ScheduleInv'
<1>1. next = 1 /\ pc = "load" /\ Kept
  BY DEF Load, ScheduleInv, FreshOK, Kept, inputVars, loopVars, environment
<1>2. CASE opts.mode = "event" /\ job' = Job("baseline", 0, 0, Baseline) /\ Goto("apply_fwd")
  <2>1. job' \in JobType
    BY <1>2 DEF Job, JobType, Actions, Baseline
  <2>2. JobOK' /\ PairOK'
    BY <1>1, <1>2, PlanFacts DEF Kept, JobOK, PairOK, Goto, Job, Baseline
  <2> QED
    BY <1>1, <1>2, <2>1, <2>2, PlanPair DEF Goto
<1>3. CASE Goto("loop") /\ UNCHANGED job
  BY <1>1, <1>3, PlanMove DEF Goto, ConvertOK
<1>4. CASE Leave("bad_input") /\ UNCHANGED job
  BY <1>1, <1>4, PlanLeave DEF Outcomes
<1> QED
  BY <1>2, <1>3, <1>4 DEF Load

LEMMA NextStateSchedule == ASSUME ScheduleInv, NextState PROVE ScheduleInv'
<1>1. pc = "loop" /\ Kept /\ opts.mode = "timeseries"
  BY DEF NextState, Kept, inputVars, loopVars, environment
<1>2. CASE Leave("ok") /\ UNCHANGED job
  BY <1>1, <1>2, PlanLeave DEF Outcomes
<1>3. CASE /\ ~ Finishing /\ Goto("wait")
           /\ job' = Job("timeseries_state", 0, profile[next].start, next)
  <2>1. next \in 1..Len(profile)
    BY <1>3, PlanFacts DEF Finishing
  <2>2. profile[next].start \in Nat
    BY <2>1, InputFacts DEF ScheduleInv, TypeOK
  <2>3. job' \in JobType
    BY <1>3, <2>1, <2>2 DEF Job, JobType, Actions
  <2>4. JobOK' /\ PairOK'
    BY <1>1, <1>3, <2>1 DEF Kept, JobOK, PairOK, Goto, Job, Applying
  <2> QED
    BY <1>1, <1>3, <2>3, <2>4, PlanPair DEF Goto
<1> QED
  BY <1>2, <1>3 DEF NextState

LEMMA FinishEventsSchedule == ASSUME ScheduleInv, FinishEvents PROVE ScheduleInv'
<1>1. pc = "loop" /\ Kept /\ opts.mode = "event" /\ Goto("wait")
      /\ job' = Job("final_baseline", previousId, previousEnd, Baseline)
  BY DEF FinishEvents, Kept, inputVars, loopVars, environment
<1>2. job' \in JobType
  BY <1>1, PlanFacts DEF Job, JobType, Actions, Baseline
<1>3. JobOK' /\ PairOK'
  BY <1>1 DEF Kept, JobOK, PairOK, Goto, Job, Applying
<1> QED
  BY <1>1, <1>2, <1>3, PlanPair DEF Goto

LEMMA RejectSchedule == ASSUME ScheduleInv, RejectNegativeStart PROVE ScheduleInv'
BY PlanLeave DEF RejectNegativeStart, Kept, inputVars, loopVars, environment, Outcomes

LEMMA NextEventSchedule == ASSUME ScheduleInv, NextEvent PROVE ScheduleInv'
<1>1. pc = "loop" /\ Kept /\ opts.mode = "event"
  BY DEF NextEvent, Kept, inputVars, loopVars, environment
<1>2. next \in 1..Len(profile)
  BY PlanFacts DEF NextEvent, Finishing
<1>3. Start(next) >= 0
  BY <1>2, InputFacts DEF NextEvent, StartsTooEarly, ScheduleInv, TypeOK
<1>4. CASE job' = Job("event_end", previousId, previousEnd, Baseline) /\ Goto("wait")
  <2>1. job' \in JobType
    BY <1>4, PlanFacts DEF Job, JobType, Actions, Baseline
  <2>2. JobOK' /\ PairOK'
    BY <1>1, <1>2, <1>3, <1>4 DEF Kept, JobOK, PairOK, Goto, Job, Applying, Start
  <2> QED
    BY <1>1, <1>4, <2>1, <2>2, PlanPair DEF Goto
<1>5. CASE Goto("convert") /\ UNCHANGED job
  <2>1. ConvertOK'
    BY <1>1, <1>2, <1>3 DEF ConvertOK, Kept, Start
  <2> QED
    BY <1>1, <1>5, <2>1, PlanMove DEF Goto
<1> QED
  BY <1>4, <1>5 DEF NextEvent

LEMMA ConvertSchedule == ASSUME ScheduleInv, ConvertEvent PROVE ScheduleInv'
<1>1. pc = "convert" /\ Kept
  BY DEF ConvertEvent, Kept, inputVars, loopVars, environment
<1>2. opts.mode = "event" /\ next \in 1..Len(profile) /\ Start(next) >= 0
  BY <1>1, PlanFacts DEF ScheduleInv, ConvertOK
<1>3. Start(next) \in Nat
  BY <1>2, InputFacts DEF ScheduleInv, TypeOK
<1>4. CASE job' = Job("event_start", next, Start(next), next) /\ Goto("wait")
  <2>1. job' \in JobType
    BY <1>2, <1>3, <1>4 DEF Job, JobType, Actions
  <2>2. JobOK' /\ PairOK'
    BY <1>1, <1>2, <1>4 DEF Kept, JobOK, PairOK, Goto, Job, Applying, Start
  <2> QED
    BY <1>1, <1>4, <2>1, <2>2, PlanPair DEF Goto
<1>5. CASE Leave("bad_input") /\ UNCHANGED job
  BY <1>1, <1>5, PlanLeave DEF Outcomes
<1> QED
  BY <1>4, <1>5 DEF ConvertEvent

LEMMA WaitSchedule == ASSUME ScheduleInv, WaitDone PROVE ScheduleInv'
<1>1. pc = "wait" /\ pc' = "apply_fwd" /\ Kept /\ UNCHANGED <<job, outcome>>
      /\ clock >= job.planned
  BY DEF WaitDone, Goto, Kept, inputVars, loopVars, environment
<1>2. Planning
  BY <1>1, PlanFacts DEF Planning, Kept, Replaying, Applying
<1>3. JobOK' /\ ConvertOK' /\ PairOK'
  BY <1>1 DEF ScheduleInv, Kept, JobOK, ConvertOK, PairOK, InJob, Applying, Start
<1> QED
  BY <1>2, <1>3, PlanningSchedule

-----------------------------------------------------------------------------
\* Applying a pair.  A step that gives up in the middle of it.
LEMMA AbortSchedule ==
  ASSUME ScheduleInv, pc \in Applying, NEW how \in Outcomes, Leave(how),
         KernelTypeOK', UNCHANGED qdisc,
         UNCHANGED <<opts, profile, job, next, previousEnd, previousId,
                     stop, clock, log, stopMark>>
  PROVE  ScheduleInv'
<1>1. TypeOK'
  BY DEF ScheduleInv, TypeOK, Leave, Points, Cleaning
<1>2. JobOK' /\ ConvertOK' /\ FreshOK' /\ PairOK'
  BY DEF JobOK, ConvertOK, FreshOK, PairOK, InJob, Applying, Leave, Preparing
<1>3. EndsOK' /\ NoBaselineDuringEvent'
  BY DEF ScheduleInv, EndsOK, EventEnds, NoBaselineDuringEvent, Leave, Replaying,
     Pausing, Applying
<1> QED
  BY <1>1, <1>2, <1>3 DEF ScheduleInv

\* A baseline is applied during an event replay only when all of them are over:
\* the pair was planned for previous_end and the clock has reached it.
LEMMA BaselineIsLate ==
  ASSUME ScheduleInv, pc \in Applying, opts.mode = "event",
         job.condition = Baseline, NEW k \in 1..(next - 1)
  PROVE  EventEnds(k) <= clock
<1>1. k \in 1..Len(profile) /\ EventEnds(k) \in Int /\ previousEnd \in Nat /\ clock \in Nat
  BY PlanFacts, InputFacts DEF ScheduleInv, TypeOK
<1>2. EventEnds(k) <= previousEnd
  BY DEF ScheduleInv, EndsOK
<1>3. InJob /\ clock >= job.planned
  BY DEF ScheduleInv, PairOK, InJob
<1>4. job.action \in {"event_end", "final_baseline"}
  BY <1>3, PlanFacts DEF ScheduleInv, JobOK, JobType, Actions, Baseline
<1>5. job.planned = previousEnd
  BY <1>3, <1>4 DEF ScheduleInv, JobOK
<1> QED
  BY <1>1, <1>2, <1>3, <1>5

\* The command of one direction.
LEMMA ApplySchedule ==
  ASSUME ScheduleInv, NEW d \in Directions,
         NEW here \in {"apply_fwd", "apply_rev"}, NEW then \in {"log_fwd", "log_rev"},
         here = "apply_fwd" <=> d = "forward", then = "log_fwd" <=> d = "forward",
         Apply(d, here, then)
  PROVE  ScheduleInv'
<1>1. /\ UNCHANGED <<opts, profile, job, next, previousEnd, previousId, stop,
                     clock, log, stopMark>>
      /\ pc = here /\ pc \in Applying
  BY DEF Apply, inputVars, loopVars, environment, Applying
<1>2. CASE ReplaceRoot(d, job.condition) /\ Goto(then)
  <2>1. job.condition \in Nat
    BY PlanFacts DEF JobType
  <2>2. KernelTypeOK'
    BY <1>2, <2>1, CommandTypes DEF Command, ScheduleInv, TypeOK
  <2>3. TypeOK'
    BY <1>1, <1>2, <2>2 DEF ScheduleInv, TypeOK, Goto, Points, Replaying, Applying
  <2>4. JobOK' /\ ConvertOK' /\ FreshOK'
    BY <1>1, <1>2 DEF ScheduleInv, JobOK, ConvertOK, FreshOK, InJob, Applying, Goto,
       Start, Preparing
  <2>5. qdisc' = [qdisc EXCEPT ![d] = job.condition] /\ qdisc \in [Directions -> Int]
    BY <1>2 DEF ReplaceRoot, ScheduleInv, TypeOK, KernelTypeOK
  <2>6. PairOK'
    BY <1>1, <1>2, <2>5 DEF ScheduleInv, PairOK, Applying, Goto, Directions
  <2>7. EndsOK'
    BY <1>1 DEF ScheduleInv, EndsOK, EventEnds
  <2>8. ASSUME opts.mode = "event", NEW e \in Directions, qdisc'[e] = Baseline,
               NEW k \in 1..(next - 1)
        PROVE  EventEnds(k) <= clock
    <3>1. CASE e = d
      <4>1. job.condition = Baseline
        BY <2>5, <2>8, <3>1
      <4> QED
        BY <1>1, <2>8, <4>1, BaselineIsLate
    <3>2. CASE e # d
      <4>1. qdisc[e] = Baseline
        BY <2>5, <2>8, <3>2
      <4> QED
        BY <1>1, <2>8, <4>1 DEF ScheduleInv, NoBaselineDuringEvent, Replaying
    <3> QED
      BY <3>1, <3>2
  <2>9. NoBaselineDuringEvent'
    BY <1>1, <2>8 DEF NoBaselineDuringEvent, EventEnds
  <2> QED
    BY <2>3, <2>4, <2>6, <2>7, <2>9 DEF ScheduleInv
<1>3. CASE Refused /\ Leave("tc_failed")
  <2>1. KernelTypeOK'
    BY <1>3, CommandTypes DEF Command, ScheduleInv, TypeOK
  <2>2. UNCHANGED qdisc
    BY <1>3 DEF Refused, kernel
  <2> QED
    BY <1>1, <1>3, <2>1, <2>2, AbortSchedule DEF Outcomes
<1> QED
  BY <1>2, <1>3 DEF Apply

LogType == Seq([action : Actions, id : Nat, direction : Directions,
                planned : Nat, parameters : Nat])

LEMMA RecordType ==
  ASSUME ScheduleInv, NEW d \in Directions
  PROVE  Append(log, Record(d)) \in LogType
<1>1. log \in LogType
  BY DEF ScheduleInv, TypeOK, LogType
<1>2. Record(d) \in [action : Actions, id : Nat, direction : Directions,
                     planned : Nat, parameters : Nat]
  BY PlanFacts DEF Record, LogRecord, JobType
<1> QED
  BY <1>1, <1>2 DEF LogType

LEMMA LogForwardSchedule == ASSUME ScheduleInv, LogForward PROVE ScheduleInv'
<1>1. /\ UNCHANGED <<kernelVars, opts, profile, job, next, previousEnd, previousId,
                     stop, clock, stopMark>>
      /\ pc = "log_fwd"
  BY DEF LogForward, inputVars, loopVars, environment
<1>2. KernelTypeOK' /\ UNCHANGED qdisc
  BY <1>1, CommandTypes DEF Command, ScheduleInv, TypeOK, kernelVars
<1>3. CASE log' = Append(log, Record("forward")) /\ Goto("apply_rev")
  <2>1. TypeOK'
    BY <1>1, <1>2, <1>3, RecordType
       DEF ScheduleInv, TypeOK, LogType, Goto, Points, Replaying, Applying, Directions
  <2>2. JobOK' /\ ConvertOK' /\ FreshOK' /\ PairOK'
    BY <1>1, <1>2, <1>3 DEF ScheduleInv, JobOK, ConvertOK, FreshOK, PairOK, InJob,
       Applying, Preparing, Goto, Start
  <2>3. EndsOK' /\ NoBaselineDuringEvent'
    BY <1>1, <1>2, <1>3 DEF ScheduleInv, EndsOK, EventEnds, NoBaselineDuringEvent,
       Replaying, Applying, Goto
  <2> QED
    BY <2>1, <2>2, <2>3 DEF ScheduleInv
<1>4. CASE Leave("log_failed") /\ UNCHANGED log
  BY <1>1, <1>2, <1>4, AbortSchedule DEF Applying, Outcomes
<1> QED
  BY <1>3, <1>4 DEF LogForward

\* The pair of an event is done: the event becomes one that was started.
LEMMA EventStartedSchedule ==
  ASSUME ScheduleInv, pc = "log_rev", job.action = "event_start",
         UNCHANGED <<kernelVars, opts, profile, job, stop, clock, stopMark>>,
         log' = Append(log, Record("reverse")),
         previousEnd' = Later(previousEnd, End(next)),
         previousId' = next, next' = next + 1, Goto("loop")
  PROVE  ScheduleInv'
<1>1. /\ opts.mode = "event" /\ next \in 1..Len(profile) /\ job.condition = next
  BY PlanFacts DEF ScheduleInv, JobOK, InJob, Applying
<1>2. End(next) = EventEnds(next) /\ EventEnds(next) \in Int
  BY <1>1, InputFacts DEF ScheduleInv, TypeOK
<1>3. previousEnd \in Nat /\ previousEnd' \in Nat
      /\ previousEnd <= previousEnd' /\ EventEnds(next) <= previousEnd'
  BY <1>2, PlanFacts DEF Later
<1>4. TypeOK'
  <2>1. KernelTypeOK'
    BY CommandTypes DEF Command, ScheduleInv, TypeOK, kernelVars
  <2>2. log' \in LogType
    BY RecordType DEF Directions
  <2> QED
    BY <1>1, <1>3, <2>1, <2>2, PlanFacts
       DEF ScheduleInv, TypeOK, LogType, Goto, Points, Replaying, Pausing
<1>5. JobOK' /\ ConvertOK' /\ FreshOK' /\ PairOK'
  BY DEF JobOK, ConvertOK, FreshOK, PairOK, InJob, Applying, Preparing, Goto
<1>6. ASSUME NEW k \in 1..(next' - 1) PROVE EventEnds(k) <= previousEnd'
  <2>1. CASE k = next
    BY <1>3, <2>1
  <2>2. CASE k # next
    <3>1. k \in 1..(next - 1) /\ k \in 1..Len(profile)
      BY <1>1, <2>2
    <3>2. EventEnds(k) <= previousEnd /\ EventEnds(k) \in Int
      BY <1>1, <3>1, InputFacts DEF ScheduleInv, EndsOK, TypeOK
    <3> QED
      BY <1>3, <3>2
  <2> QED
    BY <2>1, <2>2
<1>7. EndsOK'
  BY <1>6 DEF EndsOK, EventEnds
<1>8. \A d \in Directions : qdisc'[d] = next
  BY <1>1 DEF ScheduleInv, PairOK, Directions, kernelVars
<1>9. NoBaselineDuringEvent'
  BY <1>1, <1>8 DEF NoBaselineDuringEvent, Baseline
<1> QED
  BY <1>4, <1>5, <1>7, <1>9 DEF ScheduleInv

LEMMA LogReverseSchedule == ASSUME ScheduleInv, LogReverse PROVE ScheduleInv'
<1>1. /\ UNCHANGED <<kernelVars, opts, profile, job, stop, clock, stopMark>>
      /\ pc = "log_rev"
  BY DEF LogReverse, inputVars, environment
<1>2. KernelTypeOK' /\ UNCHANGED qdisc
  BY <1>1, CommandTypes DEF Command, ScheduleInv, TypeOK, kernelVars
<1>3. CASE Leave("log_failed") /\ UNCHANGED <<log, loopVars>>
  BY <1>1, <1>2, <1>3, AbortSchedule DEF Applying, Outcomes, loopVars
<1>4. CASE log' = Append(log, Record("reverse")) /\ PairDone
  <2>1. log' \in LogType
    BY <1>4, RecordType DEF Directions
  <2>2. CASE job.action = "event_start"
    BY <1>1, <1>4, <2>2, EventStartedSchedule DEF PairDone
  <2>3. CASE job.action = "timeseries_state"
    <3>1. opts.mode = "timeseries" /\ next \in 1..Len(profile)
      BY <1>1, <2>3, PlanFacts DEF ScheduleInv, JobOK, InJob, Applying
    <3>2. next' = next + 1 /\ UNCHANGED <<previousEnd, previousId>>
          /\ pc' \in {"loop", "finally"} /\ outcome' \in Outcomes
      BY <1>4, <2>3, PlanFacts DEF PairDone, Leave, Goto, Outcomes
    <3>3. TypeOK'
      BY <1>1, <1>2, <2>1, <3>1, <3>2
         DEF ScheduleInv, TypeOK, LogType, Points, Replaying, Pausing, Cleaning
    <3>4. JobOK' /\ ConvertOK' /\ FreshOK' /\ PairOK'
      BY <3>2 DEF JobOK, ConvertOK, FreshOK, PairOK, InJob, Applying, Preparing
    <3>5. EndsOK' /\ NoBaselineDuringEvent'
      BY <1>1, <3>1 DEF EndsOK, NoBaselineDuringEvent
    <3> QED
      BY <3>3, <3>4, <3>5 DEF ScheduleInv
  <2>4. CASE job.action \in {"baseline", "event_end", "final_baseline"}
    <3>1. /\ UNCHANGED loopVars /\ outcome' \in Outcomes
          /\ \/ pc' \in {"loop", "finally"}
             \/ job.action = "event_end" /\ pc' = "convert"
      BY <1>4, <2>4, PlanFacts DEF PairDone, Goto, Leave, Outcomes
    <3>2. TypeOK'
      BY <1>1, <1>2, <2>1, <3>1 DEF ScheduleInv, TypeOK, LogType, loopVars, Points,
         Replaying, Pausing, Cleaning
    <3>3. ConvertOK'
      BY <1>1, <3>1 DEF ScheduleInv, JobOK, InJob, Applying, ConvertOK, loopVars, Start
    <3>4. JobOK' /\ FreshOK' /\ PairOK'
      BY <3>1 DEF JobOK, FreshOK, PairOK, InJob, Applying, Preparing
    <3>5. EndsOK' /\ NoBaselineDuringEvent'
      BY <1>1, <1>2, <3>1 DEF ScheduleInv, EndsOK, EventEnds, NoBaselineDuringEvent,
         loopVars, Replaying, Applying
    <3> QED
      BY <3>2, <3>3, <3>4, <3>5 DEF ScheduleInv
  <2> QED
    BY <1>4, <2>2, <2>3, <2>4 DEF PairDone
<1> QED
  BY <1>3, <1>4 DEF LogReverse

-----------------------------------------------------------------------------
\* The environment: the clock only moves forward, the signal only sets its flag.
LEMMA TickSchedule == ASSUME ScheduleInv, Tick PROVE ScheduleInv'
<1>1. /\ UNCHANGED <<kernelVars, opts, profile, pc, outcome, job, next, previousEnd,
                     previousId, stop, log, stopMark>>
      /\ clock' = clock + 1 /\ clock' \in 0..MaxClock /\ clock \in Nat
  BY MaxClockAssumption DEF Tick, inputVars, loopVars, ScheduleInv, TypeOK,
     MaxClockAssumption
<1>2. TypeOK'
  BY <1>1 DEF ScheduleInv, TypeOK, KernelTypeOK, kernelVars
<1>3. JobOK' /\ ConvertOK' /\ FreshOK'
  BY <1>1 DEF ScheduleInv, JobOK, ConvertOK, FreshOK, InJob, Start
<1>4. PairOK'
  BY <1>1, PlanFacts DEF ScheduleInv, PairOK, kernelVars, JobType
<1>5. EndsOK'
  BY <1>1 DEF ScheduleInv, EndsOK, EventEnds
<1>6. ASSUME opts.mode = "event", pc \in Replaying, NEW d \in Directions,
             qdisc[d] = Baseline, NEW k \in 1..(next - 1)
      PROVE  EventEnds(k) <= clock'
  <2>1. EventEnds(k) <= clock
    BY <1>6 DEF ScheduleInv, NoBaselineDuringEvent
  <2>2. EventEnds(k) \in Int
    BY PlanFacts, InputFacts DEF ScheduleInv, TypeOK
  <2> QED
    BY <1>1, <2>1, <2>2
<1>7. NoBaselineDuringEvent'
  BY <1>1, <1>6 DEF NoBaselineDuringEvent, EventEnds, kernelVars
<1> QED
  BY <1>2, <1>3, <1>4, <1>5, <1>7 DEF ScheduleInv

LEMMA SignalSchedule == ASSUME ScheduleInv, Signal PROVE ScheduleInv'
<1>1. /\ UNCHANGED <<kernelVars, opts, profile, pc, outcome, job, next, previousEnd,
                     previousId, clock, log>>
      /\ stop' \in BOOLEAN /\ stopMark' \in Nat
  BY PlanFacts DEF Signal, inputVars, loopVars
<1>2. TypeOK'
  BY <1>1 DEF ScheduleInv, TypeOK, KernelTypeOK, kernelVars
<1>3. JobOK' /\ ConvertOK' /\ FreshOK' /\ PairOK'
  BY <1>1 DEF ScheduleInv, JobOK, ConvertOK, FreshOK, PairOK, InJob, Start, kernelVars
<1>4. EndsOK' /\ NoBaselineDuringEvent'
  BY <1>1 DEF ScheduleInv, EndsOK, EventEnds, NoBaselineDuringEvent, kernelVars
<1> QED
  BY <1>2, <1>3, <1>4 DEF ScheduleInv

LEMMA StutterSchedule == ASSUME ScheduleInv, UNCHANGED vars PROVE ScheduleInv'
<1>1. UNCHANGED <<kernelVars, opts, profile, pc, outcome, job, next, previousEnd,
                  previousId, stop, clock, log, stopMark>>
  BY DEF vars, control
<1>2. TypeOK'
  BY <1>1 DEF ScheduleInv, TypeOK, KernelTypeOK, kernelVars
<1>3. JobOK' /\ ConvertOK' /\ FreshOK' /\ PairOK'
  BY <1>1 DEF ScheduleInv, JobOK, ConvertOK, FreshOK, PairOK, InJob, Start, kernelVars
<1>4. EndsOK' /\ NoBaselineDuringEvent'
  BY <1>1 DEF ScheduleInv, EndsOK, EventEnds, NoBaselineDuringEvent, kernelVars
<1> QED
  BY <1>2, <1>3, <1>4 DEF ScheduleInv

LEMMA NextSchedule == ScheduleInv /\ [Next]_vars => ScheduleInv'
<1> SUFFICES ASSUME ScheduleInv, [Next]_vars PROVE ScheduleInv'
  OBVIOUS
<1>1. CASE Prepare
  BY <1>1, PrepareOutside, OutsideSchedule DEF ScheduleInv
<1>2. CASE Finally \/ Cleanup \/ Kill
  BY <1>2, CleanupOutside, OutsideSchedule DEF ScheduleInv
<1>3. CASE Replay
  <2>1. CASE ApplyForward
    BY <2>1, ApplySchedule DEF ApplyForward, Directions
  <2>2. CASE ApplyReverse
    BY <2>2, ApplySchedule DEF ApplyReverse, Directions
  <2> QED
    BY <1>3, <2>1, <2>2, LoadSchedule, NextStateSchedule, FinishEventsSchedule,
       RejectSchedule, NextEventSchedule, ConvertSchedule, WaitSchedule,
       LogForwardSchedule, LogReverseSchedule DEF Replay
<1>4. CASE Tick \/ Signal
  BY <1>4, TickSchedule, SignalSchedule
<1>5. CASE Ending \/ UNCHANGED vars
  BY <1>5, StutterSchedule DEF Ending
<1> QED
  BY <1>1, <1>2, <1>3, <1>4, <1>5 DEF Next, Process

LEMMA Scheduled == Spec => []ScheduleInv
BY InitSchedule, NextSchedule, PTL DEF Spec

\* Every state of a replay is well typed: the loop never reads outside the
\* profile and never plans an application before the replay starts.
THEOREM TypeCorrect == Spec => []TypeOK
<1>1. ScheduleInv => TypeOK
  BY DEF ScheduleInv
<1> QED
  BY <1>1, Scheduled, PTL

\* For every profile and every interleaving with signals, refusals and kills,
\* no device goes back to the baseline while a started event is still running.
THEOREM NoEarlyBaseline == Spec => []NoBaselineDuringEvent
<1>1. ScheduleInv => NoBaselineDuringEvent
  BY DEF ScheduleInv
<1> QED
  BY <1>1, Scheduled, PTL

(***************************************************************************)
(* The order in which BidirectionalReplay applies events, for every        *)
(* well-formed input, command line and interleaving: no event early, no    *)
(* pair left half applied, a prompt stop, the baseline at the end.         *)
(*                                                                         *)
(* OrderInv strengthens the properties by what the process is committed to *)
(* when the signal arrives and by where a device may carry an event.       *)
(***************************************************************************)

Alive == pc \in Preparing \cup {"load"} \cup Replaying

\* The body of the try block runs until it leaves with an outcome.
RunningOK == Alive => outcome = "running"

\* The entry the process goes on to apply without looking at the stop flag.
Committed ==
  \/ pc = "convert"
  \/ InJob /\ job.action \in {"event_start", "event_end", "timeseries_state"}

PromptOK ==
  stop => next <= stopMark + 1 /\ (Committed => next <= stopMark)

\* A device carries an entry of the profile only, and an event in its time.
CarriedOK ==
  opts.mode = "event" /\ Alive =>
    \A d \in Directions :
      /\ qdisc[d] <= Len(profile)
      /\ qdisc[d] > 0 => Start(qdisc[d]) <= clock

OrderInv ==
  /\ RunningOK /\ PromptOK /\ CarriedOK /\ LatestEventShown
  /\ CompletedRestoresBaseline

-----------------------------------------------------------------------------
LEMMA InitOrder == Init => OrderInv
<1> SUFFICES ASSUME Init PROVE OrderInv
  OBVIOUS
<1>1. pc \in {"link", "load", "clear_fwd"} /\ outcome = "running" /\ ~ stop
  BY DEF Init, FirstPoint, AfterSetup
<1>2. Len(profile) \in Nat /\ qdisc \in [Directions -> {NoQdisc, ForeignQdisc}]
  BY InputFacts DEF Init
<1>3. CarriedOK
  BY <1>2 DEF CarriedOK, NoQdisc, ForeignQdisc
<1> QED
  BY <1>1, <1>3 DEF OrderInv, RunningOK, PromptOK, LatestEventShown,
     CompletedRestoresBaseline, Pausing

\* What every step may use of the invariant of the schedule.
LEMMA OrderFacts ==
  ASSUME ScheduleInv
  PROVE  /\ Len(profile) \in Nat /\ next \in 1..(Len(profile) + 1)
         /\ previousEnd \in Nat /\ clock \in Nat /\ stopMark \in Nat
         /\ stop \in BOOLEAN /\ job \in JobType
         /\ qdisc \in [Directions -> Int]
         /\ \A k \in 1..Len(profile) : Start(k) \in Int /\ EventEnds(k) \in Int
BY PlanFacts, InputFacts DEF ScheduleInv, TypeOK, KernelTypeOK

LEMMA PrepareOrder ==
  ASSUME ScheduleInv, OrderInv, Prepare
  PROVE  OrderInv'
<1>1. /\ UNCHANGED <<opts, profile, job, next, stop, stopMark, clock>>
      /\ pc \in Preparing
      /\ pc' \in Preparing \cup {"load", "exited"}
      /\ pc' = "exited" \/ UNCHANGED outcome
  BY DEF Prepare, LinkSetup, LinkUp, IngressSetup, FilterSetup, ClearExisting, Goto,
     RaiseUnprepared, AfterSetup, Preparing, inputVars, loopVars, environment
<1>2. \A d \in Directions : qdisc'[d] \in {qdisc[d], NoQdisc}
  BY OrderFacts DEF Prepare, LinkSetup, LinkUp, IngressSetup, FilterSetup,
     ClearExisting, EnsureIfbLink, SetIfbUp, ReplaceIngress, ReplaceRedirectFilter,
     ClearRoot, Refused, RefusedSilently, kernel, Directions
<1>3. RunningOK'
  BY <1>1 DEF OrderInv, RunningOK, Alive, Preparing, Replaying, Pausing, Applying
<1>4. PromptOK'
  BY <1>1 DEF OrderInv, PromptOK, Committed, InJob, Applying, Preparing
<1>5. CarriedOK'
  BY <1>1, <1>2, OrderFacts
     DEF OrderInv, CarriedOK, Alive, NoQdisc, Start, Replaying, Pausing, Applying
<1>6. LatestEventShown' /\ CompletedRestoresBaseline'
  BY <1>1 DEF LatestEventShown, CompletedRestoresBaseline, Pausing, Preparing
<1> QED
  BY <1>3, <1>4, <1>5, <1>6 DEF OrderInv

\* Leaving the replay for the cleanup, and the cleanup itself.
LEMMA CleanupOrder ==
  ASSUME ScheduleInv, OrderInv, Finally \/ Cleanup \/ Kill
  PROVE  OrderInv'
<1>1. /\ UNCHANGED <<opts, profile, job, next, stop, stopMark, clock>>
      /\ pc' \in Points \ (Preparing \cup {"load", "finally"} \cup Replaying)
  BY DEF Finally, Cleanup, Kill, Goto, AfterForward, AfterReverse, inputVars, loopVars,
     environment, Points, Preparing, Cleaning, Replaying, Pausing, Applying, Ended
<1>2. RunningOK' /\ CarriedOK'
  BY <1>1 DEF RunningOK, CarriedOK, Alive
<1>3. PromptOK'
  BY <1>1 DEF OrderInv, PromptOK, Committed, InJob, Replaying, Pausing, Applying
<1>4. LatestEventShown' /\ CompletedRestoresBaseline'
  BY <1>1 DEF LatestEventShown, CompletedRestoresBaseline, Replaying
<1> QED
  BY <1>2, <1>3, <1>4 DEF OrderInv

-----------------------------------------------------------------------------
\* A planning step commits to an entry only after it looked at the stop flag,
\* or when an earlier step already was committed to it.
LEMMA PlanningOrder ==
  ASSUME ScheduleInv, OrderInv,
         Load \/ NextState \/ FinishEvents \/ RejectNegativeStart \/ NextEvent
           \/ ConvertEvent \/ WaitDone
  PROVE  OrderInv'
<1>1. /\ UNCHANGED <<kernelVars, opts, profile, next, stop, stopMark, clock>>
      /\ pc \in {"load"} \cup Pausing
      /\ \/ pc' \in Replaying /\ UNCHANGED outcome
         \/ /\ pc' = "finally"
            /\ outcome' # "ok" \/ opts.mode = "timeseries"
      /\ pc' \in Pausing => pc \in Pausing \/ opts.mode = "timeseries"
  BY DEF Load, NextState, FinishEvents, RejectNegativeStart, NextEvent, ConvertEvent,
     WaitDone, Goto, Leave, Kept, inputVars, loopVars, environment, Replaying, Pausing,
     Applying
<1>2. Committed' => ~ stop \/ Committed
  <2> USE DEF Committed, InJob, Applying, Goto, Leave, Job
  <2>1. CASE Load
    BY <2>1 DEF Load
  <2>2. CASE NextState \/ NextEvent
    BY <2>2 DEF NextState, NextEvent, Finishing
  <2>3. CASE FinishEvents \/ RejectNegativeStart
    BY <2>3 DEF FinishEvents, RejectNegativeStart
  <2>4. CASE ConvertEvent \/ WaitDone
    BY <2>4 DEF ConvertEvent, WaitDone
  <2> QED
    BY <2>1, <2>2, <2>3, <2>4
<1>3. PromptOK'
  BY <1>1, <1>2 DEF OrderInv, PromptOK
<1>4. RunningOK'
  BY <1>1 DEF OrderInv, RunningOK, Alive, Preparing, Replaying, Pausing, Applying
<1>5. CarriedOK'
  BY <1>1 DEF OrderInv, CarriedOK, Alive, Start, kernelVars, Replaying
<1>6. CompletedRestoresBaseline'
  BY <1>1 DEF CompletedRestoresBaseline, Replaying, Pausing, Applying
<1>7. LatestEventShown'
  BY <1>1 DEF OrderInv, LatestEventShown, EventEnds, kernelVars
<1> QED
  BY <1>3, <1>4, <1>5, <1>6, <1>7 DEF OrderInv

-----------------------------------------------------------------------------
(* The application of a pair.                                               *)

\* A step that gives up in the middle of the body.
LEMMA GiveUpOrder ==
  ASSUME ScheduleInv, OrderInv, NEW how \in {"tc_failed", "log_failed"}, Leave(how),
         UNCHANGED <<next, stop, stopMark>>
  PROVE  OrderInv'
<1>1. RunningOK' /\ CarriedOK' /\ LatestEventShown' /\ CompletedRestoresBaseline'
  BY DEF Leave, RunningOK, CarriedOK, LatestEventShown, CompletedRestoresBaseline,
     Alive, Preparing, Replaying, Pausing, Applying
<1>2. PromptOK'
  BY DEF OrderInv, PromptOK, Leave, Committed, InJob, Applying
<1> QED
  BY <1>1, <1>2 DEF OrderInv

\* What is applied is an entry of the profile, and an event in its time.
LEMMA AppliedInTime ==
  ASSUME ScheduleInv, pc \in Applying, opts.mode = "event"
  PROVE  /\ job.condition <= Len(profile)
         /\ job.condition > 0 => Start(job.condition) <= clock
<1>1. InJob /\ clock >= job.planned
  BY DEF ScheduleInv, PairOK, InJob
<1>2. CASE job.action = "event_start"
  BY <1>1, <1>2, OrderFacts DEF ScheduleInv, JobOK
<1>3. CASE job.action # "event_start"
  BY <1>1, <1>3, OrderFacts DEF ScheduleInv, JobOK, JobType, Actions, Baseline
<1> QED
  BY <1>2, <1>3

LEMMA ApplyOrder ==
  ASSUME ScheduleInv, OrderInv, ApplyForward \/ ApplyReverse
  PROVE  OrderInv'
<1>1. PICK d \in Directions, here \in {"apply_fwd", "apply_rev"},
           then \in {"log_fwd", "log_rev"} : Apply(d, here, then)
  BY DEF ApplyForward, ApplyReverse, Directions
<1>2. /\ UNCHANGED <<opts, profile, job, next, stop, stopMark, clock>>
      /\ pc = here
  BY <1>1 DEF Apply, inputVars, loopVars, environment
<1>3. CASE Refused /\ Leave("tc_failed")
  BY <1>2, <1>3, GiveUpOrder
<1>4. CASE ReplaceRoot(d, job.condition) /\ Goto(then)
  <2>1. RunningOK'
    BY <1>2, <1>4 DEF OrderInv, RunningOK, Alive, Goto, Replaying, Applying
  <2>2. PromptOK'
    BY <1>2, <1>4 DEF OrderInv, PromptOK, Committed, InJob, Goto, Applying
  <2>3. ASSUME opts.mode = "event", NEW e \in Directions
        PROVE  /\ qdisc'[e] <= Len(profile)
               /\ qdisc'[e] > 0 => Start(qdisc'[e]) <= clock
    <3>1. qdisc' = [qdisc EXCEPT ![d] = job.condition]
      BY <1>4 DEF ReplaceRoot
    <3>2. CASE e = d
      BY <1>2, <2>3, <3>1, <3>2, OrderFacts, AppliedInTime DEF Applying
    <3>3. CASE e # d
      BY <1>2, <2>3, <3>1, <3>3, OrderFacts
         DEF OrderInv, CarriedOK, Alive, Replaying, Applying
    <3> QED
      BY <3>2, <3>3
  <2>4. CarriedOK'
    BY <1>2, <2>3 DEF CarriedOK, Start
  <2>5. LatestEventShown' /\ CompletedRestoresBaseline'
    BY <1>4 DEF Goto, LatestEventShown, CompletedRestoresBaseline, Pausing
  <2> QED
    BY <2>1, <2>2, <2>4, <2>5 DEF OrderInv
<1> QED
  BY <1>1, <1>3, <1>4 DEF Apply

LEMMA LogForwardOrder ==
  ASSUME ScheduleInv, OrderInv, LogForward
  PROVE  OrderInv'
<1>1. /\ UNCHANGED <<kernelVars, opts, profile, job, next, stop, stopMark, clock>>
      /\ pc = "log_fwd"
  BY DEF LogForward, inputVars, loopVars, environment
<1>2. CASE Leave("log_failed")
  BY <1>1, <1>2, GiveUpOrder
<1>3. CASE Goto("apply_rev")
  <2>1. RunningOK' /\ CarriedOK'
    BY <1>1, <1>3 DEF OrderInv, RunningOK, CarriedOK, Alive, Goto, Start, kernelVars,
       Replaying, Applying
  <2>2. PromptOK'
    BY <1>1, <1>3 DEF OrderInv, PromptOK, Committed, InJob, Goto, Applying
  <2>3. LatestEventShown' /\ CompletedRestoresBaseline'
    BY <1>3 DEF Goto, LatestEventShown, CompletedRestoresBaseline, Pausing
  <2> QED
    BY <2>1, <2>2, <2>3 DEF OrderInv
<1> QED
  BY <1>2, <1>3 DEF LogForward

\* Both devices carry the condition of the pair, and the loop goes on: a
\* baseline is late enough, and an event is the one started last from now on.
LEMMA PairDoneOrder ==
  ASSUME ScheduleInv, OrderInv, pc = "log_rev", PairDone,
         UNCHANGED <<kernelVars, opts, profile, job, stop, stopMark, clock>>
  PROVE  OrderInv'
<1>1. InJob /\ pc \in Applying /\ Alive
  BY DEF InJob, Alive, Replaying, Applying
<1>2. \A d \in Directions : qdisc'[d] = job.condition
  BY DEF ScheduleInv, PairOK, Directions, kernelVars
<1>3. CarriedOK'
  BY <1>1 DEF OrderInv, CarriedOK, Start, kernelVars
<1>4. CASE job.action \in {"event_start", "timeseries_state"}
  <2>1. /\ next' = next + 1 /\ pc' \in {"loop", "finally"}
        /\ pc' = "finally" => opts.mode = "timeseries"
        /\ pc' = "loop" => UNCHANGED outcome
        /\ job.condition = next /\ Committed
    BY <1>1, <1>4 DEF PairDone, Goto, Leave, ScheduleInv, JobOK, Committed
  <2>2. RunningOK' /\ CompletedRestoresBaseline'
    BY <1>1, <2>1 DEF OrderInv, RunningOK, CompletedRestoresBaseline, Alive, Preparing,
       Replaying, Pausing, Applying
  <2>3. PromptOK'
    BY <2>1, OrderFacts DEF OrderInv, PromptOK, Committed, InJob, Applying
  <2>4. LatestEventShown'
    BY <1>2, <2>1, OrderFacts DEF LatestEventShown
  <2> QED
    BY <1>3, <2>2, <2>3, <2>4 DEF OrderInv
<1>5. CASE job.action \in {"baseline", "event_end", "final_baseline"}
  <2>1. /\ UNCHANGED next
        /\ \/ pc' \in {"loop", "convert"} /\ UNCHANGED outcome
           \/ pc' = "finally"
        /\ pc' = "convert" => job.action = "event_end"
        /\ opts.mode = "event" /\ job.condition = Baseline
    BY <1>1, <1>5 DEF PairDone, Goto, Leave, loopVars, ScheduleInv, JobOK
  <2>2. RunningOK' /\ CompletedRestoresBaseline'
    BY <1>1, <1>2, <2>1 DEF OrderInv, RunningOK, CompletedRestoresBaseline, Alive,
       Preparing, Replaying, Pausing, Applying
  <2>3. PromptOK'
    BY <1>1, <2>1 DEF OrderInv, PromptOK, Committed, InJob, Applying
  <2>4. \A k \in 1..(next - 1) : EventEnds(k) <= clock
    BY <1>1, <2>1, BaselineIsLate
  <2>5. LatestEventShown'
    BY <1>2, <2>1, <2>4 DEF LatestEventShown, EventEnds
  <2> QED
    BY <1>3, <2>2, <2>3, <2>5 DEF OrderInv
<1> QED
  BY <1>4, <1>5 DEF PairDone

LEMMA LogReverseOrder ==
  ASSUME ScheduleInv, OrderInv, LogReverse
  PROVE  OrderInv'
<1>1. UNCHANGED <<kernelVars, opts, profile, job, stop, stopMark, clock>> /\ pc = "log_rev"
  BY DEF LogReverse, inputVars, environment
<1>2. CASE Leave("log_failed") /\ UNCHANGED loopVars
  BY <1>1, <1>2, GiveUpOrder DEF loopVars
<1>3. CASE PairDone
  BY <1>1, <1>3, PairDoneOrder
<1> QED
  BY <1>2, <1>3 DEF LogReverse

-----------------------------------------------------------------------------
(* Around the process.                                                      *)

LEMMA TickOrder == ASSUME ScheduleInv, OrderInv, Tick PROVE OrderInv'
<1>1. /\ UNCHANGED <<kernelVars, opts, profile, pc, outcome, job, next, stop, stopMark>>
      /\ clock' = clock + 1 /\ pc \in Replaying
  BY DEF Tick, inputVars, loopVars
<1>2. RunningOK' /\ PromptOK' /\ CompletedRestoresBaseline'
  BY <1>1 DEF OrderInv, RunningOK, Alive, PromptOK, Committed, InJob,
     CompletedRestoresBaseline, kernelVars
<1>3. CarriedOK'
  <2> SUFFICES ASSUME opts.mode = "event", Alive, NEW d \in Directions
               PROVE  /\ qdisc[d] <= Len(profile)
                      /\ qdisc[d] > 0 => Start(qdisc[d]) <= clock + 1
    BY <1>1 DEF CarriedOK, Alive, Start, kernelVars
  <2> QED
    BY OrderFacts DEF OrderInv, CarriedOK
<1>4. LatestEventShown'
  <2> SUFFICES ASSUME opts.mode = "event", pc \in Pausing, NEW d \in Directions
               PROVE  \/ qdisc[d] = next - 1
                      \/ /\ qdisc[d] = Baseline
                         /\ \A k \in 1..(next - 1) : EventEnds(k) <= clock + 1
    BY <1>1 DEF LatestEventShown, EventEnds, kernelVars
  <2> QED
    BY OrderFacts DEF OrderInv, LatestEventShown
<1> QED
  BY <1>2, <1>3, <1>4 DEF OrderInv

\* The signal may come at any step: whatever entry the process is committed to
\* is the one it is counted from.
LEMMA SignalOrder == ASSUME ScheduleInv, OrderInv, Signal PROVE OrderInv'
<1>1. /\ UNCHANGED <<kernelVars, opts, profile, pc, outcome, job, next, clock>>
      /\ stopMark' = next
  BY DEF Signal, inputVars, loopVars
<1>2. PromptOK'
  BY <1>1, OrderFacts DEF PromptOK
<1>3. RunningOK' /\ CarriedOK' /\ LatestEventShown' /\ CompletedRestoresBaseline'
  BY <1>1 DEF OrderInv, RunningOK, CarriedOK, Alive, Start, LatestEventShown, EventEnds,
     CompletedRestoresBaseline, kernelVars
<1> QED
  BY <1>2, <1>3 DEF OrderInv

LEMMA StutterOrder == ASSUME OrderInv, UNCHANGED vars PROVE OrderInv'
<1>1. UNCHANGED <<kernelVars, opts, profile, pc, outcome, job, next, stop, stopMark,
                  clock>>
  BY DEF vars, control
<1> QED
  BY <1>1 DEF OrderInv, RunningOK, PromptOK, Committed, InJob, CarriedOK, Alive, Start,
     LatestEventShown, EventEnds, CompletedRestoresBaseline, kernelVars

LEMMA NextOrder == ScheduleInv /\ OrderInv /\ [Next]_vars => OrderInv'
BY PrepareOrder, CleanupOrder, PlanningOrder, ApplyOrder, LogForwardOrder,
   LogReverseOrder, TickOrder, SignalOrder, StutterOrder
   DEF Next, Process, Replay, Ending

LEMMA Ordered == Spec => []OrderInv
BY InitOrder, NextOrder, Scheduled, PTL DEF Spec

-----------------------------------------------------------------------------
\* No event is put on a device before its start.
THEOREM NoEventEarly == Spec => []NeverEarly
<1>1. OrderInv => NeverEarly
  BY DEF OrderInv, CarriedOK, NeverEarly, Alive
<1> QED
  BY <1>1, Ordered, PTL

\* Between two applications both devices show the event started last, or the
\* baseline when it is due.
THEOREM NoHalfPair == Spec => []LatestEventShown
<1>1. OrderInv => LatestEventShown
  BY DEF OrderInv
<1> QED
  BY <1>1, Ordered, PTL

\* After a signal the loop starts at most the entry it was already working on,
\* wherever in the code the signal arrives.
THEOREM StopsPromptly == Spec => []StopIsPrompt
<1>1. OrderInv => StopIsPrompt
  BY DEF OrderInv, PromptOK, StopIsPrompt
<1> QED
  BY <1>1, Ordered, PTL

\* An event replay that ends normally, stopped or not, has put the baseline
\* back on both devices before any cleanup.
THEOREM RestoredAtEnd == Spec => []CompletedRestoresBaseline
<1>1. OrderInv => CompletedRestoresBaseline
  BY DEF OrderInv
<1> QED
  BY <1>1, Ordered, PTL

(***************************************************************************)
(* The devices of BidirectionalReplay, for every command line, every input *)
(* and every number of refused commands: what set-up and cleanup leave on  *)
(* them at each of their steps.                                            *)
(*                                                                         *)
(* None of the three properties is inductive.  TargetInv adds what each    *)
(* step of the set-up has established before the next one, and what each   *)
(* step of the cleanup has already removed.                                *)
(***************************************************************************)

\* The steps that belong to the ifb mode; the egress mode never touches a link.
ModeOK ==
  /\ pc \in {"link", "link_up", "ingress", "filter", "clean_ingress",
             "link_down", "link_delete"} => opts.direction = "ifb"
  /\ opts.direction = "dual-egress" => ifb = "absent" /\ ~ ingress /\ ~ redirect

\* The link is up before the traffic is redirected to it, and stays up.
SetupOK ==
  /\ pc \in {"ingress", "filter"} => ifb = "up"
  /\ pc \in {"clear_fwd", "clear_rev", "load"} \cup Replaying /\ opts.direction = "ifb"
       => redirect /\ ifb = "up"

\* What the cleanup has removed so far, as long as no command was refused.
RemovedOK ==
  silent = 0 =>
    /\ pc \in {"clean_ingress", "clean_rev", "link_down", "link_delete"}
         => qdisc["forward"] = NoQdisc
    /\ pc \in {"link_down", "link_delete"} => qdisc["reverse"] = NoQdisc
    /\ pc \in {"clean_rev", "link_down", "link_delete"} => ~ ingress /\ ~ redirect

TargetInv ==
  TypeOK /\ ModeOK /\ SetupOK /\ RemovedOK /\ RedirectNeedsLink /\ CleanupComplete

-----------------------------------------------------------------------------
LEMMA InitTargets == Init => TargetInv
<1> SUFFICES ASSUME Init PROVE TargetInv
  OBVIOUS
<1>1. TypeOK /\ opts.direction \in {"dual-egress", "ifb"}
  BY InitSchedule, InputFacts DEF ScheduleInv, TypeOK, OptionRecord
<1>2. pc = IF opts.direction = "ifb" THEN "link" ELSE AfterSetup
  BY DEF Init, FirstPoint
<1>3. LeftoverOK
  BY DEF Init
<1>4. ModeOK /\ SetupOK /\ RedirectNeedsLink
  BY <1>1, <1>2, <1>3
     DEF LeftoverOK, ModeOK, SetupOK, RedirectNeedsLink, AfterSetup, Replaying,
         Pausing, Applying
<1>5. RemovedOK /\ CleanupComplete
  BY <1>1, <1>2 DEF RemovedOK, CleanupComplete, AfterSetup
<1> QED
  BY <1>1, <1>4, <1>5 DEF TargetInv

\* What the types say of the state the device steps look at.
LEMMA TargetTypes ==
  ASSUME TypeOK
  PROVE  /\ opts.direction \in {"dual-egress", "ifb"}
         /\ opts.cleanup \in BOOLEAN /\ opts.delete \in BOOLEAN
         /\ silent \in Nat /\ qdisc \in [Directions -> Int] /\ ifb \in Links
BY InputFacts, MaxFaultsAssumption
   DEF TypeOK, OptionRecord, KernelTypeOK, MaxFaultsAssumption

LEMMA PrepareTargets ==
  ASSUME TargetInv, TypeOK', Prepare
  PROVE  TargetInv'
<1> USE TargetTypes DEF TargetInv, ModeOK, SetupOK, RemovedOK, RedirectNeedsLink,
        CleanupComplete, Goto, RaiseUnprepared, Accepted, Refused, RefusedSilently,
        kernel, inputVars, AfterSetup, Replaying, Pausing, Applying, Directions, Links
<1>1. CASE LinkSetup
  BY <1>1 DEF LinkSetup, EnsureIfbLink
<1>2. CASE LinkUp
  BY <1>2 DEF LinkUp, SetIfbUp
<1>3. CASE IngressSetup
  BY <1>3 DEF IngressSetup, ReplaceIngress
<1>4. CASE FilterSetup
  BY <1>4 DEF FilterSetup, ReplaceRedirectFilter
<1>5. CASE ClearExisting
  BY <1>5 DEF ClearExisting, ClearRoot
<1> QED
  BY <1>1, <1>2, <1>3, <1>4, <1>5 DEF Prepare

-----------------------------------------------------------------------------
\* A step of the replay: at most a root qdisc changes, and the replay goes on
\* or leaves the try block.
InBody ==
  /\ UNCHANGED <<ifb, ingress, redirect, silent, opts>>
  /\ pc \in {"load"} \cup Replaying
  /\ pc' \in {"finally"} \cup Replaying

LEMMA ReplayInBody ==
  ASSUME Replay
  PROVE  InBody
<1> USE DEF InBody, Goto, Leave, Accepted, Refused, ReplaceRoot, kernel, kernelVars,
        inputVars, Replaying, Pausing, Applying
<1>1. CASE Load \/ NextState \/ FinishEvents \/ RejectNegativeStart
  BY <1>1 DEF Load, NextState, FinishEvents, RejectNegativeStart
<1>2. CASE NextEvent \/ ConvertEvent \/ WaitDone
  BY <1>2 DEF NextEvent, ConvertEvent, WaitDone
<1>3. CASE ApplyForward \/ ApplyReverse
  BY <1>3 DEF ApplyForward, ApplyReverse, Apply
<1>4. CASE LogForward
  BY <1>4 DEF LogForward
<1>5. CASE LogReverse
  BY <1>5 DEF LogReverse, PairDone
<1> QED
  BY <1>1, <1>2, <1>3, <1>4, <1>5 DEF Replay

LEMMA BodyTargets ==
  ASSUME TargetInv, TypeOK', InBody
  PROVE  TargetInv'
<1>1. pc' \notin Preparing \cup Ended
      /\ pc' \notin {"load", "clean_ingress", "clean_rev", "link_down", "link_delete"}
  BY DEF InBody, Preparing, Ended, Replaying, Pausing, Applying
<1>2. ModeOK' /\ SetupOK'
  BY <1>1 DEF TargetInv, InBody, ModeOK, SetupOK, Preparing
<1>3. RemovedOK' /\ CleanupComplete'
  BY <1>1 DEF RemovedOK, CleanupComplete, Ended
<1>4. RedirectNeedsLink'
  BY DEF TargetInv, InBody, RedirectNeedsLink
<1> QED
  BY <1>2, <1>3, <1>4 DEF TargetInv

-----------------------------------------------------------------------------
LEMMA CleanupTargets ==
  ASSUME TargetInv, TypeOK', Finally \/ Cleanup
  PROVE  TargetInv'
<1> USE TargetTypes DEF TargetInv, ModeOK, SetupOK, RemovedOK, RedirectNeedsLink,
        CleanupComplete, Goto, Accepted, RefusedSilently, kernel, kernelVars,
        inputVars, Replaying, Pausing, Applying, Directions, Links
<1>1. CASE Finally
  BY <1>1 DEF Finally
<1>2. CASE pc = "clean_fwd" /\ ClearRoot("forward") /\ Goto(AfterForward) /\ UNCHANGED opts
  BY <1>2 DEF ClearRoot, AfterForward
<1>3. CASE pc = "clean_ingress" /\ ClearIngress /\ Goto("clean_rev") /\ UNCHANGED opts
  BY <1>3 DEF ClearIngress
<1>4. CASE pc = "clean_rev" /\ ClearRoot("reverse") /\ Goto(AfterReverse) /\ UNCHANGED opts
  BY <1>4 DEF ClearRoot, AfterReverse
<1>5. CASE pc = "link_down" /\ SetIfbDown /\ Goto("link_delete") /\ UNCHANGED opts
  BY <1>5 DEF SetIfbDown
<1>6. CASE pc = "link_delete" /\ DeleteIfbLink /\ Goto("exited") /\ UNCHANGED opts
  BY <1>6 DEF DeleteIfbLink
<1> QED
  BY <1>1, <1>2, <1>3, <1>4, <1>5, <1>6 DEF Cleanup

\* Time, a signal and a kill change no device.
LEMMA AroundTargets ==
  ASSUME TargetInv, TypeOK', Tick \/ Signal \/ Kill \/ Ending \/ UNCHANGED vars
  PROVE  TargetInv'
<1>1. UNCHANGED <<kernelVars, opts>>
      /\ \/ UNCHANGED <<pc, outcome>>
         \/ pc' = "killed"
  BY DEF Tick, Signal, Kill, Ending, vars, control, inputVars
<1>2. ModeOK' /\ SetupOK'
  BY <1>1 DEF TargetInv, ModeOK, SetupOK, kernelVars, Replaying, Pausing, Applying
<1>3. RemovedOK' /\ RedirectNeedsLink' /\ CleanupComplete'
  BY <1>1 DEF TargetInv, RemovedOK, RedirectNeedsLink, CleanupComplete, kernelVars
<1> QED
  BY <1>2, <1>3 DEF TargetInv

LEMMA NextTargets == TargetInv /\ TypeOK' /\ [Next]_vars => TargetInv'
BY PrepareTargets, ReplayInBody, BodyTargets, CleanupTargets, AroundTargets
   DEF Next, Process

LEMMA TargetsHold == Spec => []TargetInv
BY InitTargets, NextTargets, TypeCorrect, PTL DEF Spec

\* Ingress traffic is never redirected to a link that is missing or down, at
\* any step of set-up and cleanup and after a kill.
THEOREM NoDanglingRedirect == Spec => []RedirectNeedsLink
<1>1. TargetInv => RedirectNeedsLink
  BY DEF TargetInv
<1> QED
  BY <1>1, TargetsHold, PTL

\* The replay body only runs with the traffic redirected to a link that is up.
THEOREM AlwaysShaped == Spec => []ShapedWhileReplaying
<1>1. TargetInv => ShapedWhileReplaying
  BY DEF TargetInv, SetupOK, ShapedWhileReplaying
<1> QED
  BY <1>1, TargetsHold, PTL

\* With --cleanup-on-exit a replay that got past its preparation leaves no
\* qdisc, redirect or (with --delete-ifb-device) link behind.
THEOREM CleanExit == Spec => []CleanupComplete
<1>1. TargetInv => CleanupComplete
  BY DEF TargetInv
<1> QED
  BY <1>1, TargetsHold, PTL
-----------------------------------------------------------------------------
(* The execution log and the order of a time series.  That the log is in    *)
(* the order of the plan depends on what is still to be planned: PlanInv    *)
(* bounds the records by the pair being applied, or by the entry the loop   *)
(* looks at.  SeriesInv counts them.                                        *)

\* Nothing in the log is planned after t.
LoggedBy(t) == \A i \in 1..Len(log) : log[i].planned <= t

\* When the plan has entry k of the input.
EntryStart(k) == IF opts.mode = "event" THEN Start(k) ELSE profile[k].start

\* When the pair being applied is planned.
PlannedOK ==
  /\ job.action = "baseline" => job.planned = 0
  /\ job.action = "event_end" => job.planned <= Start(next)
  /\ job.action = "timeseries_state" => job.planned = profile[next].start

PlanInv ==
  /\ PlannedMonotone
  /\ pc \in Preparing \cup {"load"} => log = <<>>
  /\ InJob => LoggedBy(job.planned) /\ PlannedOK
  /\ pc = "convert" => LoggedBy(Start(next))
  /\ pc = "loop" => \/ next = 1 /\ LoggedBy(0)
                    \/ next > 1 /\ LoggedBy(EntryStart(next - 1))

-----------------------------------------------------------------------------
Line == [action : Actions, id : Nat, direction : Directions, planned : Nat,
         parameters : Nat]

\* One more record, planned last, keeps the order.
LEMMA AppendInOrder ==
  ASSUME NEW s \in Seq(Line), NEW r \in Line,
         \A i, j \in 1..Len(s) : i <= j => s[i].planned <= s[j].planned,
         \A i \in 1..Len(s) : s[i].planned <= r.planned
  PROVE  LET t == Append(s, r)
         IN  /\ Len(t) = Len(s) + 1
             /\ \A i, j \in 1..Len(t) : i <= j => t[i].planned <= t[j].planned
             /\ \A i \in 1..Len(t) : t[i].planned <= r.planned
<1> DEFINE t == Append(s, r)
<1>1. /\ Len(s) \in Nat /\ Len(t) = Len(s) + 1 /\ t[Len(s) + 1] = r
      /\ \A i \in 1..Len(s) : t[i] = s[i]
  OBVIOUS
<1>2. r.planned \in Nat
  BY DEF Line
<1>3. \A i \in 1..Len(t) : i \in 1..Len(s) \/ i = Len(s) + 1
  BY <1>1
<1>4. \A i \in 1..Len(t) : t[i].planned <= r.planned
  BY <1>1, <1>2, <1>3
<1>5. ASSUME NEW i \in 1..Len(t), NEW j \in 1..Len(t), i <= j
      PROVE  t[i].planned <= t[j].planned
  <2>1. CASE j = Len(s) + 1
    BY <1>1, <1>4, <2>1
  <2>2. CASE j \in 1..Len(s)
    BY <1>1, <1>5, <2>2
  <2> QED
    BY <1>3, <2>1, <2>2
<1> QED
  BY <1>1, <1>4, <1>5

\* What every step may use of the invariant of the schedule.
LEMMA LogFacts ==
  ASSUME ScheduleInv
  PROVE  /\ Len(profile) \in Nat /\ next \in 1..(Len(profile) + 1)
         /\ previousEnd \in Nat /\ clock \in Nat /\ job \in JobType
         /\ opts.mode \in {"event", "timeseries"}
         /\ log \in Seq(Line) /\ Len(log) \in Nat
         /\ \A i \in 1..Len(log) : log[i].planned \in Nat
         /\ \A k \in 1..Len(profile) :
              /\ Start(k) \in Int /\ EventEnds(k) \in Int /\ Start(k) < EventEnds(k)
              /\ profile[k].start \in Nat
<1>1. log \in Seq(Line) /\ profile \in Profiles /\ opts \in Options
  BY DEF ScheduleInv, TypeOK, Line
<1>2. \A i \in 1..Len(log) : log[i] \in Line
  BY <1>1
<1>3. \A i \in 1..Len(log) : log[i].planned \in Nat
  BY <1>2 DEF Line
<1>4. log \in Seq(Line) /\ Len(log) \in Nat
  BY <1>1
<1>5. \A k \in 1..Len(profile) :
        /\ Start(k) \in Int /\ EventEnds(k) \in Int /\ Start(k) < EventEnds(k)
        /\ profile[k].start \in Nat
  BY <1>1, InputFacts
<1> QED
  BY <1>3, <1>4, <1>5, PlanFacts

\* The entries of an input are sorted, in the plan of either mode.
LEMMA EntriesSorted ==
  ASSUME ScheduleInv, NEW i \in 1..Len(profile), NEW j \in 1..Len(profile), i <= j
  PROVE  EntryStart(i) <= EntryStart(j)
<1>1. profile \in Profiles /\ opts \in Options
  BY DEF ScheduleInv, TypeOK
<1>2. profile[i].start <= profile[j].start
  BY <1>1, ProfilesAssumption DEF ProfilesAssumption, WellFormed
<1>3. profile[i].start \in Nat /\ profile[j].start \in Nat /\ opts.offset \in Int
  BY <1>1, InputFacts DEF OptionRecord
<1> QED
  BY <1>2, <1>3 DEF EntryStart, Start

LEMMA InitPlan == Init => PlanInv
BY DEF Init, PlanInv, PlannedMonotone, InJob, Applying, FirstPoint, AfterSetup

\* Steps that neither append to the log nor plan.
Quiet ==
  /\ UNCHANGED <<opts, profile, job, next, log>>
  /\ \/ pc' = pc
     \/ pc' \in Cleaning \cup Ended
     \/ pc \in Preparing /\ pc' \in Preparing \cup {"load"}
     \/ InJob /\ pc' \in Applying

LEMMA QuietPlan == ASSUME PlanInv, Quiet PROVE PlanInv'
BY DEF Quiet, PlanInv, PlannedMonotone, LoggedBy, PlannedOK, EntryStart, Start, InJob,
   Preparing, Cleaning, Ended, Replaying, Pausing, Applying

-----------------------------------------------------------------------------
(* Planning.                                                                *)

LEMMA PlanningPlan ==
  ASSUME ScheduleInv, PlanInv,
         Load \/ NextState \/ FinishEvents \/ RejectNegativeStart \/ NextEvent
           \/ ConvertEvent \/ WaitDone
  PROVE  PlanInv'
<1>1. /\ UNCHANGED <<opts, profile, next, log>>
      /\ PlannedMonotone'
  BY DEF Load, NextState, FinishEvents, RejectNegativeStart, NextEvent, ConvertEvent,
     WaitDone, inputVars, loopVars, PlanInv, PlannedMonotone
<1>2. ASSUME pc = "loop", next <= Len(profile), EntryStart(next) >= 0
      PROVE  LoggedBy(EntryStart(next))
  <2>1. CASE next = 1
    BY <1>2, <2>1, LogFacts DEF PlanInv, LoggedBy, EntryStart
  <2>2. CASE next > 1
    <3>1. EntryStart(next - 1) <= EntryStart(next)
      BY <1>2, <2>2, LogFacts, EntriesSorted
    <3>2. EntryStart(next - 1) \in Int /\ EntryStart(next) \in Int
      BY <1>2, <2>2, LogFacts DEF EntryStart
    <3>3. LoggedBy(EntryStart(next - 1))
      BY <1>2, <2>2 DEF PlanInv
    <3>4. \A i \in 1..Len(log) : log[i].planned \in Int
      BY LogFacts
    <3> QED
      BY <3>1, <3>2, <3>3, <3>4 DEF LoggedBy
  <2> QED
    BY <2>1, <2>2, LogFacts
<1>3. ASSUME pc = "loop", opts.mode = "event" PROVE LoggedBy(previousEnd)
  <2>1. CASE next = 1
    BY <1>3, <2>1, LogFacts DEF PlanInv, LoggedBy
  <2>2. CASE next > 1
    <3>1. EntryStart(next - 1) \in Int /\ EntryStart(next - 1) <= previousEnd
      BY <1>3, <2>2, LogFacts DEF ScheduleInv, EndsOK, EntryStart
    <3> QED
      BY <1>3, <2>2, <3>1, LogFacts DEF PlanInv, LoggedBy
  <2> QED
    BY <2>1, <2>2, LogFacts
<1> USE DEF Goto, Leave, Job, InJob, Applying, Preparing
<1>4. CASE Load
  <2>1. log = <<>> /\ next = 1
    BY <1>4 DEF Load, PlanInv, ScheduleInv, FreshOK
  <2> QED
    BY <1>1, <1>4, <2>1 DEF Load, PlanInv, LoggedBy, PlannedOK
<1>5. CASE NextState
  <2>1. CASE Finishing
    BY <1>1, <1>5, <2>1 DEF NextState, PlanInv
  <2>2. CASE ~ Finishing
    <3>1. next <= Len(profile)
      BY <2>2, LogFacts DEF Finishing
    <3>2. LoggedBy(profile[next].start)
      BY <1>2, <1>5, <3>1, LogFacts DEF NextState, EntryStart
    <3> QED
      BY <1>1, <1>5, <2>2, <3>2 DEF NextState, PlanInv, LoggedBy, PlannedOK
  <2> QED
    BY <2>1, <2>2
<1>6. CASE FinishEvents
  BY <1>1, <1>3, <1>6 DEF FinishEvents, PlanInv, LoggedBy, PlannedOK
<1>7. CASE RejectNegativeStart
  BY <1>1, <1>7 DEF RejectNegativeStart, PlanInv
<1>8. CASE NextEvent
  <2>1. next <= Len(profile) /\ Start(next) >= 0
    BY <1>8, LogFacts DEF NextEvent, Finishing, StartsTooEarly
  <2>2. CASE RestoreBetween
    <3>1. job'.planned <= Start(next)
      BY <1>8, <2>1, <2>2, LogFacts DEF NextEvent, RestoreBetween
    <3> QED
      BY <1>1, <1>3, <1>8, <2>2, <3>1
         DEF NextEvent, PlanInv, LoggedBy, PlannedOK, Start
  <2>3. CASE ~ RestoreBetween
    BY <1>1, <1>2, <1>8, <2>1, <2>3
       DEF NextEvent, PlanInv, LoggedBy, EntryStart, Start
  <2> QED
    BY <2>2, <2>3
<1>9. CASE ConvertEvent
  BY <1>1, <1>9 DEF ConvertEvent, PlanInv, LoggedBy, PlannedOK
<1>10. CASE WaitDone
  BY <1>1, <1>10 DEF WaitDone, PlanInv, LoggedBy, PlannedOK, Start
<1> QED
  BY <1>4, <1>5, <1>6, <1>7, <1>8, <1>9, <1>10

-----------------------------------------------------------------------------
(* Appending.                                                               *)

\* The record a step of the pair appends, and the order it keeps.
LEMMA AppendPlan ==
  ASSUME ScheduleInv, PlanInv, InJob, NEW d \in Directions,
         log' = Append(log, Record(d)), UNCHANGED job
  PROVE  /\ PlannedMonotone'
         /\ \A i \in 1..Len(log') : log'[i].planned <= job.planned
         /\ Len(log') = Len(log) + 1
<1>1. Record(d) \in Line /\ Record(d).planned = job.planned
  BY LogFacts DEF Record, LogRecord, Line, JobType
<1> QED
  BY <1>1, LogFacts, AppendInOrder DEF PlanInv, PlannedMonotone, LoggedBy

LEMMA LogForwardPlan ==
  ASSUME ScheduleInv, PlanInv, LogForward
  PROVE  PlanInv'
<1>1. UNCHANGED <<opts, profile, job, next>> /\ InJob
  BY DEF LogForward, inputVars, loopVars, InJob, Applying
<1>2. CASE log' = Append(log, Record("forward")) /\ Goto("apply_rev")
  BY <1>1, <1>2, AppendPlan
     DEF PlanInv, LoggedBy, PlannedOK, Start, Goto, InJob, Preparing, Directions
<1>3. CASE Leave("log_failed") /\ UNCHANGED log
  BY <1>1, <1>3, QuietPlan DEF Quiet, Leave, Cleaning
<1> QED
  BY <1>2, <1>3 DEF LogForward

LEMMA LogReversePlan ==
  ASSUME ScheduleInv, PlanInv, LogReverse
  PROVE  PlanInv'
<1>1. UNCHANGED <<opts, profile, job>> /\ InJob /\ pc \in Applying
  BY DEF LogReverse, inputVars, InJob, Applying
<1>2. CASE log' = Append(log, Record("reverse")) /\ PairDone
  <2>1. /\ PlannedMonotone'
        /\ \A i \in 1..Len(log') : log'[i].planned <= job.planned
    BY <1>1, <1>2, AppendPlan DEF Directions
  <2>2. CASE job.action = "baseline"
    BY <1>1, <1>2, <2>1, <2>2
       DEF PairDone, Goto, loopVars, PlanInv, PlannedOK, LoggedBy, ScheduleInv, JobOK,
           InJob, Applying, Preparing
  <2>3. CASE job.action = "event_end"
    <3>1. next \in 1..Len(profile) /\ job.planned <= Start(next)
      BY <1>1, <2>3, LogFacts DEF ScheduleInv, JobOK, PlanInv, PlannedOK
    <3>2. \A i \in 1..Len(log') : log'[i].planned \in Nat
      BY <1>1, <1>2, LogFacts DEF Record, LogRecord, JobType
    <3>3. \A i \in 1..Len(log') : log'[i].planned <= Start(next)
      <4>1. job.planned \in Nat /\ Start(next) \in Int
        BY <3>1, LogFacts DEF JobType
      <4> QED
        BY <2>1, <3>1, <3>2, <4>1
    <3> QED
      BY <1>1, <1>2, <2>1, <2>3, <3>3
         DEF PairDone, Goto, loopVars, PlanInv, LoggedBy, Start, InJob, Applying, Preparing
  <2>4. CASE job.action \in {"event_start", "timeseries_state"}
    <3>1. job.planned = EntryStart(next) /\ next >= 1
      BY <1>1, <2>4, LogFacts DEF ScheduleInv, JobOK, PlanInv, PlannedOK, EntryStart
    <3>2. next' = next + 1 /\ pc' \in {"loop", "finally"}
      BY <1>2, <2>4 DEF PairDone, Goto, Leave
    <3>3. next' > 1 /\ next' - 1 = next
      BY <3>2, LogFacts
    <3> QED
      BY <1>1, <2>1, <3>1, <3>2, <3>3
         DEF PlanInv, LoggedBy, EntryStart, Start, InJob, Applying, Preparing
  <2>5. CASE job.action = "final_baseline"
    BY <1>2, <2>1, <2>5 DEF PairDone, Leave, PlanInv, InJob, Applying, Preparing
  <2> QED
    BY <1>2, <2>2, <2>3, <2>4, <2>5 DEF PairDone
<1>3. CASE Leave("log_failed") /\ UNCHANGED <<log, loopVars>>
  BY <1>1, <1>3, QuietPlan DEF Quiet, loopVars, Leave, Cleaning
<1> QED
  BY <1>2, <1>3 DEF LogReverse

\* Commands, the clock, signals and kills.
LEMMA RestPlan ==
  ASSUME ScheduleInv, PlanInv,
         \/ Prepare \/ ApplyForward \/ ApplyReverse \/ Finally \/ Cleanup \/ Kill
         \/ Tick \/ Signal \/ UNCHANGED vars
  PROVE  PlanInv'
<1>1. Quiet
  <2>1. CASE Prepare \/ Finally \/ Cleanup \/ Kill
    <3>1. Outside
      BY <2>1, PrepareOutside, CleanupOutside DEF ScheduleInv
    <3> QED
      BY <3>1 DEF Outside, Quiet, Points
  <2>2. CASE ApplyForward \/ ApplyReverse
    BY <2>2 DEF ApplyForward, ApplyReverse, Apply, Goto, Leave, InJob, Quiet, Applying,
       Cleaning, inputVars, loopVars
  <2>3. CASE Tick \/ Signal \/ UNCHANGED vars
    BY <2>3 DEF Tick, Signal, Quiet, vars, control, inputVars, loopVars
  <2> QED
    BY <2>1, <2>2, <2>3
<1> QED
  BY <1>1, QuietPlan

LEMMA NextPlan == ScheduleInv /\ PlanInv /\ [Next]_vars => PlanInv'
BY PlanningPlan, LogForwardPlan, LogReversePlan, RestPlan
   DEF Next, Process, Replay, Ending

LEMMA Planned == Spec => []PlanInv
BY InitPlan, NextPlan, Scheduled, PTL DEF Spec

\* The records of the execution log are in the order of their planned times,
\* however the events overlap and wherever the baseline was restored.
THEOREM LogInPlanOrder == Spec => []PlannedMonotone
<1>1. PlanInv => PlannedMonotone
  BY DEF PlanInv
<1> QED
  BY <1>1, Planned, PTL

-----------------------------------------------------------------------------
(* The time series.                                                         *)

\* Inside the loop, or out of it after a normal end.
EndedWell == pc = "finally" /\ outcome = "ok"
InSeries  == pc \in Replaying \/ EndedWell

\* The forward direction of a pair is logged, the reverse one is not.
Halfway == {"apply_rev", "log_rev"}

\* The state applied last is on both devices, from its second on.
ShowsLast ==
  next > 1 =>
    /\ clock >= profile[next - 1].start
    /\ \A d \in Directions : qdisc[d] = next - 1

SeriesInv ==
  opts.mode = "timeseries" =>
    /\ pc \in Preparing \cup {"load"} => log = <<>>
    /\ InSeries /\ pc \notin Halfway => Len(log) = 2 * (next - 1)
    /\ pc \in Halfway => Len(log) = 2 * next - 1
    /\ pc \in Pausing \/ EndedWell => ShowsLast

LEMMA InitSeries == Init => SeriesInv
BY DEF Init, SeriesInv, InSeries, EndedWell, Halfway, FirstPoint, AfterSetup, Replaying,
   Pausing, Applying

\* Only the steps of the series matter: those of the event mode are excluded by
\* the mode, those before and after the loop leave nothing to show.
LEMMA PlanningSeries ==
  ASSUME ScheduleInv, SeriesInv,
         Load \/ NextState \/ FinishEvents \/ RejectNegativeStart \/ NextEvent
           \/ ConvertEvent \/ WaitDone
  PROVE  SeriesInv'
<1> SUFFICES ASSUME opts.mode = "timeseries" PROVE SeriesInv'
  BY DEF SeriesInv, Load, NextState, FinishEvents, RejectNegativeStart, NextEvent,
     ConvertEvent, WaitDone, inputVars
<1> USE DEF SeriesInv, InSeries, EndedWell, Halfway, ShowsLast, Goto, Leave,
        kernelVars, inputVars, loopVars, environment, Preparing, Replaying, Pausing, Applying
<1>1. CASE Load
  BY <1>1 DEF Load, ScheduleInv, FreshOK
<1>2. CASE NextState
  <2>1. CASE Finishing
    BY <1>2, <2>1 DEF NextState
  <2>2. CASE ~ Finishing
    <3>1. pc = "loop" /\ pc' = "wait" /\ UNCHANGED <<log, next, qdisc, clock, profile>>
      BY <1>2, <2>2 DEF NextState
    <3>2. ShowsLast'
      BY <3>1
    <3> QED
      BY <3>1, <3>2
  <2> QED
    BY <2>1, <2>2
<1>3. CASE FinishEvents \/ RejectNegativeStart \/ NextEvent
  BY <1>3 DEF FinishEvents, RejectNegativeStart, NextEvent
<1>4. CASE ConvertEvent
  BY <1>4 DEF ConvertEvent, ScheduleInv, ConvertOK
<1>5. CASE WaitDone
  BY <1>5 DEF WaitDone
<1> QED
  BY <1>1, <1>2, <1>3, <1>4, <1>5

LEMMA ApplyingSeries ==
  ASSUME ScheduleInv, PlanInv, SeriesInv,
         ApplyForward \/ ApplyReverse \/ LogForward \/ LogReverse
  PROVE  SeriesInv'
<1> SUFFICES ASSUME opts.mode = "timeseries" PROVE SeriesInv'
  BY DEF SeriesInv, ApplyForward, ApplyReverse, Apply, LogForward, LogReverse, inputVars
<1> USE LogFacts DEF SeriesInv, InSeries, EndedWell, Halfway, Goto, Leave,
        inputVars, loopVars, Preparing, Replaying, Pausing, Applying
<1>1. CASE ApplyForward \/ ApplyReverse
  BY <1>1 DEF ApplyForward, ApplyReverse, Apply
<1>2. CASE LogForward
  <2>1. CASE log' = Append(log, Record("forward")) /\ Goto("apply_rev")
    <3>1. Len(log') = Len(log) + 1
      BY <1>2, <2>1, AppendPlan DEF LogForward, InJob, Directions
    <3>2. Len(log) = 2 * (next - 1)
      BY <1>2 DEF LogForward
    <3>3. Len(log') = 2 * next - 1
      BY <3>1, <3>2
    <3> QED
      BY <1>2, <2>1, <3>3 DEF LogForward
  <2>2. CASE Leave("log_failed")
    BY <1>2, <2>2
  <2> QED
    BY <1>2, <2>1, <2>2 DEF LogForward
<1>3. CASE LogReverse
  <2>1. /\ job.action = "timeseries_state" /\ job.condition = next
        /\ job.planned = profile[next].start /\ clock >= job.planned
        /\ \A d \in Directions : qdisc[d] = job.condition
    <3>1. InJob /\ pc = "log_rev"
      BY <1>3 DEF LogReverse, InJob
    <3>2. job.action \in Actions \ {"none", "baseline", "event_start", "event_end",
                                     "final_baseline"}
      BY <3>1 DEF ScheduleInv, JobOK, JobType
    <3> QED
      BY <3>1, <3>2 DEF ScheduleInv, JobOK, PairOK, PlanInv, PlannedOK, Actions, Directions
  <2>2. CASE log' = Append(log, Record("reverse")) /\ PairDone
    <3>1. Len(log') = Len(log) + 1
      BY <1>3, <2>2, AppendPlan DEF LogReverse, InJob, Directions
    <3>2. next' = next + 1 /\ pc' \in {"loop", "finally"}
      BY <2>1, <2>2 DEF PairDone
    <3>3. ShowsLast'
      <4>1. next' - 1 = next
        BY <3>2, LogFacts
      <4>2. UNCHANGED <<qdisc, profile, clock>>
        BY <1>3 DEF LogReverse, kernelVars, environment
      <4> QED
        BY <2>1, <4>1, <4>2 DEF ShowsLast
    <3>4. Len(log') = 2 * (next' - 1)
      <4>1. Len(log) = 2 * next - 1
        BY <1>3 DEF LogReverse
      <4>2. next \in Nat /\ Len(log) \in Nat
        BY LogFacts
      <4> QED
        BY <3>1, <3>2, <4>1, <4>2
    <3> QED
      BY <3>2, <3>3, <3>4
  <2>3. CASE Leave("log_failed")
    BY <2>3
  <2> QED
    BY <1>3, <2>2, <2>3 DEF LogReverse
<1> QED
  BY <1>1, <1>2, <1>3

LEMMA RestSeries ==
  ASSUME ScheduleInv, SeriesInv,
         Prepare \/ Finally \/ Cleanup \/ Kill \/ Tick \/ Signal \/ UNCHANGED vars
  PROVE  SeriesInv'
<1> USE DEF SeriesInv, InSeries, EndedWell, Halfway, Preparing, Replaying, Pausing, Applying
<1>1. CASE Prepare \/ Kill
  <2>1. Outside
    BY <1>1, PrepareOutside, CleanupOutside DEF ScheduleInv
  <2>2. pc' # "finally"
    BY <1>1 DEF Prepare, LinkSetup, LinkUp, IngressSetup, FilterSetup, ClearExisting,
       Goto, RaiseUnprepared, AfterSetup, Kill
  <2> QED
    BY <2>1, <2>2 DEF Outside
<1>2. CASE Finally \/ Cleanup
  BY <1>2 DEF Finally, Cleanup, Goto, AfterForward, AfterReverse, inputVars
<1>3. CASE Tick
  <2>1. /\ UNCHANGED <<qdisc, profile, next>>
        /\ clock' = clock + 1
    BY <1>3 DEF Tick, kernelVars, inputVars, loopVars
  <2>2. next > 1 => profile[next - 1].start \in Nat
    <3>1. next > 1 => next - 1 \in 1..Len(profile)
      <4>1. Len(profile) \in Nat /\ next \in 1..(Len(profile) + 1)
        BY LogFacts
      <4> QED
        BY <4>1
    <3>2. \A k \in 1..Len(profile) : profile[k].start \in Nat
      BY LogFacts
    <3> QED
      BY <3>1, <3>2
  <2>3. ShowsLast => ShowsLast'
    BY <2>1, <2>2, LogFacts DEF ShowsLast
  <2> QED
    BY <1>3, <2>3 DEF Tick, inputVars, loopVars
<1>4. CASE Signal \/ UNCHANGED vars
  BY <1>4 DEF Signal, vars, control, ShowsLast, kernelVars, inputVars, loopVars
<1> QED
  BY <1>1, <1>2, <1>3, <1>4

LEMMA NextSeries == ScheduleInv /\ PlanInv /\ SeriesInv /\ [Next]_vars => SeriesInv'
BY PlanningSeries, ApplyingSeries, RestSeries DEF Next, Process, Replay, Ending

\* A time series is applied in order, no state early, left out or twice, and
\* both devices carry the last one between two states and at a normal end.
THEOREM SeriesInOrder == Spec => []SeriesFollowsProfile
<1>1. ScheduleInv /\ SeriesInv => SeriesFollowsProfile
  BY LogFacts DEF SeriesInv, InSeries, EndedWell, Halfway, ShowsLast,
     SeriesFollowsProfile, Replaying, Pausing
<1>2. Spec => []SeriesInv
  BY InitSeries, NextSeries, Scheduled, Planned, PTL DEF Spec
<1> QED
  BY <1>1, <1>2, Scheduled, PTL

(***************************************************************************)
(* What the execution log of BidirectionalReplay says, for every command   *)
(* line, well-formed input, interleaving and refused command: it tells the *)
(* devices, read pair by pair it is an execution of EventSchedule, and the *)
(* summary accepts it.                                                     *)
(*                                                                         *)
(* TellInv follows the two commands and the two lines of a pair.           *)
(* StateInv relates the last complete pair to the place in the loop.       *)
(* KeyInv keeps the keys of the pairs apart: an event is never started or  *)
(* ended twice, since its number is compared with `next`.                  *)
(***************************************************************************)

-----------------------------------------------------------------------------
(* The log tells the devices.                                               *)

Tells(d) == LastLogged(d, qdisc[d])

\* Each device is told by its last line, but for the command whose line is still
\* to be written, and the reverse device before the first pair is complete.
TellInv ==
  /\ pc \in Preparing \cup {"load"} => log = <<>>
  /\ pc \in Halfway => log # <<>>
  /\ pc \in Replaying /\ log # <<>> =>
       /\ pc # "log_fwd" => Tells("forward")
       /\ pc # "log_rev" => Tells("reverse") \/ (Len(log) = 1 /\ pc = "apply_rev")
  /\ pc = "finally" /\ outcome # "log_failed" /\ log # <<>> =>
       Tells("forward") /\ (Tells("reverse") \/ Len(log) = 1)

LEMMA InitTell == Init => TellInv
BY DEF Init, TellInv, Halfway, FirstPoint, AfterSetup

\* A new line tells its own device, and hides no line of the other one.
LEMMA AppendTells ==
  ASSUME log \in Seq(Line), NEW r \in Line, log' = Append(log, r)
  PROVE  /\ Len(log') = Len(log) + 1
         /\ LastLogged(r.direction, r.parameters)'
         /\ \A d \in Directions, c \in Int :
              d # r.direction /\ LastLogged(d, c) => LastLogged(d, c)'
<1>1. /\ Len(log) \in Nat /\ Len(log') = Len(log) + 1 /\ log'[Len(log) + 1] = r
      /\ \A i \in 1..Len(log) : log'[i] = log[i]
  OBVIOUS
<1>2. LastLogged(r.direction, r.parameters)'
  BY <1>1 DEF LastLogged
<1>3. ASSUME NEW d \in Directions, NEW c \in Int, d # r.direction, LastLogged(d, c)
      PROVE  LastLogged(d, c)'
  <2>1. PICK i \in 1..Len(log) :
          /\ log[i].direction = d /\ log[i].parameters = c
          /\ \A j \in (i + 1)..Len(log) : log[j].direction # d
    BY <1>3 DEF LastLogged
  <2>2. i \in 1..Len(log') /\ log'[i].direction = d /\ log'[i].parameters = c
    BY <1>1, <2>1
  <2>3. ASSUME NEW j \in (i + 1)..Len(log') PROVE log'[j].direction # d
    <3>1. j \in (i + 1)..Len(log) \/ j = Len(log) + 1
      BY <1>1
    <3> QED
      BY <1>1, <1>3, <2>1, <3>1
  <2> QED
    BY <2>2, <2>3 DEF LastLogged
<1> QED
  BY <1>1, <1>2, <1>3

\* The line of a direction, written when its device carries the condition.
LEMMA RecordTells ==
  ASSUME ScheduleInv, InJob, NEW d \in Directions, qdisc[d] = job.condition,
         log' = Append(log, Record(d)), UNCHANGED qdisc
  PROVE  /\ Len(log') = Len(log) + 1
         /\ Tells(d)'
         /\ \A e \in Directions : e # d /\ Tells(e) => Tells(e)'
<1>1. PICK r \in Line :
        r = Record(d) /\ r.direction = d /\ r.parameters = job.condition
  <2>1. /\ Record(d) \in Line
        /\ Record(d).direction = d /\ Record(d).parameters = job.condition
    BY LogFacts DEF Record, LogRecord, Line, JobType
  <2> QED
    BY <2>1
<1>2. log \in Seq(Line) /\ qdisc \in [Directions -> Int]
  BY LogFacts DEF ScheduleInv, TypeOK, KernelTypeOK
<1>3. /\ Len(log') = Len(log) + 1
      /\ LastLogged(r.direction, r.parameters)'
      /\ \A e \in Directions, c \in Int :
           e # r.direction /\ LastLogged(e, c) => LastLogged(e, c)'
  BY <1>1, <1>2, AppendTells
<1>4. Tells(d)'
  BY <1>1, <1>3 DEF Tells, LastLogged
<1>5. ASSUME NEW e \in Directions, e # d, Tells(e) PROVE Tells(e)'
  <2>1. PICK c \in Int : c = qdisc[e]
    BY <1>2
  <2>2. LastLogged(e, c)'
    BY <1>1, <1>3, <1>5, <2>1 DEF Tells
  <2> QED
    BY <2>1, <2>2 DEF Tells, LastLogged
<1> QED
  BY <1>3, <1>4, <1>5

\* Steps that leave the devices and the log alone.
LEMMA PlanningTell ==
  ASSUME TellInv,
         Load \/ NextState \/ FinishEvents \/ RejectNegativeStart \/ NextEvent
           \/ ConvertEvent \/ WaitDone
  PROVE  TellInv'
<1>1. /\ UNCHANGED <<qdisc, log>>
      /\ pc \in {"load"} \cup Pausing
      /\ \/ pc' \in Pausing \cup {"apply_fwd"}
         \/ pc' = "finally"
  BY DEF Load, NextState, FinishEvents, RejectNegativeStart, NextEvent, ConvertEvent,
     WaitDone, Goto, Leave, kernelVars, Pausing
<1> QED
  BY <1>1 DEF TellInv, Halfway, Tells, LastLogged, Preparing, Replaying, Pausing, Applying

LEMMA ApplyingTell ==
  ASSUME ScheduleInv, TellInv, ApplyForward \/ ApplyReverse
  PROVE  TellInv'
<1> USE DEF TellInv, Halfway, Tells, LastLogged, Goto, Leave, Preparing, Replaying, Pausing, Applying
<1>1. UNCHANGED log
  BY DEF ApplyForward, ApplyReverse, Apply
<1>2. qdisc \in [Directions -> Int]
  BY DEF ScheduleInv, TypeOK, KernelTypeOK
<1>3. CASE ApplyForward
  <2>1. CASE ReplaceRoot("forward", job.condition) /\ Goto("log_fwd")
    <3>1. qdisc'["reverse"] = qdisc["reverse"]
      BY <1>2, <2>1 DEF ReplaceRoot, Directions
    <3> QED
      BY <1>1, <1>3, <2>1, <3>1 DEF ApplyForward, Apply
  <2>2. CASE Refused /\ Leave("tc_failed")
    BY <1>1, <1>3, <2>2 DEF ApplyForward, Apply, Refused, kernel
  <2> QED
    BY <1>3, <2>1, <2>2 DEF ApplyForward, Apply
<1>4. CASE ApplyReverse
  <2>1. CASE ReplaceRoot("reverse", job.condition) /\ Goto("log_rev")
    <3>1. qdisc'["forward"] = qdisc["forward"]
      BY <1>2, <2>1 DEF ReplaceRoot, Directions
    <3> QED
      BY <1>1, <1>4, <2>1, <3>1 DEF ApplyReverse, Apply
  <2>2. CASE Refused /\ Leave("tc_failed")
    BY <1>1, <1>4, <2>2 DEF ApplyReverse, Apply, Refused, kernel
  <2> QED
    BY <1>4, <2>1, <2>2 DEF ApplyReverse, Apply
<1> QED
  BY <1>3, <1>4

LEMMA LogForwardTell ==
  ASSUME ScheduleInv, TellInv, LogForward
  PROVE  TellInv'
<1>1. pc = "log_fwd" /\ UNCHANGED qdisc /\ InJob
  BY DEF LogForward, kernelVars, InJob, Applying
<1>2. CASE log' = Append(log, Record("forward")) /\ Goto("apply_rev")
  <2>1. /\ Len(log') = Len(log) + 1 /\ Tells("forward")'
        /\ Tells("reverse") => Tells("reverse")'
    BY <1>1, <1>2, RecordTells DEF ScheduleInv, PairOK, Directions
  <2>2. log' # <<>> /\ (log = <<>> => Len(log') = 1)
    BY <2>1, LogFacts
  <2>3. log # <<>> => Tells("reverse")
    BY <1>1 DEF TellInv, Halfway, Replaying, Applying
  <2> QED
    BY <1>2, <2>1, <2>2, <2>3 DEF TellInv, Halfway, Goto, Preparing
<1>3. CASE Leave("log_failed")
  BY <1>3 DEF Leave, TellInv, Halfway, Preparing, Replaying, Pausing, Applying
<1> QED
  BY <1>2, <1>3 DEF LogForward

LEMMA LogReverseTell ==
  ASSUME ScheduleInv, TellInv, LogReverse
  PROVE  TellInv'
<1>1. pc = "log_rev" /\ UNCHANGED qdisc /\ InJob
  BY DEF LogReverse, kernelVars, InJob, Applying
<1>2. CASE log' = Append(log, Record("reverse")) /\ PairDone
  <2>1. /\ Tells("reverse")'
        /\ Tells("forward") => Tells("forward")'
    BY <1>1, <1>2, RecordTells DEF ScheduleInv, PairOK, Directions
  <2>2. log # <<>> => Tells("forward")
    BY <1>1 DEF TellInv, Halfway, Replaying, Applying
  <2>3. log # <<>>
    BY <1>1 DEF TellInv, Halfway
  <2>4. pc' \in {"loop", "convert", "finally"}
    BY <1>2 DEF PairDone, Goto, Leave
  <2> QED
    BY <2>1, <2>2, <2>3, <2>4 DEF TellInv, Halfway, Preparing
<1>3. CASE Leave("log_failed")
  BY <1>3 DEF Leave, TellInv, Halfway, Preparing, Replaying, Pausing, Applying
<1> QED
  BY <1>2, <1>3 DEF LogReverse

LEMMA RestTell ==
  ASSUME ScheduleInv, TellInv,
         Prepare \/ Finally \/ Cleanup \/ Kill \/ Tick \/ Signal \/ UNCHANGED vars
  PROVE  TellInv'
<1>1. CASE Prepare \/ Finally \/ Cleanup \/ Kill
  <2>1. Outside
    BY <1>1, PrepareOutside, CleanupOutside DEF ScheduleInv
  <2>2. pc' # "finally"
    BY <1>1 DEF Prepare, LinkSetup, LinkUp, IngressSetup, FilterSetup, ClearExisting,
       Goto, RaiseUnprepared, AfterSetup, Finally, Cleanup, AfterForward, AfterReverse, Kill
  <2> QED
    BY <2>1, <2>2 DEF Outside, TellInv, Halfway, Replaying, Applying
<1>2. CASE Tick \/ Signal \/ UNCHANGED vars
  BY <1>2 DEF Tick, Signal, vars, control, kernelVars, TellInv, Halfway, Tells, LastLogged
<1> QED
  BY <1>1, <1>2

LEMMA NextTell == ScheduleInv /\ TellInv /\ [Next]_vars => TellInv'
BY PlanningTell, ApplyingTell, LogForwardTell, LogReverseTell, RestTell
   DEF Next, Process, Replay, Ending

\* Whatever stops the replay, the log tells what each device carries, except
\* between a command and its own line.
THEOREM LogIsTrue == Spec => []LogTellsDevices
<1>1. ScheduleInv /\ TellInv => LogTellsDevices
  <2> SUFFICES ASSUME ScheduleInv, TellInv PROVE LogTellsDevices
    OBVIOUS
  <2>1. CASE pc \in Pausing \cup {"apply_fwd"}
    BY <2>1 DEF TellInv, LogTellsDevices, Tells, Directions, Replaying, Pausing, Applying
  <2>2. CASE pc = "finally" /\ outcome # "log_failed"
    BY <2>2 DEF TellInv, LogTellsDevices, Tells, Directions
  <2> QED
    BY <2>1, <2>2 DEF LogTellsDevices
<1>2. Spec => []TellInv
  BY InitTell, NextTell, Scheduled, PTL DEF Spec
<1> QED
  BY <1>1, <1>2, Scheduled, PTL

-----------------------------------------------------------------------------
(* The refinement: the last complete pair and the place in the loop.        *)

Whole(n) == n \in Nat /\ Len(log) = 2 * n
Half(n)  == n \in Nat /\ Len(log) = 2 * n + 1

\* Half a pair is in the log only between the two lines of it.
ShapeInv ==
  /\ pc \in Preparing \cup {"load"} => log = <<>>
  /\ pc \in Replaying \ Halfway => \E n \in Nat : Whole(n)
  /\ pc \in Halfway => \E n \in Nat : Half(n)

\* The last pair is the baseline, or the event before the next one ...
AtLoop ==
  \/ next = 1 /\ LastPair.action = "baseline" /\ LastPair.id = 0
  \/ next > 1 /\ LastPair.action = "event_start" /\ LastPair.id = next - 1

\* ... or the baseline restored after that event.
Restored ==
  next > 1 /\ LastPair.action = "event_end" /\ LastPair.id = next - 1

\* What the pair being applied continues.
JobContinues ==
  /\ job.action = "baseline" => LastPair.action = "none" /\ job.id = 0
  /\ job.action = "event_start" => job.id = next /\ (AtLoop \/ Restored)
  /\ job.action = "event_end" =>
       /\ AtLoop /\ next > 1 /\ job.id = next - 1
       /\ profile[next - 1].end < profile[next].start
  /\ job.action = "final_baseline" => AtLoop

StateInv ==
  opts.mode = "event" =>
    /\ previousId = next - 1
    /\ pc = "loop" => AtLoop
    /\ pc = "convert" => AtLoop \/ Restored
    /\ InJob => JobContinues

-----------------------------------------------------------------------------
\* A line completes a pair when it is the second of two.
LEMMA LastPairEmpty == log = <<>> => LastPair.action = "none" /\ LastPair.id = 0
<1> SUFFICES ASSUME log = <<>> PROVE LastPair = [action |-> "none", id |-> 0]
  BY DEF LastPair
<1>1. 2 * (Len(log) \div 2) = 0
  OBVIOUS
<1> QED
  BY <1>1 DEF LastPair

LEMMA Halves ==
  ASSUME NEW n \in Nat
  PROVE  2 * ((2 * n) \div 2) = 2 * n /\ 2 * ((2 * n + 1) \div 2) = 2 * n
OBVIOUS

LEMMA FirstOfPair ==
  ASSUME log \in Seq(Line), NEW r \in Line, log' = Append(log, r),
         NEW n \in Nat, Whole(n)
  PROVE  Half(n)' /\ LastPair' = LastPair
<1>1. /\ Len(log) = 2 * n /\ Len(log') = 2 * n + 1
      /\ \A i \in 1..Len(log) : log'[i] = log[i]
  BY DEF Whole
<1>2. Half(n)'
  BY <1>1 DEF Half
<1>3. /\ 2 * (Len(log) \div 2) = 2 * n
      /\ 2 * (Len(log') \div 2) = 2 * n
  BY <1>1, Halves
<1>4. LastPair' = LastPair
  <2>1. CASE n = 0
    BY <1>3, <2>1 DEF LastPair
  <2>2. CASE n # 0
    <3>1. 2 * n # 0 /\ 2 * n \in 1..Len(log)
      BY <1>1, <2>2
    <3>2. log'[2 * n] = log[2 * n]
      BY <1>1, <3>1
    <3> QED
      BY <1>3, <3>1, <3>2 DEF LastPair
  <2> QED
    BY <2>1, <2>2
<1> QED
  BY <1>2, <1>4

LEMMA SecondOfPair ==
  ASSUME log \in Seq(Line), NEW r \in Line, log' = Append(log, r),
         NEW n \in Nat, Half(n)
  PROVE  Whole(n + 1)' /\ LastPair' = r
<1>1. /\ Len(log) = 2 * n + 1 /\ Len(log') = 2 * (n + 1)
      /\ log'[2 * (n + 1)] = r
  BY DEF Half
<1>2. Whole(n + 1)'
  BY <1>1 DEF Whole
<1>3. 2 * (Len(log') \div 2) = 2 * (n + 1) /\ 2 * (n + 1) # 0
  BY <1>1, Halves
<1> QED
  BY <1>1, <1>2, <1>3 DEF LastPair

\* The line the process writes for a direction.
LEMMA RecordIsLine ==
  ASSUME ScheduleInv, NEW d \in Directions
  PROVE  /\ Record(d) \in Line
         /\ Record(d).action = job.action /\ Record(d).id = job.id
BY LogFacts DEF Record, LogRecord, Line, JobType

-----------------------------------------------------------------------------
(* Steps that complete no pair: the abstract schedule stands still.         *)

LEMMA InitState == Init => ShapeInv /\ StateInv
BY DEF Init, ShapeInv, StateInv, InJob, Halfway, FirstPoint, AfterSetup, Replaying,
   Pausing, Applying

LEMMA PlanningState ==
  ASSUME ScheduleInv, ShapeInv, StateInv,
         Load \/ NextState \/ FinishEvents \/ RejectNegativeStart \/ NextEvent
           \/ ConvertEvent \/ WaitDone
  PROVE  ShapeInv' /\ StateInv' /\ UNCHANGED <<profile, opts, log>>
<1>1. UNCHANGED <<profile, opts, log, next, previousId>>
  BY DEF Load, NextState, FinishEvents, RejectNegativeStart, NextEvent, ConvertEvent,
     WaitDone, inputVars, loopVars
<1>2. LastPair' = LastPair
  BY <1>1 DEF LastPair
<1>3. ShapeInv'
  <2>1. /\ pc \in {"load"} \cup Pausing
        /\ pc' \in Pausing \cup {"apply_fwd", "finally"}
    BY DEF Load, NextState, FinishEvents, RejectNegativeStart, NextEvent, ConvertEvent,
       WaitDone, Goto, Leave, Pausing
  <2>2. pc = "load" => Whole(0)
    BY DEF ShapeInv, Whole
  <2>3. \E n \in Nat : Whole(n)
    BY <2>1, <2>2 DEF ShapeInv, Replaying, Pausing, Halfway
  <2> QED
    BY <1>1, <2>1, <2>3 DEF ShapeInv, Whole, Halfway, Preparing, Pausing
<1>4. StateInv'
  <2> SUFFICES ASSUME opts.mode = "event" PROVE StateInv'
    BY <1>1 DEF StateInv
  <2> USE <1>1, <1>2 DEF StateInv, JobContinues, AtLoop, Restored, Goto, Leave, Job,
          InJob, Applying
  <2>1. CASE Load
    <3>1. LastPair.action = "none"
      BY <2>1, LastPairEmpty DEF Load, ShapeInv
    <3> QED
      BY <2>1, <3>1 DEF Load
  <2>2. CASE FinishEvents \/ RejectNegativeStart \/ NextState
    BY <2>2 DEF FinishEvents, RejectNegativeStart, NextState
  <2>3. CASE NextEvent
    <3>1. CASE RestoreBetween
      <4>1. next > 1 /\ next - 1 \in 1..Len(profile) /\ next \in 1..Len(profile)
        BY <2>3, <3>1, LogFacts DEF NextEvent, RestoreBetween, Finishing
      <4>2. EventEnds(next - 1) <= previousEnd /\ previousEnd < Start(next)
        BY <2>3, <3>1, <4>1, LogFacts DEF RestoreBetween, ScheduleInv, EndsOK
      <4>3. /\ opts.offset \in Int /\ previousEnd \in Nat
            /\ profile[next - 1].end \in Nat /\ profile[next].start \in Nat
        <5>1. opts \in Options /\ profile \in Profiles
          BY DEF ScheduleInv, TypeOK
        <5> QED
          BY <4>1, <5>1, InputFacts, LogFacts DEF OptionRecord
      <4>4. profile[next - 1].end < profile[next].start
        BY <4>2, <4>3 DEF EventEnds, Start
      <4> QED
        BY <2>3, <3>1, <4>1, <4>4 DEF NextEvent
    <3>2. CASE ~ RestoreBetween
      BY <2>3, <3>2 DEF NextEvent
    <3> QED
      BY <3>1, <3>2
  <2>4. CASE ConvertEvent
    BY <2>4 DEF ConvertEvent
  <2>5. CASE WaitDone
    BY <2>5 DEF WaitDone
  <2> QED
    BY <2>1, <2>2, <2>3, <2>4, <2>5
<1> QED
  BY <1>1, <1>3, <1>4

\* Commands, the clock, signals and kills: where they may lead.
LEMMA RestLeaves ==
  ASSUME ScheduleInv,
         \/ Prepare \/ ApplyForward \/ ApplyReverse \/ Finally \/ Cleanup \/ Kill
         \/ Tick \/ Signal \/ UNCHANGED vars
  PROVE  /\ UNCHANGED <<profile, opts, log, next, previousId, job>>
         /\ \/ pc' = pc
            \/ pc' \in Cleaning \cup Ended
            \/ pc \in Preparing /\ pc' \in Preparing \cup {"load"}
            \/ pc = "apply_fwd" /\ pc' = "log_fwd"
            \/ pc = "apply_rev" /\ pc' = "log_rev"
<1>1. CASE Prepare \/ Finally \/ Cleanup \/ Kill
  <2>1. Outside
    BY <1>1, PrepareOutside, CleanupOutside DEF ScheduleInv
  <2> QED
    BY <2>1 DEF Outside, Points
<1>2. CASE ApplyForward \/ ApplyReverse
  BY <1>2 DEF ApplyForward, ApplyReverse, Apply, Goto, Leave, Cleaning, inputVars,
     loopVars
<1>3. CASE Tick \/ Signal \/ UNCHANGED vars
  BY <1>3 DEF Tick, Signal, vars, control, inputVars, loopVars
<1> QED
  BY <1>1, <1>2, <1>3

LEMMA RestState ==
  ASSUME ScheduleInv, ShapeInv, StateInv,
         \/ Prepare \/ ApplyForward \/ ApplyReverse \/ Finally \/ Cleanup \/ Kill
         \/ Tick \/ Signal \/ UNCHANGED vars
  PROVE  ShapeInv' /\ StateInv' /\ UNCHANGED <<profile, opts, log>>
<1>1. /\ UNCHANGED <<profile, opts, log, next, previousId, job>>
      /\ \/ pc' = pc
         \/ pc' \in Cleaning \cup Ended
         \/ pc \in Preparing /\ pc' \in Preparing \cup {"load"}
         \/ pc = "apply_fwd" /\ pc' = "log_fwd"
         \/ pc = "apply_rev" /\ pc' = "log_rev"
  BY RestLeaves
<1>2. LastPair' = LastPair
  BY <1>1 DEF LastPair
<1>3. ShapeInv'
  BY <1>1 DEF ShapeInv, Whole, Half, Halfway, Preparing, Cleaning, Ended, Replaying,
     Pausing, Applying
<1>4. StateInv'
  BY <1>1, <1>2 DEF StateInv, JobContinues, AtLoop, Restored, InJob, Preparing, Cleaning,
     Ended, Applying
<1> QED
  BY <1>1, <1>3, <1>4

-----------------------------------------------------------------------------
(* The two lines of a pair.                                                 *)

LEMMA LogForwardState ==
  ASSUME ScheduleInv, ShapeInv, StateInv, LogForward
  PROVE  ShapeInv' /\ StateInv' /\ UNCHANGED <<profile, opts, LastPair>>
<1>1. UNCHANGED <<profile, opts, job, next, previousId>> /\ pc = "log_fwd"
  BY DEF LogForward, inputVars, loopVars
<1>2. CASE log' = Append(log, Record("forward")) /\ Goto("apply_rev")
  <2>1. PICK n \in Nat : Whole(n)
    BY <1>1 DEF ShapeInv, Replaying, Applying, Halfway
  <2>2. PICK r \in Line : r = Record("forward")
    BY RecordIsLine DEF Directions
  <2>3. Half(n)' /\ LastPair' = LastPair
    BY <1>2, <2>1, <2>2, LogFacts, FirstOfPair
  <2>4. ShapeInv'
    BY <1>2, <2>3 DEF ShapeInv, Goto, Halfway, Preparing
  <2>5. StateInv'
    BY <1>1, <1>2, <2>3 DEF StateInv, JobContinues, AtLoop, Restored, Goto, InJob,
       Applying
  <2> QED
    BY <1>1, <2>3, <2>4, <2>5
<1>3. CASE Leave("log_failed") /\ UNCHANGED log
  <2>1. LastPair' = LastPair
    BY <1>3 DEF LastPair
  <2>2. ShapeInv' /\ StateInv'
    BY <1>1, <1>3 DEF ShapeInv, StateInv, Leave, InJob, Halfway, Preparing, Replaying,
       Pausing, Applying
  <2> QED
    BY <1>1, <2>1, <2>2
<1> QED
  BY <1>2, <1>3 DEF LogForward

\* The pair is complete: one step of the abstract schedule.
LEMMA PairState ==
  ASSUME ScheduleInv, ShapeInv, StateInv, pc = "log_rev",
         log' = Append(log, Record("reverse")), PairDone,
         UNCHANGED <<profile, opts, job>>
  PROVE  ShapeInv' /\ StateInv' /\ (opts.mode = "event" => Schedule!Next)
<1>1. PICK n \in Nat : Half(n)
  BY DEF ShapeInv, Halfway
<1>2. PICK r \in Line :
        r = Record("reverse") /\ r.action = job.action /\ r.id = job.id
  <2>1. "reverse" \in Directions
    BY DEF Directions
  <2> QED
    BY <2>1, RecordIsLine
<1>3. Whole(n + 1)' /\ LastPair'.action = job.action /\ LastPair'.id = job.id
  <2>1. Whole(n + 1)' /\ LastPair' = r
    BY <1>1, <1>2, LogFacts, SecondOfPair
  <2> QED
    BY <1>2, <2>1
<1>4. pc' \in {"loop", "convert", "finally"}
  BY DEF PairDone, Goto, Leave
<1>5. ShapeInv'
  <2>1. \E k \in Nat : Whole(k)'
    BY <1>3
  <2> QED
    BY <1>4, <2>1 DEF ShapeInv, Whole, Halfway, Preparing
<1>6. InJob /\ Len(profile) \in Nat /\ next \in 1..(Len(profile) + 1)
  BY LogFacts DEF InJob, Applying
<1>7. ~ InJob'
  BY <1>4 DEF InJob, Applying
<1>8. ASSUME opts.mode = "event" PROVE StateInv' /\ Schedule!Next
  <2>1. JobContinues
    BY <1>6, <1>8 DEF StateInv
  <2>2. previousId = next - 1
    BY <1>8 DEF StateInv
  <2> USE DEF JobContinues, AtLoop, Restored
  <2>3. CASE job.action = "baseline"
    <3>1. UNCHANGED <<next, previousId>> /\ pc' = "loop" /\ next = 1
      BY <1>6, <2>3 DEF PairDone, Goto, loopVars, ScheduleInv, JobOK
    <3>2. StateInv'
      BY <1>3, <1>7, <2>1, <2>2, <2>3, <3>1 DEF StateInv
    <3>3. Schedule!Begin
      BY <1>3, <2>1, <2>3 DEF Schedule!Begin
    <3> QED
      BY <3>2, <3>3 DEF Schedule!Next
  <2>4. CASE job.action = "event_start"
    <3>1. next' = next + 1 /\ previousId' = next /\ pc' = "loop" /\ next <= Len(profile)
      BY <1>6, <2>4 DEF PairDone, Goto, ScheduleInv, JobOK
    <3>2. StateInv'
      BY <1>3, <1>6, <1>7, <2>1, <2>4, <3>1 DEF StateInv
    <3>3. Schedule!StartEvent
      BY <1>3, <1>6, <2>1, <2>4, <3>1 DEF Schedule!StartEvent
    <3> QED
      BY <3>2, <3>3 DEF Schedule!Next
  <2>5. CASE job.action = "event_end"
    <3>1. UNCHANGED <<next, previousId>> /\ pc' = "convert" /\ next <= Len(profile)
      BY <1>6, <2>5 DEF PairDone, Goto, loopVars, ScheduleInv, JobOK
    <3>2. StateInv'
      BY <1>3, <1>7, <2>1, <2>2, <2>5, <3>1 DEF StateInv
    <3>3. Schedule!EndEvent
      BY <1>3, <1>6, <2>1, <2>5, <3>1 DEF Schedule!EndEvent
    <3> QED
      BY <3>2, <3>3 DEF Schedule!Next
  <2>6. CASE job.action = "final_baseline"
    <3>1. UNCHANGED <<next, previousId>> /\ pc' = "finally"
      BY <2>6 DEF PairDone, Leave, loopVars
    <3>2. StateInv'
      BY <1>7, <2>2, <3>1 DEF StateInv
    <3>3. Schedule!Finish
      BY <1>3, <2>1, <2>6 DEF Schedule!Finish
    <3> QED
      BY <3>2, <3>3 DEF Schedule!Next
  <2>7. job.action # "timeseries_state"
    BY <1>6, <1>8 DEF ScheduleInv, JobOK
  <2> QED
    BY <2>3, <2>4, <2>5, <2>6, <2>7 DEF PairDone
<1>9. StateInv'
  BY <1>8 DEF StateInv
<1> QED
  BY <1>5, <1>8, <1>9

LEMMA LogReverseState ==
  ASSUME ScheduleInv, ShapeInv, StateInv, LogReverse
  PROVE  /\ ShapeInv' /\ StateInv'
         /\ (opts.mode = "event" => Schedule!Next) \/ UNCHANGED <<profile, opts, LastPair>>
<1>1. UNCHANGED <<profile, opts, job>> /\ pc = "log_rev"
  BY DEF LogReverse, inputVars
<1>2. CASE log' = Append(log, Record("reverse")) /\ PairDone
  BY <1>1, <1>2, PairState
<1>3. CASE Leave("log_failed") /\ UNCHANGED <<log, loopVars>>
  <2>1. LastPair' = LastPair
    BY <1>3 DEF LastPair
  <2>2. ShapeInv' /\ StateInv'
    BY <1>1, <1>3 DEF ShapeInv, StateInv, Leave, loopVars, InJob, Halfway, Preparing,
       Replaying, Pausing, Applying
  <2> QED
    BY <1>1, <2>1, <2>2
<1> QED
  BY <1>2, <1>3 DEF LogReverse

-----------------------------------------------------------------------------
\* Every step is a step of the abstract schedule, or it stands still.
LEMMA EveryStepIsScheduled ==
  ScheduleInv /\ ShapeInv /\ StateInv /\ [Next]_vars =>
    /\ ShapeInv' /\ StateInv'
    /\ (opts.mode = "event" => Schedule!Next) \/ UNCHANGED <<profile, opts, LastPair>>
<1> SUFFICES ASSUME ScheduleInv, ShapeInv, StateInv, [Next]_vars
             PROVE  /\ ShapeInv' /\ StateInv'
                    /\ \/ opts.mode = "event" => Schedule!Next
                       \/ UNCHANGED <<profile, opts, LastPair>>
  OBVIOUS
<1>1. UNCHANGED log => LastPair' = LastPair
  BY DEF LastPair
<1>2. CASE Load \/ NextState \/ FinishEvents \/ RejectNegativeStart \/ NextEvent
             \/ ConvertEvent \/ WaitDone
  BY <1>1, <1>2, PlanningState
<1>3. CASE \/ Prepare \/ ApplyForward \/ ApplyReverse \/ Finally \/ Cleanup \/ Kill
           \/ Tick \/ Signal \/ UNCHANGED vars
  BY <1>1, <1>3, RestState
<1>4. CASE LogForward
  BY <1>4, LogForwardState
<1>5. CASE LogReverse
  BY <1>5, LogReverseState
<1> QED
  BY <1>2, <1>3, <1>4, <1>5 DEF Next, Process, Replay, Ending

\* Read pair by pair, the log of an event replay is an execution of the abstract
\* schedule: the baseline first, every event in order and once, the baseline in
\* between only after an event that is followed by a gap, and nothing after the
\* final one; a stop or a failure only leaves out the rest.
THEOREM ImplementsEventSchedule == Spec => ImplementsSchedule
<1> DEFINE Inv == ScheduleInv /\ ShapeInv /\ StateInv
<1>1. Init => Inv /\ Schedule!Init
  BY InitSchedule, InitState, LastPairEmpty DEF Init, Schedule!Init
<1>2. Inv /\ [Next]_vars => Inv'
  BY NextSchedule, EveryStepIsScheduled
<1>3. Inv /\ [Next]_vars => [opts.mode = "event" => Schedule!Next]_(Schedule!vars)
  BY EveryStepIsScheduled DEF Schedule!vars
<1> QED
  BY <1>1, <1>2, <1>3, PTL DEF Spec, ImplementsSchedule

-----------------------------------------------------------------------------
(* The log is accepted.                                                     *)

JobKey == <<job.action, job.id, job.planned>>

\* The lines before the pair being written.
Past == 1..(IF pc \in Halfway THEN Len(log) - 1 ELSE Len(log))

\* Two lines of one key are the two directions of one pair ...
KeysApart ==
  \A i, j \in 1..Len(log) :
    i < j /\ PairKey(log[i]) = PairKey(log[j]) =>
      j = i + 1 /\ log[i].direction = "forward" /\ log[j].direction = "reverse"

\* ... and every line but the first of an open pair has its partner.
Partnered ==
  \A i \in 1..Len(log) :
    /\ log[i].direction = "forward" =>
         \/ i = Len(log) /\ pc \in Halfway
         \/ /\ i + 1 \in 1..Len(log) /\ log[i + 1].direction = "reverse"
            /\ PairKey(log[i + 1]) = PairKey(log[i])
    /\ log[i].direction = "reverse" =>
         /\ i - 1 \in 1..Len(log) /\ log[i - 1].direction = "forward"
         /\ PairKey(log[i - 1]) = PairKey(log[i])

\* The line of the open pair.
OpenPair ==
  /\ Len(log) > 0 /\ log[Len(log)].direction = "forward"
  /\ PairKey(log[Len(log)]) = JobKey

\* Only events before `next` were started, and the last of them is ended only
\* on the way to the next one.
PastOK ==
  \A i \in Past :
    /\ log[i].action \in {"baseline", "event_start", "event_end"}
    /\ log[i].action \in {"event_start", "event_end"} => log[i].id < next
    /\ log[i].action = "event_end" /\ log[i].id = next - 1 =>
         pc = "convert" \/ (InJob /\ job.action = "event_start")

KeyInv ==
  opts.mode = "event" =>
    /\ pc \in Replaying \/ outcome = "ok" => KeysApart /\ Partnered
    /\ pc \in Halfway => OpenPair
    /\ pc \in Replaying => PastOK
    /\ InJob /\ job.action = "baseline" => Past = {}
    /\ outcome = "ok" => log # <<>> /\ pc \notin Replaying

LEMMA InitKey == Init => KeyInv
BY DEF Init, KeyInv, InJob, Halfway, FirstPoint, AfterSetup, Replaying, Pausing, Applying

\* The pair being applied is not in the log yet.
LEMMA JobIsNew ==
  ASSUME ScheduleInv, StateInv, KeyInv, opts.mode = "event", pc \in Applying,
         NEW i \in Past
  PROVE  PairKey(log[i]) # JobKey
<1>1. InJob /\ pc \in Replaying
  BY DEF InJob, Replaying
<1>2. JobContinues /\ PastOK /\ (job.action = "baseline" => Past = {})
  BY <1>1 DEF StateInv, KeyInv
<1>3. /\ log[i].action \in {"baseline", "event_start", "event_end"}
      /\ log[i].action \in {"event_start", "event_end"} => log[i].id < next
      /\ log[i].action = "event_end" /\ log[i].id = next - 1 =>
           job.action = "event_start"
  BY <1>2 DEF PastOK, Applying
<1>4. /\ job.action = "event_start" => job.id = next
      /\ job.action = "event_end" => job.id = next - 1
      /\ job.action # "baseline"
  BY <1>2 DEF JobContinues
<1>5. log[i].action # job.action \/ log[i].id # job.id
  BY <1>3, <1>4, LogFacts
<1> QED
  BY <1>5 DEF PairKey, JobKey

\* A log that only grows keeps its lines.
LEMMA PlanningKey ==
  ASSUME ScheduleInv, ShapeInv, KeyInv,
         Load \/ NextState \/ FinishEvents \/ RejectNegativeStart \/ NextEvent
           \/ ConvertEvent \/ WaitDone
  PROVE  KeyInv'
<1> SUFFICES ASSUME opts.mode = "event" PROVE KeyInv'
  BY DEF KeyInv, Load, NextState, FinishEvents, RejectNegativeStart, NextEvent,
     ConvertEvent, WaitDone, inputVars
<1>1. /\ UNCHANGED <<log, next>>
      /\ pc \in {"load"} \cup Pausing
      /\ \/ pc' \in Pausing \cup {"apply_fwd"} /\ UNCHANGED outcome
         \/ pc' = "finally" /\ outcome' # "ok"
  BY DEF Load, NextState, FinishEvents, RejectNegativeStart, NextEvent, ConvertEvent,
     WaitDone, Goto, Leave, loopVars, Pausing
<1>2. pc \notin Halfway /\ pc' \notin Halfway
  BY <1>1 DEF Pausing, Halfway
<1>3. Past' = Past
  BY <1>1, <1>2 DEF Past
<1>4. CASE pc = "load"
  <2>1. log = <<>> /\ Past = {}
    BY <1>2, <1>4 DEF ShapeInv, Past
  <2>2. KeysApart' /\ Partnered' /\ PastOK'
    BY <1>1, <1>3, <2>1 DEF KeysApart, Partnered, PastOK
  <2>3. outcome # "ok"
    BY <2>1 DEF KeyInv
  <2> QED
    BY <1>1, <1>2, <1>3, <2>1, <2>2, <2>3 DEF KeyInv
<1>5. CASE pc # "load"
  <2>1. KeysApart' /\ Partnered' /\ outcome # "ok"
    BY <1>1, <1>2, <1>5 DEF KeyInv, KeysApart, Partnered, Replaying
  <2>2. PastOK' \/ pc' = "finally"
    BY <1>1, <1>3, <1>5
       DEF KeyInv, PastOK, NextState, FinishEvents, RejectNegativeStart, NextEvent,
           ConvertEvent, WaitDone, Load, Goto, Leave, Job, InJob, Replaying, Pausing, Applying
  <2>3. InJob' /\ job'.action = "baseline" => InJob /\ job.action = "baseline"
    BY <1>1, <1>5 DEF NextState, FinishEvents, RejectNegativeStart, NextEvent,
       ConvertEvent, WaitDone, Load, Goto, Leave, Job, InJob, Applying
  <2>4. pc' = "finally" => pc' \notin Replaying /\ ~ InJob'
    BY DEF Replaying, Pausing, Applying, InJob
  <2> QED
    BY <1>1, <1>2, <1>3, <2>1, <2>2, <2>3, <2>4 DEF KeyInv
<1> QED
  BY <1>4, <1>5

LEMMA RestKey ==
  ASSUME ScheduleInv, ShapeInv, KeyInv,
         \/ Prepare \/ ApplyForward \/ ApplyReverse \/ Finally \/ Cleanup \/ Kill
         \/ Tick \/ Signal \/ UNCHANGED vars
  PROVE  KeyInv'
<1> SUFFICES ASSUME opts.mode = "event" PROVE KeyInv'
  BY RestLeaves DEF KeyInv
<1>1. UNCHANGED <<opts, log, next, job>>
  BY RestLeaves
<1>2. CASE Prepare \/ Finally \/ Cleanup \/ Kill
  <2>1. pc' \notin Replaying /\ pc' \notin Halfway /\ ~ InJob'
    <3>1. Outside
      BY <1>2, PrepareOutside, CleanupOutside DEF ScheduleInv
    <3> QED
      BY <3>1 DEF Outside, Replaying, Pausing, Halfway, Applying, InJob
  <2>2. outcome' = "ok" => outcome = "ok" /\ pc \notin Halfway
    <3>1. outcome' = "ok" => outcome = "ok"
      BY <1>2 DEF Prepare, LinkSetup, LinkUp, IngressSetup, FilterSetup, ClearExisting,
         Goto, RaiseUnprepared, Finally, Cleanup, Kill
    <3>2. outcome = "ok" => pc \notin Halfway
      BY DEF KeyInv, Halfway, Replaying, Applying
    <3> QED
      BY <3>1, <3>2
  <2> QED
    BY <1>1, <2>1, <2>2 DEF KeyInv, KeysApart, Partnered
<1>3. CASE ApplyForward \/ ApplyReverse
  <2>1. /\ \/ pc = "apply_fwd" /\ pc' = "log_fwd" /\ UNCHANGED outcome
           \/ pc = "apply_rev" /\ pc' = "log_rev" /\ UNCHANGED outcome
           \/ pc' = "finally" /\ outcome' = "tc_failed"
    BY <1>3 DEF ApplyForward, ApplyReverse, Apply, Goto, Leave
  <2>2. CASE pc' = "finally" /\ outcome' = "tc_failed"
    BY <2>2 DEF KeyInv, Replaying, Pausing, Applying, Halfway, InJob
  <2>3. CASE pc' # "finally"
    <3>1. pc \in Replaying /\ pc' \in Replaying /\ InJob /\ InJob'
          /\ (pc' \in Halfway <=> pc \in Halfway) /\ UNCHANGED outcome
          /\ pc' # "convert" /\ pc # "convert"
      BY <2>1, <2>3 DEF Replaying, Applying, InJob, Halfway
    <3>2. Past' = Past
      BY <1>1, <3>1 DEF Past
    <3> QED
      BY <1>1, <3>1, <3>2 DEF KeyInv, KeysApart, Partnered, OpenPair, JobKey, PastOK
  <2> QED
    BY <2>1, <2>2, <2>3
<1>4. CASE Tick \/ Signal \/ UNCHANGED vars
  <2>1. UNCHANGED <<pc, outcome>>
    BY <1>4 DEF Tick, Signal, vars, control
  <2> QED
    BY <1>1, <2>1 DEF KeyInv, KeysApart, Partnered, OpenPair, JobKey, PastOK, Past, InJob
<1> QED
  BY <1>2, <1>3, <1>4

\* The line a process writes has the key of its pair.
LEMMA RecordKey ==
  ASSUME ScheduleInv, NEW d \in Directions
  PROVE  PairKey(Record(d)) = JobKey /\ Record(d).direction = d
BY DEF PairKey, Record, LogRecord, JobKey

LEMMA LogForwardKey ==
  ASSUME ScheduleInv, StateInv, KeyInv, LogForward
  PROVE  KeyInv'
<1> SUFFICES ASSUME opts.mode = "event" PROVE KeyInv'
  BY DEF KeyInv, LogForward, inputVars
<1>1. /\ UNCHANGED <<job, next>> /\ pc = "log_fwd"
      /\ pc \in Replaying /\ pc \in Applying /\ pc \notin Halfway /\ InJob
  BY DEF LogForward, loopVars, Replaying, Applying, Halfway, InJob
<1>2. CASE Leave("log_failed")
  BY <1>2 DEF Leave, KeyInv, Replaying, Pausing, Applying, Halfway, InJob
<1>3. CASE log' = Append(log, Record("forward")) /\ Goto("apply_rev")
  <2>1. /\ Len(log) \in Nat /\ Len(log') = Len(log) + 1
        /\ log'[Len(log) + 1] = Record("forward")
        /\ \A i \in 1..Len(log) : log'[i] = log[i]
    BY <1>3, LogFacts
  <2>2. /\ PairKey(log'[Len(log) + 1]) = JobKey
        /\ log'[Len(log) + 1].direction = "forward"
    BY <2>1, RecordKey DEF Directions
  <2>3. pc' = "apply_rev" /\ UNCHANGED outcome /\ pc' \in Halfway /\ pc' \in Replaying /\ InJob'
    BY <1>3 DEF Goto, Halfway, Replaying, Applying, InJob
  <2>4. Past = 1..Len(log) /\ Past' = 1..Len(log)
    BY <1>1, <2>1, <2>3 DEF Past
  <2>5. KeysApart'
    <3>1. \A i \in 1..Len(log) : PairKey(log'[i]) # PairKey(log'[Len(log) + 1])
      BY <1>1, <2>1, <2>2, <2>4, JobIsNew DEF PairKey
    <3>2. \A i, j \in 1..Len(log') : i < j => i \in 1..Len(log) /\ (j \in 1..Len(log) \/ j = Len(log) + 1)
      BY <2>1
    <3>3. \A i \in 1..Len(log) : PairKey(log'[i]) = PairKey(log[i])
      BY <2>1 DEF PairKey
    <3> QED
      BY <1>1, <2>1, <3>1, <3>2, <3>3 DEF KeyInv, KeysApart
  <2>6. Partnered'
    <3>1. Partnered
      BY <1>1 DEF KeyInv
    <3>2. \A i \in 1..Len(log') : i \in 1..Len(log) \/ i = Len(log')
      BY <2>1
    <3>3. \A i \in 1..Len(log) : PairKey(log'[i]) = PairKey(log[i])
      BY <2>1 DEF PairKey
    <3>4. ASSUME NEW i \in 1..Len(log)
          PROVE  /\ log'[i].direction = "forward" =>
                      /\ i + 1 \in 1..Len(log') /\ log'[i + 1].direction = "reverse"
                      /\ PairKey(log'[i + 1]) = PairKey(log'[i])
                 /\ log'[i].direction = "reverse" =>
                      /\ i - 1 \in 1..Len(log') /\ log'[i - 1].direction = "forward"
                      /\ PairKey(log'[i - 1]) = PairKey(log'[i])
      BY <1>1, <2>1, <3>1, <3>3 DEF Partnered
    <3>5. log'[Len(log')].direction = "forward" /\ pc' \in Halfway
      BY <2>1, <2>2, <2>3
    <3> QED
      BY <3>2, <3>4, <3>5 DEF Partnered
  <2>7. OpenPair'
    BY <1>1, <2>1, <2>2 DEF OpenPair, JobKey
  <2>8. PastOK'
    BY <1>1, <2>1, <2>3, <2>4 DEF KeyInv, PastOK
  <2> QED
    BY <1>1, <2>3, <2>4, <2>5, <2>6, <2>7, <2>8 DEF KeyInv
<1> QED
  BY <1>2, <1>3 DEF LogForward

LEMMA LogReverseKey ==
  ASSUME ScheduleInv, StateInv, KeyInv, LogReverse
  PROVE  KeyInv'
<1> SUFFICES ASSUME opts.mode = "event" PROVE KeyInv'
  BY DEF KeyInv, LogReverse, inputVars
<1>1. /\ UNCHANGED job /\ pc = "log_rev"
      /\ pc \in Replaying /\ pc \in Applying /\ pc \in Halfway /\ InJob
  BY DEF LogReverse, Replaying, Applying, Halfway, InJob
<1>2. CASE Leave("log_failed")
  BY <1>2 DEF Leave, KeyInv, Replaying, Pausing, Applying, Halfway, InJob
<1>3. CASE log' = Append(log, Record("reverse")) /\ PairDone
  <2>1. /\ Len(log) \in Nat /\ Len(log') = Len(log) + 1
        /\ log'[Len(log) + 1] = Record("reverse")
        /\ \A i \in 1..Len(log) : log'[i] = log[i]
    BY <1>3, LogFacts
  <2>2. /\ PairKey(log'[Len(log) + 1]) = JobKey
        /\ log'[Len(log) + 1].direction = "reverse"
    BY <2>1, RecordKey DEF Directions
  <2>3. KeysApart /\ Partnered /\ OpenPair /\ PastOK /\ outcome # "ok"
    BY <1>1 DEF KeyInv
  <2>4. pc' \in {"loop", "convert", "finally"}
    BY <1>3 DEF PairDone, Goto, Leave
  <2>5. pc' \notin Halfway /\ ~ InJob'
    BY <2>4 DEF Halfway, InJob, Applying
  <2>6. Past = 1..(Len(log) - 1) /\ Past' = 1..(Len(log) + 1)
    BY <1>1, <2>1, <2>5 DEF Past
  <2>7. \A i \in 1..Len(log) : PairKey(log'[i]) = PairKey(log[i])
    BY <2>1 DEF PairKey
  <2>8. KeysApart'
    <3>1. \A i \in 1..(Len(log) - 1) : PairKey(log'[i]) # PairKey(log'[Len(log) + 1])
      BY <1>1, <2>2, <2>6, <2>7, <2>1, JobIsNew
    <3>2. \A i, j \in 1..Len(log') : i < j =>
             /\ i \in 1..Len(log)
             /\ j \in 1..Len(log) \/ (j = Len(log) + 1 /\ (i \in 1..(Len(log) - 1) \/ i = Len(log)))
      BY <2>1
    <3>3. log'[Len(log)].direction = "forward"
      BY <2>1, <2>3 DEF OpenPair
    <3> QED
      BY <2>1, <2>2, <2>3, <2>7, <3>1, <3>2, <3>3 DEF KeysApart
  <2>9. Partnered'
    <3>1. \A i \in 1..Len(log') : i \in 1..Len(log) \/ i = Len(log) + 1
      BY <2>1
    <3>2. /\ Len(log) > 0 /\ log'[Len(log)].direction = "forward"
          /\ PairKey(log'[Len(log)]) = JobKey
      BY <2>1, <2>3, <2>7 DEF OpenPair
    <3> QED
      BY <2>1, <2>2, <2>3, <2>7, <3>1, <3>2 DEF Partnered
  <2>10. log' # <<>>
    BY <2>1
  <2>11. PastOK' \/ pc' \notin Replaying
    <3>1. /\ Record("reverse").action = job.action /\ Record("reverse").id = job.id
          /\ log[Len(log)].action = job.action /\ log[Len(log)].id = job.id
          /\ Len(log) > 0
      BY <2>3 DEF Record, LogRecord, OpenPair, PairKey, JobKey
    <3>2. \A i \in Past' : i \in Past \/ (log'[i].action = job.action /\ log'[i].id = job.id)
      BY <2>1, <2>6, <3>1
    <3>3. \A i \in Past : log'[i] = log[i]
      BY <2>1, <2>6
    <3>4. JobContinues
      BY <1>1 DEF StateInv
    <3>5. CASE job.action = "baseline"
      <4>1. pc' = "loop" /\ next' = next /\ Past = {}
        BY <1>1, <1>3, <3>5 DEF PairDone, Goto, loopVars, KeyInv
      <4> QED
        BY <3>2, <3>5, <4>1 DEF PastOK
    <3>6. CASE job.action = "event_start"
      <4>1. pc' = "loop" /\ next' = next + 1 /\ job.id = next /\ next \in Nat
        BY <1>3, <3>4, <3>6, LogFacts DEF PairDone, Goto, JobContinues
      <4>2. \A i \in Past : log[i].action \in {"event_start", "event_end"} =>
              log[i].id < next /\ log[i].id \in Nat
        <5>1. \A i \in 1..Len(log) : log[i] \in Line
          BY LogFacts
        <5>2. \A i \in 1..Len(log) : log[i].id \in Nat
          BY <5>1 DEF Line
        <5>3. Past \subseteq 1..Len(log)
          BY DEF Past
        <5> QED
          BY <2>3, <2>6, <5>2, <5>3 DEF PastOK
      <4> QED
        BY <2>3, <3>2, <3>3, <3>6, <4>1, <4>2 DEF PastOK
    <3>7. CASE job.action = "event_end"
      <4>1. pc' = "convert" /\ next' = next /\ job.id = next - 1 /\ next \in Nat
        BY <1>3, <3>4, <3>7, LogFacts DEF PairDone, Goto, loopVars, JobContinues
      <4> QED
        BY <2>3, <3>2, <3>3, <3>7, <4>1 DEF PastOK
    <3>8. CASE job.action = "final_baseline"
      BY <1>3, <3>8 DEF PairDone, Leave, Replaying, Pausing, Applying
    <3>9. job.action # "timeseries_state"
      BY <1>1 DEF ScheduleInv, JobOK
    <3> QED
      BY <1>3, <3>5, <3>6, <3>7, <3>8, <3>9 DEF PairDone
  <2>12. outcome' = "ok" => pc' \notin Replaying
    BY <1>3, <2>3 DEF PairDone, Goto, Leave, Replaying, Pausing, Applying
  <2> QED
    BY <2>5, <2>8, <2>9, <2>10, <2>11, <2>12 DEF KeyInv
<1> QED
  BY <1>2, <1>3 DEF LogReverse

LEMMA NextKey ==
  ScheduleInv /\ ShapeInv /\ StateInv /\ KeyInv /\ [Next]_vars => KeyInv'
BY PlanningKey, RestKey, LogForwardKey, LogReverseKey
   DEF Next, Process, Replay, Ending

\* The log of an event replay that ended normally, stopped or not, is one the
\* summary of the repeated lab can pair: no key twice, none with one direction.
THEOREM CompletedLogIsAccepted == Spec => []CompletedLogAccepted
<1> DEFINE Inv == ScheduleInv /\ ShapeInv /\ StateInv /\ KeyInv
<1>1. Inv => CompletedLogAccepted
  <2> SUFFICES ASSUME Inv, outcome = "ok", opts.mode = "event"
               PROVE  SummaryAccepts(log)
    BY DEF CompletedLogAccepted
  <2>1. log # <<>> /\ KeysApart /\ Partnered /\ pc \notin Halfway
    BY DEF KeyInv, Halfway, Replaying, Applying
  <2>2. ~ DuplicateApplication(log)
    BY <2>1 DEF DuplicateApplication, KeysApart
  <2>3. \A i \in 1..Len(log) : log[i].direction \in {"forward", "reverse"}
    <3>1. ScheduleInv
      OBVIOUS
    <3>2. \A i \in 1..Len(log) : log[i] \in Line
      BY <3>1, LogFacts
    <3> QED
      BY <3>2 DEF Line, Directions
  <2>4. ~ IncompletePair(log)
    BY <2>1, <2>3 DEF IncompletePair, Partnered
  <2> QED
    BY <2>1, <2>2, <2>4 DEF SummaryAccepts
<1>2. Init => Inv
  BY InitSchedule, InitState, InitKey
<1>3. Inv /\ [Next]_vars => Inv'
  BY NextSchedule, EveryStepIsScheduled, NextKey
<1> QED
  BY <1>1, <1>2, <1>3, PTL DEF Spec
=============================================================================
