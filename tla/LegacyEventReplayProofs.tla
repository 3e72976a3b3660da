------------------------ MODULE LegacyEventReplayProofs ------------------------
(***************************************************************************)
(* The single-direction event replay, for every profile and offset, with   *)
(* and without --loop, and wherever a command or the log fails or the      *)
(* program is ended: its log is an execution of EventSchedule, the same    *)
(* specification the log of the bidirectional replay implements, the log   *)
(* tells the device, and nothing is shown early.                           *)
(*                                                                         *)
(* PlaceInv relates the last line of the log to the job that is due;       *)
(* DeviceInv follows the two commands and the line of a job; TimeInv adds  *)
(* that the wait of a job is over when its commands are given.             *)
(***************************************************************************)
EXTENDS LegacyEventReplay, TLAPS

Event == [start : Int, end : Int]

\* What the loader leaves of a profile file.
InputsTyped == Profiles \subseteq Seq(Event) /\ Offsets \subseteq Int

Typed ==
  /\ profile \in Seq(Event) /\ offset \in Int
  /\ next \in 1..(Len(profile) + 1)
  /\ lastEnd \in Int /\ clock \in Nat
  /\ tbf \in Int /\ netem \in Int
  /\ job.shown \in Int /\ logged.shown \in Int

InJob == pc \in {"wait", "tbf", "netem", "log"}

\* Between two jobs: the last line is of the event before `next`, or of the
\* baseline before the first one.
BetweenJobs ==
  /\ logged.action = (IF next = 1 THEN "baseline" ELSE "event_start")
  /\ logged.event = next - 1

\* Each job continues the log.
JobContinues ==
  \/ /\ job = Job("baseline", 0, 0, Default)
     /\ logged.action \in {"none", "final_baseline"}
     /\ next = 1
  \/ /\ next <= Len(profile)
     /\ job = Job("event_start", next, Start(next), next)
     /\ logged.action \in {"baseline", "event_start", "event_end"}
     /\ logged.event = next - 1
  \/ /\ next <= Len(profile) /\ next > 1 /\ End(next - 1) < Start(next)
     /\ job = Job("event_end", next - 1, End(next - 1), Default)
     /\ logged.action = "event_start" /\ logged.event = next - 1
  \/ /\ next = Len(profile) + 1
     /\ job = Job("final_baseline", 0, lastEnd, Default)
     /\ BetweenJobs

PlaceInv ==
  /\ pc = "load" => logged = NoJob
  /\ pc = "pass" => logged.action \in {"none", "final_baseline"}
  /\ pc = "head" => BetweenJobs
  /\ InJob => JobContinues
  /\ pc = "head" \/ InJob =>
       previous = next - 1 /\ lastEnd = (IF next = 1 THEN 0 ELSE End(next - 1))

DeviceInv ==
  /\ pc = "load" => tbf = Untouched
  /\ pc \in {"load", "pass", "head", "wait", "tbf"} =>
       tbf = logged.shown /\ netem = logged.shown
  /\ pc = "netem" => tbf = job.shown /\ netem = logged.shown
  /\ pc = "log" => tbf = job.shown /\ netem = job.shown
  /\ LogOneBehind

TimeInv ==
  /\ pc \in {"tbf", "netem", "log"} => clock >= job.planned
  /\ pc = "pass" => tbf \in {Untouched, Default}
  /\ tbf <= Len(profile) /\ previous \in 0..Len(profile)
  /\ OnTime

-----------------------------------------------------------------------------
(* The schedule.                                                            *)

LEMMA InitPlace == InputsTyped /\ Init => Typed /\ PlaceInv
BY DEF InputsTyped, Init, Typed, PlaceInv, InJob, Untouched, NoJob, Job

\* The facts about a profile that the steps below use.
LEMMA EventFacts ==
  ASSUME Typed
  PROVE  /\ Len(profile) \in Nat /\ next \in Nat /\ next > 0
         /\ \A k \in 1..Len(profile) :
              /\ profile[k].start \in Int /\ profile[k].end \in Int
              /\ Start(k) \in Int /\ End(k) \in Int
<1>1. \A k \in 1..Len(profile) : profile[k] \in Event
  BY DEF Typed
<1> QED
  BY <1>1 DEF Typed, Event, Start, End

\* The step of the abstract schedule a line of the log stands for, if any.
Scheduled == Schedule!Next \/ UNCHANGED Schedule!vars

\* Every step but the one that writes a line leaves the abstract state alone.
LEMMA QuietStep ==
  ASSUME UNCHANGED <<profile, logged>> PROVE Scheduled
BY DEF Scheduled, Schedule!vars

LEMMA WriteLogStep ==
  ASSUME Typed, PlaceInv, WriteLog
  PROVE  Scheduled /\ Typed' /\ PlaceInv'
<1>1. /\ pc = "log" /\ JobContinues
      /\ previous = next - 1 /\ lastEnd = (IF next = 1 THEN 0 ELSE End(next - 1))
  BY DEF WriteLog, PlaceInv, InJob
<1>2. CASE Fail /\ UNCHANGED <<logged, job, next, lastEnd, previous>>
  BY <1>2, QuietStep DEF WriteLog, Fail, Typed, PlaceInv, InJob, options
<1>3. CASE logged' = job /\ AfterLog
  <2>1. /\ UNCHANGED <<profile, offset, clock, tbf, netem>>
    BY DEF WriteLog, options
  <2>2. CASE job.action = "baseline"
    <3>1. /\ pc' = "head" /\ UNCHANGED <<job, next, lastEnd, previous>>
          /\ job = Job("baseline", 0, 0, Default) /\ next = 1
          /\ logged.action \in {"none", "final_baseline"}
      BY <1>1, <1>3, <2>2 DEF AfterLog, JobContinues, Job
    <3>2. Schedule!Begin /\ UNCHANGED profile
      BY <1>3, <2>1, <3>1 DEF Schedule!Begin, Job
    <3>3. Typed'
      BY <1>3, <2>1, <3>1 DEF Typed
    <3>4. PlaceInv'
      BY <1>1, <1>3, <2>1, <3>1 DEF PlaceInv, InJob, BetweenJobs, Job, End
    <3> QED
      BY <3>2, <3>3, <3>4 DEF Scheduled, Schedule!Next
  <2>3. CASE job.action = "event_end"
    <3>1. /\ pc' = "wait" /\ job' = EventJob /\ UNCHANGED <<next, lastEnd, previous>>
          /\ next <= Len(profile) /\ next > 1 /\ End(next - 1) < Start(next)
          /\ job = Job("event_end", next - 1, End(next - 1), Default)
          /\ logged.action = "event_start" /\ logged.event = next - 1
      BY <1>1, <1>3, <2>3 DEF AfterLog, JobContinues, Job
    <3>2. Schedule!EndEvent /\ UNCHANGED profile
      <4>1. /\ profile[next - 1].end \in Int /\ profile[next].start \in Int
            /\ offset \in Int /\ next \in Nat /\ Len(profile) \in Nat
        BY <3>1, EventFacts DEF Typed
      <4>2. profile[next - 1].end < profile[next].start
        BY <3>1, <4>1 DEF Start, End
      <4> QED
        BY <1>3, <2>1, <3>1, <4>1, <4>2 DEF Schedule!EndEvent, Job
    <3>3. Typed'
      BY <1>3, <2>1, <3>1 DEF Typed, EventJob, Job
    <3>4. PlaceInv'
      BY <1>1, <1>3, <2>1, <3>1
         DEF PlaceInv, InJob, JobContinues, EventJob, Job, Start, End
    <3> QED
      BY <3>2, <3>3, <3>4 DEF Scheduled, Schedule!Next
  <2>4. CASE job.action = "event_start"
    <3>1. /\ pc' = "head" /\ lastEnd' = End(next) /\ previous' = next
          /\ next' = next + 1 /\ UNCHANGED job
          /\ next <= Len(profile) /\ job = Job("event_start", next, Start(next), next)
          /\ logged.action \in {"baseline", "event_start", "event_end"}
          /\ logged.event = next - 1
      BY <1>1, <1>3, <2>4 DEF AfterLog, JobContinues, Job
    <3>2. next \in Nat /\ Len(profile) \in Nat /\ End(next) \in Int /\ next > 0
      BY <3>1, EventFacts
    <3>3. Schedule!StartEvent /\ UNCHANGED profile
      BY <1>3, <2>1, <3>1, <3>2 DEF Schedule!StartEvent, Job
    <3>4. Typed'
      BY <1>3, <2>1, <3>1, <3>2 DEF Typed
    <3>5. PlaceInv'
      BY <1>3, <2>1, <3>1, <3>2 DEF PlaceInv, InJob, BetweenJobs, Job, End
    <3> QED
      BY <3>3, <3>4, <3>5 DEF Scheduled, Schedule!Next
  <2>5. CASE job.action = "final_baseline"
    <3>1. /\ pc' \in {"pass", "done"} /\ UNCHANGED <<job, next, lastEnd, previous>>
          /\ next = Len(profile) + 1 /\ job = Job("final_baseline", 0, lastEnd, Default)
          /\ logged.action \in {"baseline", "event_start"} /\ logged.event = next - 1
      BY <1>1, <1>3, <2>5 DEF AfterLog, JobContinues, BetweenJobs, Job
    <3>2. Schedule!Finish /\ UNCHANGED profile
      BY <1>3, <2>1, <3>1, EventFacts DEF Schedule!Finish, Job
    <3>3. Typed'
      BY <1>3, <2>1, <3>1 DEF Typed
    <3>4. PlaceInv'
      BY <1>3, <3>1 DEF PlaceInv, InJob, Job
    <3> QED
      BY <3>2, <3>3, <3>4 DEF Scheduled, Schedule!Next
  <2> QED
    BY <1>3, <2>2, <2>3, <2>4, <2>5 DEF AfterLog
<1> QED
  BY <1>2, <1>3 DEF WriteLog

LEMMA NextJobStep ==
  ASSUME Typed, PlaceInv, NextJob
  PROVE  Typed' /\ PlaceInv'
<1>1. /\ pc = "head" /\ pc' = "wait" /\ BetweenJobs
      /\ UNCHANGED <<profile, offset, next, lastEnd, previous, clock, tbf, netem, logged>>
      /\ previous = next - 1 /\ lastEnd = (IF next = 1 THEN 0 ELSE End(next - 1))
  BY DEF NextJob, PlaceInv, options
<1>2. next \in Nat /\ Len(profile) \in Nat /\ next <= Len(profile) + 1 /\ next > 0
  BY EventFacts DEF Typed
<1>3. JobContinues' /\ job'.shown \in Int
  <2>1. CASE next > Len(profile)
    BY <1>1, <1>2, <2>1 DEF NextJob, JobContinues, BetweenJobs, Job, Default
  <2>2. CASE next <= Len(profile) /\ RestoreFirst
    <3>1. next > 1 /\ lastEnd = End(next - 1) /\ End(next - 1) < Start(next)
      BY <1>1, <1>2, <2>2, EventFacts DEF RestoreFirst
    <3>2. job' = Job("event_end", next - 1, End(next - 1), Default)
      BY <1>1, <1>2, <2>2, <3>1 DEF NextJob
    <3>3. logged.action = "event_start"
      BY <1>1, <3>1 DEF BetweenJobs
    <3> QED
      BY <1>1, <1>2, <2>2, <3>1, <3>2, <3>3
         DEF JobContinues, BetweenJobs, Job, Default, Start, End
  <2>3. CASE next <= Len(profile) /\ ~ RestoreFirst
    BY <1>1, <1>2, <2>3 DEF NextJob, JobContinues, BetweenJobs, EventJob, Job, Start
  <2> QED
    BY <1>2, <2>1, <2>2, <2>3
<1>4. Typed'
  BY <1>1, <1>3 DEF Typed
<1>5. PlaceInv'
  BY <1>1, <1>3 DEF PlaceInv, InJob, End
<1> QED
  BY <1>4, <1>5

\* Any other step leaves the log alone, and between `pass` and `log` the job.
LEMMA NextPlace ==
  Typed /\ PlaceInv /\ [Next]_vars => Scheduled /\ Typed' /\ PlaceInv'
<1> SUFFICES ASSUME Typed, PlaceInv, [Next]_vars
             PROVE  Scheduled /\ Typed' /\ PlaceInv'
  OBVIOUS
<1>1. CASE WriteLog
  BY <1>1, WriteLogStep
<1>2. CASE NextJob
  BY <1>2, NextJobStep, QuietStep DEF NextJob, options
<1>3. CASE Load
  BY <1>3, QuietStep DEF Load, options, Typed, PlaceInv, InJob, NoJob, Job
<1>4. CASE Pass
  <2>1. /\ pc = "pass" /\ pc' = "tbf" /\ next' = 1 /\ lastEnd' = 0 /\ previous' = 0
        /\ clock' = 0 /\ job' = Job("baseline", 0, 0, Default)
        /\ UNCHANGED <<profile, offset, tbf, netem, logged>>
        /\ logged.action \in {"none", "final_baseline"}
    BY <1>4 DEF Pass, PlaceInv, options
  <2>2. Typed'
    BY <2>1, EventFacts DEF Typed, Job, Default
  <2>3. PlaceInv'
    BY <2>1 DEF PlaceInv, InJob, JobContinues
  <2> QED
    BY <2>1, <2>2, <2>3, QuietStep
<1>5. CASE Wait \/ SetTbf \/ SetNetem
  <2>1. /\ InJob /\ pc' \in {"tbf", "netem", "log", "failed"}
        /\ UNCHANGED <<profile, offset, next, lastEnd, previous, job, logged, clock>>
        /\ tbf' \in {tbf, job.shown} /\ netem' \in {netem, job.shown}
    BY <1>5 DEF Wait, SetTbf, SetNetem, Fail, InJob, options
  <2>2. Typed'
    BY <2>1 DEF Typed
  <2>3. PlaceInv'
    BY <2>1 DEF PlaceInv, InJob, JobContinues, BetweenJobs, Start, End
  <2> QED
    BY <2>1, <2>2, <2>3, QuietStep
<1>6. CASE Tick \/ Kill \/ UNCHANGED vars
  <2>1. /\ pc' \in {pc, "killed"} /\ clock' \in {clock, clock + 1}
        /\ UNCHANGED <<profile, offset, next, lastEnd, previous, job, logged, tbf, netem>>
    BY <1>6 DEF Tick, Kill, vars, options
  <2>2. Typed'
    BY <2>1 DEF Typed
  <2>3. PlaceInv'
    BY <2>1 DEF PlaceInv, InJob, JobContinues, BetweenJobs, Start, End
  <2> QED
    BY <2>1, <2>2, <2>3, QuietStep
<1> QED
  BY <1>1, <1>2, <1>3, <1>4, <1>5, <1>6 DEF Next, Process

\* For every profile and offset, looping or not, each line of the log is a step
\* of the schedule both replays promise: the baseline first, every event in
\* order, the baseline in between only where a gap follows, the baseline last.
THEOREM ImplementsEventSchedule == InputsTyped /\ Spec => ImplementsSchedule
<1>1. InputsTyped /\ Init => Typed /\ PlaceInv /\ Schedule!Init
  BY InitPlace DEF Init, Schedule!Init, NoJob, Job
<1>2. Typed /\ PlaceInv /\ [Next]_vars => Typed' /\ PlaceInv'
  BY NextPlace
<1>3. Typed /\ PlaceInv /\ [Next]_vars => [Schedule!Next]_(Schedule!vars)
  BY NextPlace DEF Scheduled
<1> QED
  BY <1>1, <1>2, <1>3, PTL DEF Spec, ImplementsSchedule, Schedule!Spec

-----------------------------------------------------------------------------
(* The device, the log and the clock.                                       *)

LEMMA InitDevice == InputsTyped /\ Init => DeviceInv /\ TimeInv
<1> SUFFICES ASSUME InputsTyped, Init PROVE DeviceInv /\ TimeInv
  OBVIOUS
<1>1. Len(profile) \in Nat
  BY DEF InputsTyped, Init
<1> QED
  BY <1>1
     DEF Init, DeviceInv, TimeInv, LogOneBehind, OnTime, Ended, NoJob, Job, Untouched, Default

\* What a job sets, and for when.
LEMMA JobFacts ==
  ASSUME Typed, PlaceInv, InJob
  PROVE  /\ job.planned \in Int
         /\ \/ /\ job.action = "event_start" /\ job.shown = next
               /\ next <= Len(profile) /\ job.planned = Start(next)
            \/ /\ job.action \in {"event_end", "final_baseline"} /\ job.shown = Default
               /\ previous > 0 => job.planned = End(previous)
            \/ job.action = "baseline" /\ job.shown = Default /\ previous = 0
         /\ previous = next - 1
<1>1. JobContinues /\ previous = next - 1 /\ lastEnd = (IF next = 1 THEN 0 ELSE End(next - 1))
  BY DEF PlaceInv
<1> QED
  BY <1>1, EventFacts DEF Typed, JobContinues, Job, Default

\* Neither invariant is disturbed where the device and the job stay and the
\* clock does not go back.
LEMMA RestOnTime ==
  ASSUME Typed, TimeInv, UNCHANGED <<profile, offset, previous, tbf>>,
         clock' \in {clock, clock + 1}, Ended => Ended'
  PROVE  /\ tbf' <= Len(profile') /\ previous' \in 0..Len(profile')
         /\ OnTime'
<1>1. /\ \A k \in 1..Len(profile) : Start(k) \in Int /\ End(k) \in Int
      /\ clock \in Nat /\ clock' >= clock /\ tbf \in Int /\ Len(profile) \in Nat
  <2>1. clock \in Nat /\ clock' >= clock /\ tbf \in Int
    BY DEF Typed
  <2> QED
    BY <2>1, EventFacts
<1>2. tbf' <= Len(profile') /\ previous' \in 0..Len(profile')
  BY DEF TimeInv
<1>3. OnTime'
  <2>1. ASSUME tbf > 0 PROVE clock' >= Start(tbf)
    BY <1>1, <2>1 DEF TimeInv, OnTime
  <2>2. ASSUME tbf = Default, ~ Ended', previous > 0 PROVE clock' >= End(previous)
    BY <1>1, <2>2 DEF TimeInv, OnTime
  <2> QED
    BY <2>1, <2>2 DEF OnTime, Start, End
<1> QED
  BY <1>2, <1>3

LEMMA NextDevice ==
  Typed /\ PlaceInv /\ DeviceInv /\ TimeInv /\ [Next]_vars => DeviceInv' /\ TimeInv'
<1> SUFFICES ASSUME Typed, PlaceInv, DeviceInv, TimeInv, [Next]_vars
             PROVE  DeviceInv' /\ TimeInv'
  OBVIOUS
<1>1. CASE Load \/ Kill \/ Tick \/ UNCHANGED vars
  <2>1. /\ pc' \in {pc, "failed", "killed"} \/ (pc = "load" /\ pc' = "pass")
        /\ UNCHANGED <<profile, offset, job, previous, tbf, netem, logged>>
        /\ clock' \in {clock, clock + 1} /\ (Ended => Ended')
    BY <1>1 DEF Load, Kill, Tick, vars, options, Ended
  <2>2. DeviceInv'
    BY <2>1 DEF DeviceInv, LogOneBehind
  <2>3. pc' \in {"tbf", "netem", "log"} => clock' >= job'.planned
    <3>1. ASSUME pc \in {"tbf", "netem", "log"} PROVE job.planned \in Int
      BY <3>1, JobFacts DEF InJob
    <3> QED
      BY <2>1, <3>1 DEF TimeInv, Typed
  <2>4. pc' = "pass" => tbf' \in {Untouched, Default}
    BY <2>1 DEF TimeInv, DeviceInv
  <2> QED
    BY <2>1, <2>2, <2>3, <2>4, RestOnTime DEF TimeInv
<1>2. CASE NextJob \/ Wait
  <2>1. /\ pc \in {"head", "wait"} /\ pc' \in {"wait", "tbf"}
        /\ UNCHANGED <<profile, offset, previous, clock, tbf, netem, logged>>
        /\ pc' = "tbf" => UNCHANGED job /\ clock >= job.planned
        /\ ~ Ended
    BY <1>2 DEF NextJob, Wait, options, Ended
  <2>2. DeviceInv'
    BY <2>1 DEF DeviceInv, LogOneBehind
  <2> QED
    BY <2>1, <2>2, RestOnTime DEF TimeInv
<1>3. CASE Pass
  <2>1. /\ pc = "pass" /\ pc' = "tbf" /\ previous' = 0 /\ clock' = 0
        /\ job' = Job("baseline", 0, 0, Default)
        /\ UNCHANGED <<profile, tbf, netem, logged>>
    BY <1>3 DEF Pass, options
  <2>2. DeviceInv'
    BY <2>1 DEF DeviceInv, LogOneBehind
  <2>3. TimeInv'
    BY <2>1, EventFacts DEF TimeInv, OnTime, Job, Untouched, Default
  <2> QED
    BY <2>2, <2>3
<1>4. CASE SetTbf
  <2>1. /\ pc = "tbf" /\ InJob /\ clock >= job.planned
        /\ UNCHANGED <<profile, offset, next, job, previous, clock, netem, logged>>
    BY <1>4 DEF SetTbf, InJob, TimeInv, options
  <2>2. CASE pc' = "failed" /\ UNCHANGED tbf
    <3>1. DeviceInv'
      BY <2>1, <2>2 DEF DeviceInv, LogOneBehind
    <3> QED
      BY <2>1, <2>2, <3>1, RestOnTime DEF TimeInv, Ended
  <2>3. CASE pc' = "netem" /\ tbf' = job.shown
    <3>1. DeviceInv'
      BY <2>1, <2>3 DEF DeviceInv, LogOneBehind
    <3>2. tbf' <= Len(profile)
      BY <2>1, <2>3, JobFacts, EventFacts DEF Default
    <3>3. OnTime'
      BY <2>1, <2>3, JobFacts, EventFacts DEF OnTime, Default, Start, End
    <3> QED
      BY <2>1, <2>3, <3>1, <3>2, <3>3 DEF TimeInv
  <2> QED
    BY <1>4, <2>2, <2>3 DEF SetTbf, Fail
<1>5. CASE SetNetem
  <2>1. /\ pc = "netem" /\ pc' \in {"log", "failed"} /\ clock >= job.planned /\ ~ Ended
        /\ UNCHANGED <<profile, offset, job, previous, clock, tbf, logged>>
        /\ pc' = "log" => netem' = job.shown
        /\ netem' \in {netem, job.shown}
    BY <1>5 DEF SetNetem, Fail, TimeInv, options, Ended
  <2>2. DeviceInv'
    BY <2>1 DEF DeviceInv, LogOneBehind
  <2> QED
    BY <2>1, <2>2, RestOnTime DEF TimeInv
<1>6. CASE WriteLog
  <2>1. /\ pc = "log" /\ InJob /\ tbf = job.shown /\ netem = job.shown /\ ~ Ended
        /\ UNCHANGED <<profile, offset, clock, tbf, netem>>
    BY <1>6 DEF WriteLog, DeviceInv, InJob, options, Ended
  <2>2. CASE Fail /\ UNCHANGED <<logged, job, next, lastEnd, previous>>
    <3>1. DeviceInv'
      BY <2>1, <2>2 DEF DeviceInv, LogOneBehind, Fail
    <3> QED
      BY <2>1, <2>2, <3>1, RestOnTime DEF TimeInv, Fail
  <2>3. CASE logged' = job /\ AfterLog
    <3>1. DeviceInv'
      BY <2>1, <2>3 DEF DeviceInv, LogOneBehind, AfterLog
    <3>2. CASE job.action = "event_start"
      <4>1. /\ previous' = next /\ pc' = "head" /\ tbf = next /\ next > 0
            /\ next <= Len(profile)
        BY <2>1, <2>3, <3>2, JobFacts, EventFacts DEF AfterLog
      <4>2. OnTime'
        BY <2>1, <4>1, EventFacts DEF TimeInv, OnTime, Start, Default
      <4> QED
        BY <2>1, <3>1, <4>1, <4>2, EventFacts DEF TimeInv
    <3>3. CASE job.action # "event_start"
      <4>1. UNCHANGED previous /\ tbf = Default /\ pc' \in {"head", "wait", "pass", "done"}
        BY <2>1, <2>3, <3>3, JobFacts DEF AfterLog
      <4> QED
        BY <2>1, <3>1, <4>1, RestOnTime DEF TimeInv
    <3> QED
      BY <3>2, <3>3
  <2> QED
    BY <1>6, <2>2, <2>3 DEF WriteLog
<1> QED
  BY <1>1, <1>2, <1>3, <1>4, <1>5, <1>6 DEF Next, Process

\* Wherever a command or the log fails or the program is ended, the log is at
\* most one step behind the device, and level with it while the program waits.
THEOREM LogTellsDevice == InputsTyped /\ Spec => [](LogOneBehind /\ WholeWhileWaiting)
<1>1. InputsTyped /\ Init => Typed /\ PlaceInv /\ DeviceInv /\ TimeInv
  BY InitPlace, InitDevice
<1>2. Typed /\ PlaceInv /\ DeviceInv /\ TimeInv /\ [Next]_vars =>
        (Typed /\ PlaceInv /\ DeviceInv /\ TimeInv)'
  BY NextPlace, NextDevice
<1>3. DeviceInv => LogOneBehind /\ WholeWhileWaiting
  BY DEF DeviceInv, WholeWhileWaiting
<1> QED
  BY <1>1, <1>2, <1>3, PTL DEF Spec

\* In every pass, for every offset, no event is shown before its start and the
\* baseline does not come back before the end of the event it ends.
THEOREM NothingEarly == InputsTyped /\ Spec => []OnTime
<1>1. InputsTyped /\ Init => Typed /\ PlaceInv /\ DeviceInv /\ TimeInv
  BY InitPlace, InitDevice
<1>2. Typed /\ PlaceInv /\ DeviceInv /\ TimeInv /\ [Next]_vars =>
        (Typed /\ PlaceInv /\ DeviceInv /\ TimeInv)'
  BY NextPlace, NextDevice
<1>3. TimeInv => OnTime
  BY DEF TimeInv
<1> QED
  BY <1>1, <1>2, <1>3, PTL DEF Spec
=============================================================================
