-------------------------- MODULE FieldReplaysProofs --------------------------
(***************************************************************************)
(* The tools of the field tests, for every profile, offset, file of rows   *)
(* and setting of the waits.  A step of the composition is a step of one   *)
(* tool and leaves the others alone, so what holds of a tool by itself     *)
(* holds of it here.  The event replay is proved in its own module; the    *)
(* series replay and the script of the remote experiment are proved below. *)
(***************************************************************************)
EXTENDS FieldReplays, TLAPS

EventsProofs == INSTANCE LegacyEventReplayProofs

-----------------------------------------------------------------------------
(* The parts.                                                               *)

LEMMA InitParts == Init => Events!Init /\ Series!Init /\ Remote!Init
  BY DEF Init, EventsRest, SeriesRest, RemoteRest

LEMMA NextParts ==
  [Next]_vars =>
    [Events!Next]_(Events!vars) /\ [Series!Next]_(Series!vars) /\ [Remote!Next]_(Remote!vars)
  BY DEF Next, EventsStep, SeriesStep, RemoteStep, vars, eventsVars, seriesVars, remoteVars,
     Events!vars, Events!options, Series!vars, Series!options,
     Remote!vars, Remote!setting, Remote!client, Remote!router, Remote!results

LEMMA SameSteps ==
  [Events!Next]_(Events!vars) => [EventsProofs!Next]_(EventsProofs!vars)
<1> USE DEF EventsProofs!options, Events!options, EventsProofs!Start, Events!Start,
   EventsProofs!End, Events!End, EventsProofs!Job, Events!Job, EventsProofs!EventJob,
   Events!EventJob, EventsProofs!RestoreFirst, Events!RestoreFirst, EventsProofs!Fail, Events!Fail,
   EventsProofs!Default, Events!Default, EventsProofs!AfterLog, Events!AfterLog,
   EventsProofs!Ended, Events!Ended
<1>1. Events!Load => EventsProofs!Load
  BY DEF EventsProofs!Load, Events!Load
<1>2. Events!Pass => EventsProofs!Pass
  BY DEF EventsProofs!Pass, Events!Pass
<1>3. Events!NextJob => EventsProofs!NextJob
  BY DEF EventsProofs!NextJob, Events!NextJob
<1>4. Events!Wait => EventsProofs!Wait
  BY DEF EventsProofs!Wait, Events!Wait
<1>5. Events!SetTbf => EventsProofs!SetTbf
  BY DEF EventsProofs!SetTbf, Events!SetTbf
<1>6. Events!SetNetem => EventsProofs!SetNetem
  BY DEF EventsProofs!SetNetem, Events!SetNetem
<1>7. Events!WriteLog => EventsProofs!WriteLog
  BY DEF EventsProofs!WriteLog, Events!WriteLog
<1>8. Events!Tick => EventsProofs!Tick
  BY DEF EventsProofs!Tick, Events!Tick
<1>9. Events!Kill => EventsProofs!Kill
  BY DEF EventsProofs!Kill, Events!Kill
<1> QED
  BY <1>1, <1>2, <1>3, <1>4, <1>5, <1>6, <1>7, <1>8, <1>9 DEF EventsProofs!Next, Events!Next,
     EventsProofs!Process, Events!Process,
     EventsProofs!vars, Events!vars

\* The event replay by itself.
LEMMA EventsAlone == Spec => EventsProofs!Spec
<1>1. Init => EventsProofs!Init
  BY InitParts DEF EventsProofs!Init, Events!Init, EventsProofs!NoJob, Events!NoJob,
     EventsProofs!Job, Events!Job, EventsProofs!Untouched, Events!Untouched
<1>2. [Next]_vars => [EventsProofs!Next]_(EventsProofs!vars)
  BY NextParts, SameSteps
<1> QED
  BY <1>1, <1>2, PTL DEF Spec, EventsProofs!Spec

\* Each line of the log is a step of the abstract schedule.
THEOREM FieldReplayIsScheduled == Spec => ImplementsSchedule
<1>1. EventsProofs!InputsTyped
  BY InputsAssumption DEF InputsAssumption, EventsProofs!InputsTyped, EventsProofs!Event
<1>2. EventsProofs!ImplementsSchedule => ImplementsSchedule
  <2>1. EventsProofs!Schedule!Init => Events!Schedule!Init
    BY DEF EventsProofs!Schedule!Init, Events!Schedule!Init
  <2>2. [EventsProofs!Schedule!Next]_(EventsProofs!Schedule!vars) =>
          [Events!Schedule!Next]_(Events!Schedule!vars)
    BY DEF EventsProofs!Schedule!Next, Events!Schedule!Next, EventsProofs!Schedule!vars,
       Events!Schedule!vars, EventsProofs!Schedule!Begin, Events!Schedule!Begin,
       EventsProofs!Schedule!StartEvent, Events!Schedule!StartEvent,
       EventsProofs!Schedule!EndEvent, Events!Schedule!EndEvent, EventsProofs!Schedule!Finish,
       Events!Schedule!Finish
  <2> QED
    BY <2>1, <2>2, PTL DEF EventsProofs!ImplementsSchedule, ImplementsSchedule,
       Events!ImplementsSchedule, EventsProofs!Schedule!Spec, Events!Schedule!Spec
<1> QED
  BY <1>1, <1>2, EventsAlone, EventsProofs!ImplementsEventSchedule

-----------------------------------------------------------------------------
(* The series replay.                                                       *)

InRows == at \in {"row", "sleep", "apply"}

SeriesTyped ==
  /\ file \in Seq(Int) /\ rows \in Seq(Int)
  /\ now \in Nat /\ line \in Nat \ {0} /\ mark \in Nat
  /\ \A i, j \in DOMAIN rows : i <= j => rows[i] <= rows[j]

\* The rows before `line` are over and the last of them is on the device.
SeriesPlace ==
  /\ at \in {"read", "clear"} => line = 1
  /\ InRows =>
       /\ line <= Len(rows) + 1
       /\ \A k \in 1..(line - 1) : rows[k] <= now
       /\ line > 1 => qdisc = line - 1
  /\ at \in {"sleep", "apply"} => line <= Len(rows)
  /\ at = "apply" => rows[line] <= now

\* After a signal: the row slept for, and then no other.
SeriesStopped ==
  stop => \/ line <= mark
          \/ line = mark + 1 /\ at \in {"row", "done", "failed"}

SeriesInv == SeriesTyped /\ SeriesPlace /\ SeriesStopped

LEMMA SortedRows ==
  ASSUME NEW s \in Seq(Int), NEW r \in Series!Sortings(s)
  PROVE  r \in Seq(Int) /\ \A i, j \in DOMAIN r : i <= j => r[i] <= r[j]
<1>1. r \in [1..Len(s) -> Int]
  BY DEF Series!Sortings
<1>2. r \in Seq(Int) /\ DOMAIN r = DOMAIN s
  BY <1>1
<1>3. \A i, j \in DOMAIN s : i < j => r[i] <= r[j]
  BY DEF Series!Sortings
<1>4. \A i \in DOMAIN s : r[i] \in Int
  BY <1>1
<1>5. \A i, j \in DOMAIN r : i <= j => r[i] <= r[j]
  <2> SUFFICES ASSUME NEW i \in DOMAIN s, NEW j \in DOMAIN s, i <= j PROVE r[i] <= r[j]
    BY <1>2
  <2>1. CASE i = j
    BY <2>1, <1>4
  <2>2. CASE i # j
    BY <2>2, <1>3
  <2> QED
    BY <2>1, <2>2
<1> QED
  BY <1>2, <1>5

LEMMA SeriesInit == Series!Init => SeriesInv
  BY InputsAssumption DEF InputsAssumption, Series!Init, SeriesInv, SeriesTyped, SeriesPlace,
     SeriesStopped, InRows

LEMMA SeriesNext == SeriesInv /\ [Series!Next]_(Series!vars) => SeriesInv'
<1> SUFFICES ASSUME SeriesInv, [Series!Next]_(Series!vars) PROVE SeriesInv'
  OBVIOUS
<1> USE DEF SeriesInv, SeriesTyped, SeriesPlace, SeriesStopped, InRows, Series!options
<1>1. CASE Series!Read
  <2>1. CASE file = <<>>
    BY <1>1, <2>1 DEF Series!Read
  <2>2. CASE file # <<>>
    <3>1. rows' \in Seq(Int) /\ \A i, j \in DOMAIN rows' : i <= j => rows'[i] <= rows'[j]
      BY <1>1, <2>2, SortedRows DEF Series!Read
    <3> QED
      BY <1>1, <2>2, <3>1 DEF Series!Read
  <2> QED
    BY <2>1, <2>2
<1>2. CASE Series!Clear
  BY <1>2 DEF Series!Clear
<1>3. CASE Series!Row
  BY <1>3 DEF Series!Row
<1>4. CASE Series!Sleep
  BY <1>4 DEF Series!Sleep
<1>5. CASE Series!Apply
  <2>1. rows' = rows /\ now' = now /\ line <= Len(rows) /\ rows[line] <= now
    BY <1>5 DEF Series!Apply
  <2>2. SeriesTyped' /\ SeriesStopped'
    BY <1>5, <2>1 DEF Series!Apply
  <2>3. CASE line' = line + 1 /\ qdisc' = line
    <3>1. \A k \in 1..line : rows[k] <= now
      BY SMTT(30), <2>1
    <3>2. SeriesPlace'
      BY <1>5, <2>1, <2>3, <3>1 DEF Series!Apply
    <3> QED
      BY <2>2, <3>2
  <2>4. CASE at' = "failed"
    BY <1>5, <2>2, <2>4 DEF Series!Apply
  <2> QED
    BY <1>5, <2>3, <2>4 DEF Series!Apply
<1>6. CASE Series!Signal
  BY <1>6 DEF Series!Signal
<1>7. CASE Series!Tick
  <2>1. UNCHANGED <<file, rows, at, line, stop, qdisc, mark>> /\ now' = now + 1
    BY <1>7 DEF Series!Tick
  <2>2. \A k \in DOMAIN rows : rows[k] <= now => rows[k] <= now'
    BY <2>1
  <2> QED
    BY <2>1, <2>2
<1>8. CASE UNCHANGED Series!vars
  BY <1>8 DEF Series!vars
<1> QED
  BY <1>1, <1>2, <1>3, <1>4, <1>5, <1>6, <1>7, <1>8 DEF Series!Next, Series!Process

LEMMA SeriesShown == SeriesInv => Series!StopIsPrompt /\ Series!LatestRowShown
<1> SUFFICES ASSUME SeriesInv PROVE Series!StopIsPrompt /\ Series!LatestRowShown
  OBVIOUS
<1> USE DEF SeriesInv, SeriesTyped, SeriesPlace, SeriesStopped, InRows
<1>1. Series!StopIsPrompt
  BY DEF Series!StopIsPrompt
<1>2. Series!LatestRowShown
  BY DEF Series!LatestRowShown
<1> QED
  BY <1>1, <1>2

\* The two replays of one direction, whatever is refused, signalled or killed:
\* the log tells the device, nothing is early, and a stopped series stops.
THEOREM FieldReplaysAreTrue == Spec => []ReplaysTrue
<1>1. EventsProofs!InputsTyped
  BY InputsAssumption DEF InputsAssumption, EventsProofs!InputsTyped, EventsProofs!Event
<1>2. Spec => [](EventsProofs!LogOneBehind /\ EventsProofs!WholeWhileWaiting)
  BY <1>1, EventsAlone, EventsProofs!LogTellsDevice
<1>3. Spec => []EventsProofs!OnTime
  BY <1>1, EventsAlone, EventsProofs!NothingEarly
<1>4. EventsProofs!LogOneBehind /\ EventsProofs!WholeWhileWaiting /\ EventsProofs!OnTime
      => Events!LogOneBehind /\ Events!WholeWhileWaiting /\ Events!OnTime
  BY DEF EventsProofs!LogOneBehind, Events!LogOneBehind, EventsProofs!WholeWhileWaiting,
     Events!WholeWhileWaiting, EventsProofs!OnTime, Events!OnTime, EventsProofs!Start,
     Events!Start, EventsProofs!End, Events!End, EventsProofs!Default, Events!Default,
     EventsProofs!Ended, Events!Ended
<1>5. Init => SeriesInv
  BY InitParts, SeriesInit
<1>6. SeriesInv /\ [Next]_vars => SeriesInv'
  BY NextParts, SeriesNext
<1>7. SeriesInv /\ Events!LogOneBehind /\ Events!WholeWhileWaiting /\ Events!OnTime
      => ReplaysTrue
  BY SeriesShown DEF ReplaysTrue
<1> QED
  BY <1>2, <1>3, <1>4, <1>5, <1>6, <1>7, PTL DEF Spec

-----------------------------------------------------------------------------
(* The script of the remote experiment.                                     *)

Loop == {"launch", "lead", "replay", "stopping", "fetch", "pause", "learn", "compare"}

RemoteTyped ==
  /\ doing \in {"cleanup", "trap", "exited", "killed"} \cup Loop
  /\ length \in Nat /\ iter \in 0..IterMax /\ seconds \in Nat /\ until \in Int
  /\ iperf \in [0..IterMax -> {"none", "running", "done", "refused"}]
  /\ ping \in [0..IterMax -> {"none", "running", "done"}]
  /\ launched \in [0..IterMax -> Int] /\ launched[0] = 0
  /\ fetched \in [1..IterMax -> {"none", "nothing", "intervals", "error", "absent"}]
  /\ seen \in [1..IterMax -> Int]
  /\ lines \in Seq([iter : Nat, points : BOOLEAN, pinged : Int]) /\ faults \in Nat

\* What was fetched after a measurement had ended tells how it ended, and each
\* measurement is launched once.
MeasuredInv ==
  /\ \A i \in 1..IterMax :
       i > iter \/ (i = iter /\ doing = "launch") =>
         iperf[i] = "none" /\ ping[i] = "none" /\ seen[i] = Remote!Never
  /\ \A i \in 1..IterMax :
       /\ fetched[i] = "intervals" => iperf[i] = "done"
       /\ fetched[i] = "error" => iperf[i] = "refused"

\* Whose iperf3 has the server: none of the iterations that are over.
ServerInv ==
  \A i \in 0..IterMax : iperf[i] = "refused" => launched[i] <= Duration

\* A line for every iteration that is over, each from something to compare.
LinesInv ==
  /\ doing = "cleanup" => iter < IterMax /\ Len(lines) = iter
  /\ doing \in Loop => iter > 0 /\ Len(lines) = iter - 1
  /\ doing = "compare" => iter \in inputs
  /\ Len(lines) <= iter
  /\ \A k \in 1..Len(lines) :
       /\ lines[k].iter = k /\ k \in inputs
       /\ fetched[k] \in {"intervals", "error"}
       /\ lines[k].points = (fetched[k] = "intervals") /\ lines[k].pinged = seen[k]
       /\ seen[k] # Remote!Never

Outlasts == Lead + Remote!ReplayTime > Duration

\* A ping log that was fetched reaches to the end of the replay.
Reaches(n) == n = Duration + Linger \/ n >= Lead + Remote!ReplayTime
LogsInv ==
  /\ \A i \in 1..IterMax : seen[i] # Remote!Never => Reaches(seen[i])
  /\ doing \in {"learn", "compare"} => seen[iter] # Remote!Never

\* How long ago the measurement of this iteration was launched.
ElapsedInv ==
  /\ \A i \in 0..IterMax : iperf[i] = "running" => seconds <= launched[i] + Duration
  /\ doing \in {"lead", "replay", "fetch", "pause"} => iperf[iter] # "none"
  /\ doing = "lead" => until >= launched[iter] + Lead
  /\ doing = "replay" => until >= launched[iter] + Lead + Remote!ReplayTime
  /\ doing \in {"fetch", "pause"} => seconds >= launched[iter] + Lead + Remote!ReplayTime
  /\ doing \in {"learn", "compare"} /\ Outlasts => fetched[iter] \in {"intervals", "error"}

\* Without a fault the trap is reached behind the last line only, or, when the
\* times of the events do not load, behind none.
CompleteInv ==
  /\ doing \in {"trap", "exited"} /\ faults = 0 /\ Outlasts
       => Len(lines) = IF Remote!EventTimesLoad THEN IterMax ELSE 0
  /\ doing = "stopping" => faults > 0
  /\ ~ Remote!EventTimesLoad => Len(lines) = 0

RemoteInv ==
  RemoteTyped /\ MeasuredInv /\ ServerInv /\ LinesInv /\ LogsInv /\ ElapsedInv /\ CompleteInv

LEMMA RemoteInit == Remote!Init => RemoteInv
<1> SUFFICES ASSUME Remote!Init PROVE RemoteInv
  OBVIOUS
<1> USE InputsAssumption, WaitsAssumption DEF WaitsAssumption, Remote!Init
<1>1. iperf \in [0..IterMax -> {"none", "running"}] /\ \A i \in 1..IterMax : iperf[i] = "none"
  BY DEF Remote!Measurements
<1>2. launched \in [0..IterMax -> Int] /\ launched[0] = 0
  BY DEF Remote!Measurements, Remote!Never
<1>3. /\ fetched = [i \in 1..IterMax |-> "none"]
      /\ seen = [i \in 1..IterMax |-> -1] /\ Remote!Never = -1
  BY DEF Remote!Iterations, Remote!Never
<1>4. \A i \in 0..IterMax : iperf[i] = "running" => seconds <= launched[i] + Duration
  BY <1>1, <1>2
<1>5. RemoteTyped
  BY <1>1, <1>2, <1>3 DEF RemoteTyped, Loop
<1>6. MeasuredInv /\ LogsInv
  BY <1>1, <1>3 DEF MeasuredInv, LogsInv
<1>7. ServerInv
  BY <1>1 DEF ServerInv
<1>8. LinesInv /\ ElapsedInv /\ CompleteInv
  BY <1>3, <1>4 DEF LinesInv, ElapsedInv, CompleteInv, Loop
<1> QED
  BY <1>5, <1>6, <1>7, <1>8 DEF RemoteInv

\* The steps that only move the script on, or end it.
RemoteSame ==
  UNCHANGED <<mode, format, length, seconds, launched, iperf, ping, seen, fetched, inputs, lines>>

LEMMA RemoteDies ==
  ASSUME RemoteInv, RemoteSame, iter' = iter, doing \in Loop \/ doing' = "killed",
         doing' \in {"trap", "stopping", "killed"},
         doing' # "killed" => faults' = faults + 1, doing' = "killed" => faults' = faults,
         until' \in Int
  PROVE  RemoteInv'
<1> USE DEF RemoteInv, RemoteSame
<1>1. RemoteTyped' /\ MeasuredInv' /\ ServerInv'
  BY DEF RemoteTyped, MeasuredInv, ServerInv, Loop
<1>2. LinesInv' /\ LogsInv' /\ ElapsedInv'
  BY DEF RemoteTyped, LinesInv, LogsInv, ElapsedInv, Loop, Outlasts, Reaches, Remote!ReplayTime
<1>3. CompleteInv'
  BY DEF RemoteTyped, CompleteInv, Remote!EventTimesLoad
<1> QED
  BY <1>1, <1>2, <1>3

LEMMA RemoteLaunches ==
  ASSUME RemoteInv, Remote!Launch
  PROVE  RemoteInv'
<1> USE DEF RemoteInv
<1>1. /\ iter \in 1..IterMax /\ iperf[iter] = "none" /\ doing = "launch"
      /\ ping[iter] = "none" /\ seen[iter] = Remote!Never
  BY DEF Remote!Launch, LinesInv, MeasuredInv, RemoteTyped, Loop
<1>2. /\ UNCHANGED <<mode, format, length, seconds, seen, fetched, inputs, lines, iter, tries>>
      /\ \/ Remote!Launched /\ doing' = "lead" /\ until' = seconds + Lead /\ faults' = faults
         \/ /\ faults' = faults + 1 /\ doing' = "trap" /\ until' = until
            /\ Remote!Launched \/ UNCHANGED <<launched, iperf, ping>>
  BY DEF Remote!Launch, Remote!setting, Remote!results, Remote!Goto, Remote!Die, Remote!Fault,
     Remote!client
<1>3. CASE UNCHANGED <<launched, iperf, ping>> /\ doing' = "trap" /\ faults' = faults + 1
           /\ until' = until
  BY <1>1, <1>2, <1>3, RemoteDies DEF RemoteSame, RemoteTyped, Loop
<1>4. CASE Remote!Launched
  <2>1. /\ \A i \in 0..IterMax : i # iter => iperf'[i] = iperf[i] /\ launched'[i] = launched[i]
        /\ \A i \in 0..IterMax : i # iter => ping'[i] = ping[i]
        /\ iperf'[iter] \in {"running", "refused"} /\ launched'[iter] = seconds
        /\ iperf' \in [0..IterMax -> {"none", "running", "done", "refused"}]
        /\ ping' \in [0..IterMax -> {"none", "running", "done"}]
        /\ launched' \in [0..IterMax -> Int]
    BY <1>1, <1>4 DEF Remote!Launched, RemoteTyped
  <2>2. until' \in Int /\ faults' \in Nat /\ doing' \in {"lead", "trap"}
    BY <1>2, WaitsAssumption DEF WaitsAssumption, RemoteTyped
  <2>3. RemoteTyped'
    <3>1. launched'[0] = 0 /\ seconds' \in Nat /\ iter' \in 0..IterMax /\ length' \in Nat
      <4>1. 0 \in 0..IterMax /\ 0 # iter
        BY <1>1, WaitsAssumption DEF WaitsAssumption
      <4> QED
        BY <1>1, <1>2, <2>1, <4>1 DEF RemoteTyped
    <3>2. /\ fetched' \in [1..IterMax -> {"none", "nothing", "intervals", "error", "absent"}]
          /\ seen' \in [1..IterMax -> Int]
          /\ lines' \in Seq([iter : Nat, points : BOOLEAN, pinged : Int])
      BY <1>2 DEF RemoteTyped
    <3> QED
      BY <2>1, <2>2, <3>1, <3>2 DEF RemoteTyped, Loop
  <2>4. MeasuredInv' /\ LogsInv'
    BY <1>1, <1>2, <2>1, <2>2 DEF RemoteTyped, MeasuredInv, LogsInv, Reaches, Remote!ReplayTime
  <2>5. LinesInv'
    BY <1>1, <1>2, <2>1, <2>2 DEF RemoteTyped, LinesInv, Loop
  <2>6. ElapsedInv'
    <3>1. seconds \in Nat /\ Lead \in Nat /\ Duration \in Nat /\ seconds' = seconds /\ iter' = iter
      BY <1>2, WaitsAssumption DEF WaitsAssumption, RemoteTyped
    <3>2. \A i \in 0..IterMax : iperf'[i] = "running" => seconds' <= launched'[i] + Duration
      <4> SUFFICES ASSUME NEW i \in 0..IterMax, iperf'[i] = "running"
                   PROVE  seconds <= launched'[i] + Duration
        BY <3>1
      <4>1. CASE i = iter
        BY <2>1, <3>1, <4>1
      <4>2. CASE i # iter
        BY <2>1, <4>2 DEF ElapsedInv
      <4> QED
        BY <4>1, <4>2
    <3>3. iperf'[iter'] # "none"
      BY <2>1, <3>1
    <3>4. doing' = "lead" => until' >= launched'[iter'] + Lead
      BY <1>2, <2>1, <3>1
    <3> QED
      BY <2>2, <3>2, <3>3, <3>4 DEF ElapsedInv
  <2>7. CompleteInv'
    BY <1>1, <1>2, <2>2 DEF CompleteInv, RemoteTyped, Remote!EventTimesLoad
  <2>8. ServerInv'
    <3>1. CASE iperf'[iter] = "running"
      BY <2>1, <3>1 DEF ServerInv
    <3>2. CASE iperf'[iter] = "refused"
      <4>1. PICK j \in 0..IterMax : iperf[j] = "running"
        BY <1>1, <1>4, <3>2 DEF Remote!Launched, Remote!ServerTaken, Remote!Measurements,
           RemoteTyped
      <4>2. j = 0
        <5>1. j \in 1..IterMax => j > iter \/ j = iter \/ j \in 1..(iter - 1)
          BY <1>1
        <5>2. j \in 1..(iter - 1) => iperf[j] \in {"done", "refused"}
          <6>1. Len(lines) = iter - 1
            BY <1>1 DEF LinesInv, Loop
          <6>2. j \in 1..(iter - 1) => fetched[j] \in {"intervals", "error"}
            BY <6>1 DEF LinesInv
          <6>3. j \in 1..(iter - 1) => j \in 1..IterMax
            BY <1>1
          <6> QED
            BY <6>2, <6>3 DEF MeasuredInv
        <5> QED
          BY <1>1, <4>1, <5>1, <5>2 DEF MeasuredInv
      <4>3. seconds <= Duration
        BY <4>1, <4>2, WaitsAssumption DEF WaitsAssumption, ElapsedInv, RemoteTyped
      <4> QED
        BY <2>1, <4>3 DEF ServerInv
    <3> QED
      BY <2>1, <3>1, <3>2
  <2> QED
    BY <2>3, <2>4, <2>5, <2>6, <2>7, <2>8
<1> QED
  BY <1>2, <1>3, <1>4

LEMMA RemoteFetches ==
  ASSUME RemoteInv, Remote!Fetch
  PROVE  RemoteInv'
<1> USE DEF RemoteInv
<1>1. iter \in 1..IterMax /\ doing = "fetch" /\ iperf[iter] # "none"
  BY DEF Remote!Fetch, LinesInv, ElapsedInv, RemoteTyped, Loop
<1>2. UNCHANGED <<mode, format, length, launched, iperf, ping, inputs, lines, iter, seconds>>
  BY DEF Remote!Fetch, Remote!setting, Remote!client
<1>3. /\ launched[iter] \in Int /\ seconds \in Nat /\ Remote!ReplayTime \in Nat
      /\ Lead \in Nat /\ Duration \in Nat /\ Linger \in Nat
  BY <1>1, WaitsAssumption DEF WaitsAssumption, RemoteTyped, Remote!ReplayTime
<1>4. seconds >= launched[iter] + Lead + Remote!ReplayTime
  BY <1>1 DEF ElapsedInv
<1>5. CASE Remote!FetchLog /\ UNCHANGED until
  <2>1. /\ doing' = "fetch" /\ faults' = faults /\ UNCHANGED <<fetched, until>>
        /\ seen' = [seen EXCEPT ![iter] = Remote!Seconds(iter)]
    BY <1>5 DEF Remote!FetchLog, Remote!Goto
  <2>2. Remote!Seconds(iter) \in Int /\ Reaches(Remote!Seconds(iter))
    BY <1>3, <1>4 DEF Remote!Seconds, Reaches
  <2>3. /\ \A i \in 1..IterMax : i # iter => seen'[i] = seen[i]
        /\ seen'[iter] = Remote!Seconds(iter) /\ seen' \in [1..IterMax -> Int]
    BY <1>1, <2>1, <2>2 DEF RemoteTyped
  <2>4. RemoteTyped' /\ MeasuredInv' /\ ServerInv'
    BY <1>1, <1>2, <2>1, <2>3 DEF RemoteTyped, MeasuredInv, ServerInv, Loop
  <2>5. LogsInv'
    BY <1>1, <1>2, <2>1, <2>2, <2>3 DEF LogsInv, Reaches, Remote!ReplayTime
  <2>6. LinesInv'
    <3>1. \A k \in 1..Len(lines) : k # iter
      BY <1>1 DEF LinesInv, RemoteTyped, Loop
    <3>2. \A k \in 1..Len(lines) : seen'[k] = seen[k]
      <4>1. Len(lines) = iter - 1
        BY <1>1 DEF LinesInv, Loop
      <4>2. \A k \in 1..(iter - 1) : k \in 1..IterMax
        BY <1>1, WaitsAssumption DEF WaitsAssumption
      <4> QED
        BY <2>3, <3>1, <4>1, <4>2
    <3> QED
      BY <1>1, <1>2, <2>1, <3>2 DEF LinesInv, RemoteTyped, Loop
  <2>7. ElapsedInv' /\ CompleteInv'
    BY <1>1, <1>2, <2>1 DEF ElapsedInv, CompleteInv, Outlasts, Remote!ReplayTime,
       Remote!EventTimesLoad
  <2> QED
    BY <2>4, <2>5, <2>6, <2>7
<1>6. CASE Remote!FetchIperf /\ UNCHANGED until
  <2>0. /\ doing' = "learn" /\ faults' = faults /\ UNCHANGED <<seen, until>>
        /\ fetched' = [fetched EXCEPT ![iter] = Remote!Content(iter)]
        /\ seen[iter] # Remote!Never
    BY <1>6 DEF Remote!FetchIperf, Remote!Goto
  <2>1. /\ \A i \in 1..IterMax : i # iter => fetched'[i] = fetched[i]
        /\ fetched'[iter] = Remote!Content(iter)
        /\ fetched' \in [1..IterMax -> {"none", "nothing", "intervals", "error", "absent"}]
    BY <1>1, <2>0 DEF RemoteTyped, Remote!Content
  <2>2. /\ Remote!Content(iter) = "intervals" => iperf[iter] = "done"
        /\ Remote!Content(iter) = "error" => iperf[iter] = "refused"
        /\ iperf[iter] # "running" => Remote!Content(iter) \in {"intervals", "error"}
    BY <1>1 DEF RemoteTyped, Remote!Content
  <2>3. Outlasts => iperf[iter] # "running"
    <3>1. iperf[iter] = "running" => seconds <= launched[iter] + Duration
      BY <1>1 DEF ElapsedInv
    <3> QED
      BY <1>3, <1>4, <3>1 DEF Outlasts
  <2>4. RemoteTyped' /\ ServerInv'
    BY <1>2, <2>0, <2>1 DEF RemoteTyped, ServerInv, Loop
  <2>5. MeasuredInv' /\ LogsInv'
    BY <1>1, <1>2, <2>0, <2>1, <2>2 DEF MeasuredInv, RemoteTyped, LogsInv, Reaches,
       Remote!ReplayTime
  <2>6. LinesInv'
    <3>1. \A k \in 1..Len(lines) : k \in 1..IterMax /\ k # iter
      <4>1. Len(lines) = iter - 1
        BY <1>1 DEF LinesInv, Loop
      <4> QED
        BY <1>1, <4>1, WaitsAssumption DEF WaitsAssumption
    <3>2. \A k \in 1..Len(lines) : fetched'[k] = fetched[k]
      BY <2>1, <3>1
    <3> QED
      BY <1>1, <1>2, <2>0, <3>2 DEF LinesInv, Loop
  <2>7. ElapsedInv' /\ CompleteInv'
    BY <1>1, <1>2, <2>0, <2>1, <2>2, <2>3 DEF ElapsedInv, Outlasts, Remote!ReplayTime,
       CompleteInv, Remote!EventTimesLoad
  <2> QED
    BY <2>4, <2>5, <2>6, <2>7
<1>7. CASE doing' = "pause" /\ faults' = faults /\ until' = seconds + 1
           /\ UNCHANGED <<seen, fetched>>
  <2>1. RemoteTyped' /\ MeasuredInv' /\ ServerInv'
    BY <1>2, <1>7 DEF RemoteTyped, MeasuredInv, ServerInv, Loop
  <2>2. LinesInv' /\ LogsInv' /\ ElapsedInv' /\ CompleteInv'
    BY <1>1, <1>2, <1>7 DEF RemoteTyped, LinesInv, LogsInv, Reaches, ElapsedInv, CompleteInv, Loop,
       Remote!ReplayTime, Remote!EventTimesLoad
  <2> QED
    BY <2>1, <2>2
<1>8. CASE Remote!Die /\ UNCHANGED <<seen, fetched, until>>
  BY <1>1, <1>2, <1>8, RemoteDies DEF RemoteSame, RemoteTyped, Remote!Die, Remote!Fault, Loop
<1> QED
  BY <1>5, <1>6, <1>7, <1>8 DEF Remote!Fetch, Remote!Goto

LEMMA RemoteCompares ==
  ASSUME RemoteInv, Remote!Compare
  PROVE  RemoteInv'
<1> USE DEF RemoteInv
<1>1. /\ iter \in 1..IterMax /\ doing = "compare" /\ Len(lines) = iter - 1 /\ iter \in inputs
      /\ IterMax \in Nat
  BY WaitsAssumption DEF WaitsAssumption, Remote!Compare, LinesInv, RemoteTyped, Loop
<1>2. /\ UNCHANGED <<mode, format, length, launched, iperf, ping, seen, fetched, inputs, iter>>
      /\ UNCHANGED <<seconds, until, faults>>
  BY DEF Remote!Compare, Remote!setting, Remote!client, Remote!Goto
<1>3. MeasuredInv' /\ ServerInv'
  <2>1. doing' # "launch"
    BY DEF Remote!Compare, Remote!Goto
  <2> QED
    BY <1>1, <1>2, <2>1 DEF MeasuredInv, ServerInv
<1>4. CASE Remote!IperfLoads /\ Remote!EventTimesLoad
  <2>1. /\ lines' = Append(lines, Remote!Row)
        /\ doing' = IF iter = IterMax THEN "trap" ELSE "cleanup"
    BY <1>4 DEF Remote!Compare, Remote!Goto
  <2>2. /\ Remote!Row \in [iter : Nat, points : BOOLEAN, pinged : Int]
        /\ Remote!Row.iter = iter /\ Remote!Row.points = (fetched[iter] = "intervals")
        /\ Remote!Row.pinged = seen[iter]
    BY <1>1 DEF Remote!Row, RemoteTyped
  <2>3. /\ lines' \in Seq([iter : Nat, points : BOOLEAN, pinged : Int]) /\ Len(lines') = iter
        /\ lines'[iter] = Remote!Row /\ \A k \in 1..(iter - 1) : lines'[k] = lines[k]
    BY SMTT(30), <1>1, <2>1, <2>2 DEF RemoteTyped
  <2>4. fetched[iter] \in {"intervals", "error"}
    BY <1>4 DEF Remote!IperfLoads
  <2>5. RemoteTyped'
    BY <1>1, <1>2, <2>1, <2>3 DEF RemoteTyped
  <2>6. \A k \in 1..Len(lines') :
          /\ lines'[k].iter = k /\ k \in inputs' /\ fetched'[k] \in {"intervals", "error"}
          /\ lines'[k].points = (fetched'[k] = "intervals") /\ lines'[k].pinged = seen'[k]
          /\ seen'[k] # Remote!Never
    <3> SUFFICES ASSUME NEW k \in 1..iter
                 PROVE  /\ lines'[k].iter = k /\ k \in inputs
                        /\ fetched[k] \in {"intervals", "error"}
                        /\ lines'[k].points = (fetched[k] = "intervals")
                        /\ lines'[k].pinged = seen[k] /\ seen[k] # Remote!Never
      BY <1>2, <2>3
    <3>1. CASE k = iter
      <4>1. seen[iter] # Remote!Never
        BY <1>1 DEF LogsInv
      <4> QED
        BY <1>1, <2>2, <2>3, <2>4, <3>1, <4>1
    <3>2. CASE k # iter
      BY SMTT(30), <1>1, <2>3, <3>2 DEF LinesInv
    <3> QED
      BY <3>1, <3>2
  <2>7. LinesInv'
    <3>1. CASE iter = IterMax
      BY <1>2, <2>1, <2>3, <2>6, <3>1 DEF LinesInv, Loop
    <3>2. CASE iter # IterMax
      <4>1. doing' = "cleanup" /\ iter' < IterMax /\ Len(lines') = iter'
        BY <1>1, <1>2, <2>1, <2>3, <3>2
      <4> QED
        BY <2>6, <4>1 DEF RemoteTyped, LinesInv, Loop
    <3> QED
      BY <3>1, <3>2
  <2>8. ElapsedInv' /\ LogsInv'
    <3>1. doing' \in {"trap", "cleanup"}
      BY <2>1
    <3> QED
      BY <1>2, <3>1 DEF ElapsedInv, LogsInv, Reaches, Remote!ReplayTime
  <2>9. CompleteInv'
    BY <1>2, <1>4, <2>1, <2>3 DEF CompleteInv, Remote!EventTimesLoad
  <2> QED
    BY <1>3, <2>5, <2>7, <2>8, <2>9
<1>5. CASE ~ (Remote!IperfLoads /\ Remote!EventTimesLoad)
  <2>1. UNCHANGED lines /\ doing' = "trap"
    BY <1>5 DEF Remote!Compare, Remote!Goto
  <2>2. ~ (Outlasts /\ Remote!EventTimesLoad)
    BY <1>1, <1>5 DEF ElapsedInv, Remote!IperfLoads
  <2>3. RemoteTyped' /\ LinesInv'
    BY <1>1, <1>2, <2>1 DEF RemoteTyped, LinesInv, Loop
  <2>4. LogsInv' /\ ElapsedInv'
    BY <1>1, <1>2, <2>1 DEF LogsInv, Reaches, ElapsedInv, Outlasts, Remote!ReplayTime
  <2>5. CompleteInv'
    BY <1>2, <2>1, <2>2 DEF CompleteInv, Outlasts, Remote!ReplayTime, Remote!EventTimesLoad
  <2> QED
    BY <1>3, <2>3, <2>4, <2>5
<1> QED
  BY <1>4, <1>5

LEMMA RemoteEnds ==
  ASSUME RemoteInv, Remote!EndMeasurement
  PROVE  RemoteInv'
<1> USE DEF RemoteInv
<1>1. /\ UNCHANGED <<mode, format, length, doing, iter, seconds, until, launched, seen>>
      /\ UNCHANGED <<fetched, inputs, lines, faults>>
  BY DEF Remote!EndMeasurement, Remote!EndIperf, Remote!EndPing, Remote!setting, Remote!results
<1>2. /\ iperf' \in [0..IterMax -> {"none", "running", "done", "refused"}]
      /\ ping' \in [0..IterMax -> {"none", "running", "done"}]
      /\ \A j \in 0..IterMax : \/ iperf'[j] = iperf[j]
                               \/ iperf[j] = "running" /\ iperf'[j] = "done"
      /\ \A j \in 0..IterMax : ping[j] = "none" => ping'[j] = "none"
  <2>1. CASE Remote!EndIperf
    <3>1. PICK i \in 0..IterMax : iperf[i] = "running" /\ iperf' = [iperf EXCEPT ![i] = "done"]
      BY <2>1 DEF Remote!EndIperf, Remote!IperfOver, Remote!Measurements
    <3> QED
      BY <2>1, <3>1 DEF RemoteTyped, Remote!EndIperf
  <2>2. CASE Remote!EndPing
    <3>1. PICK i \in 0..IterMax : ping[i] = "running" /\ ping' = [ping EXCEPT ![i] = "done"]
      BY <2>2 DEF Remote!EndPing, Remote!PingOver, Remote!Measurements
    <3> QED
      BY <2>2, <3>1 DEF RemoteTyped, Remote!EndPing
  <2> QED
    BY <2>1, <2>2 DEF Remote!EndMeasurement
<1>3. RemoteTyped' /\ LinesInv'
  BY <1>1, <1>2 DEF RemoteTyped, LinesInv, Loop
<1>4. MeasuredInv' /\ ServerInv'
  BY <1>1, <1>2 DEF RemoteTyped, MeasuredInv, ServerInv
<1>5. LogsInv' /\ CompleteInv'
  BY <1>1 DEF LogsInv, Reaches, CompleteInv, Outlasts, Remote!ReplayTime, Remote!EventTimesLoad
<1>6. ElapsedInv'
  BY <1>1, <1>2 DEF RemoteTyped, ElapsedInv, Outlasts, Remote!ReplayTime
<1> QED
  BY <1>3, <1>4, <1>5, <1>6

LEMMA RemoteNext == RemoteInv /\ [Remote!Next]_(Remote!vars) => RemoteInv'
<1> SUFFICES ASSUME RemoteInv, [Remote!Next]_(Remote!vars) PROVE RemoteInv'
  OBVIOUS
<1> USE DEF Remote!setting, Remote!client, Remote!results, Remote!Goto, Remote!Fault
<1>1. CASE Remote!CleanUp
  <2>1. /\ UNCHANGED <<mode, format, length, launched, iperf, ping, seen, fetched, inputs>>
        /\ UNCHANGED <<lines, faults, seconds, until>> /\ doing = "cleanup" /\ doing' = "launch"
        /\ iter' = iter + 1
    BY <1>1 DEF Remote!CleanUp
  <2>2. RemoteTyped' /\ LinesInv'
    BY SMTT(30), <2>1, WaitsAssumption DEF WaitsAssumption, RemoteInv, RemoteTyped, LinesInv, Loop
  <2>3. MeasuredInv' /\ ServerInv'
    BY <2>1 DEF RemoteInv, RemoteTyped, MeasuredInv, ServerInv
  <2>4. LogsInv' /\ ElapsedInv' /\ CompleteInv'
    BY <2>1 DEF RemoteInv, LogsInv, Reaches, ElapsedInv, CompleteInv, Remote!ReplayTime,
       Remote!EventTimesLoad
  <2> QED
    BY <2>2, <2>3, <2>4 DEF RemoteInv
<1>2. CASE Remote!Launch
  BY <1>2, RemoteLaunches
<1>3. CASE Remote!StartReplay
  <2>1. CASE Remote!Die
    BY <1>3, <2>1, RemoteDies DEF Remote!StartReplay, Remote!Die, RemoteSame, RemoteInv, RemoteTyped,
       Loop
  <2>2. CASE doing' = "replay"
    <3>1. /\ UNCHANGED <<mode, format, length, launched, iperf, ping, seen, fetched, inputs>>
          /\ UNCHANGED <<lines, iter, seconds, faults>> /\ doing = "lead" /\ seconds >= until
          /\ until' = seconds + Remote!ReplayTime
      BY <1>3, <2>2, WaitsAssumption DEF WaitsAssumption, RemoteInv, RemoteTyped,
         Remote!StartReplay, Remote!Die, Remote!ReplayTime
    <3>2. Remote!ReplayTime \in Nat /\ iter \in 1..IterMax /\ launched[iter] \in Int
      BY <3>1, WaitsAssumption DEF WaitsAssumption, Remote!ReplayTime, RemoteInv, RemoteTyped,
         LinesInv, Loop
    <3>3. until' >= launched'[iter'] + Lead + Remote!ReplayTime'
      BY SMTT(30), <3>1, <3>2, WaitsAssumption DEF WaitsAssumption, RemoteInv, RemoteTyped, ElapsedInv,
         Remote!ReplayTime
    <3>4. RemoteTyped'
      BY <2>2, <3>1, <3>2 DEF RemoteInv, RemoteTyped, Loop
    <3>5. MeasuredInv' /\ ServerInv' /\ LinesInv'
      BY <2>2, <3>1 DEF RemoteInv, MeasuredInv, ServerInv, LinesInv, Loop
    <3>6. LogsInv' /\ ElapsedInv' /\ CompleteInv'
      BY <2>2, <3>1, <3>3 DEF RemoteInv, LogsInv, Reaches, ElapsedInv, CompleteInv,
         Remote!ReplayTime, Remote!EventTimesLoad
    <3> QED
      BY <3>4, <3>5, <3>6 DEF RemoteInv
  <2> QED
    BY <1>3, <2>1, <2>2 DEF Remote!StartReplay
<1>4. CASE Remote!EndReplay
  <2>1. CASE Remote!Die
    BY <1>4, <2>1, RemoteDies DEF Remote!EndReplay, Remote!Die, RemoteSame, RemoteInv, RemoteTyped,
       Loop
  <2>2. CASE doing' = "fetch"
    <3>1. /\ UNCHANGED <<mode, format, length, launched, iperf, ping, seen, fetched, inputs>>
          /\ UNCHANGED <<lines, iter, seconds, until, faults>> /\ doing = "replay"
          /\ seconds >= until
      BY <1>4, <2>2 DEF Remote!EndReplay, Remote!Die
    <3>2. Remote!ReplayTime \in Nat /\ iter \in 1..IterMax /\ launched[iter] \in Int
      BY <3>1, WaitsAssumption DEF WaitsAssumption, Remote!ReplayTime, RemoteInv, RemoteTyped,
         LinesInv, Loop
    <3>3. seconds' >= launched'[iter'] + Lead + Remote!ReplayTime'
      BY SMTT(30), <3>1, <3>2, WaitsAssumption DEF WaitsAssumption, RemoteInv, RemoteTyped, ElapsedInv,
         Remote!ReplayTime
    <3>4. RemoteTyped' /\ MeasuredInv' /\ ServerInv' /\ LinesInv'
      BY <2>2, <3>1 DEF RemoteInv, RemoteTyped, MeasuredInv, ServerInv, LinesInv, Loop
    <3>5. LogsInv' /\ ElapsedInv' /\ CompleteInv'
      BY <2>2, <3>1, <3>3 DEF RemoteInv, LogsInv, Reaches, ElapsedInv, CompleteInv,
         Remote!ReplayTime, Remote!EventTimesLoad
    <3> QED
      BY <3>4, <3>5 DEF RemoteInv
  <2> QED
    BY <1>4, <2>1, <2>2 DEF Remote!EndReplay
<1>5. CASE Remote!Fetch
  BY <1>5, RemoteFetches
<1>6. CASE Remote!FetchAgain
  <2>1. /\ UNCHANGED <<mode, format, length, launched, iperf, ping, seen, fetched, inputs>>
        /\ UNCHANGED <<lines, iter, seconds, until, faults>> /\ doing = "pause" /\ doing' = "fetch"
    BY <1>6 DEF Remote!FetchAgain
  <2>2. RemoteTyped' /\ MeasuredInv' /\ ServerInv' /\ LinesInv'
    BY <2>1 DEF RemoteInv, RemoteTyped, MeasuredInv, ServerInv, LinesInv, Loop
  <2>3. LogsInv' /\ ElapsedInv' /\ CompleteInv'
    BY <2>1 DEF RemoteInv, LogsInv, Reaches, ElapsedInv, CompleteInv, Remote!ReplayTime,
       Remote!EventTimesLoad
  <2> QED
    BY <2>2, <2>3 DEF RemoteInv
<1>7. CASE Remote!Learn
  <2>1. CASE Remote!Die /\ UNCHANGED inputs
    BY <1>7, <2>1, RemoteDies DEF Remote!Learn, Remote!Die, RemoteSame, RemoteInv, RemoteTyped, Loop
  <2>2. CASE inputs' = inputs \cup {iter} /\ doing' = "compare"
    <3>1. /\ UNCHANGED <<mode, format, length, launched, iperf, ping, seen, fetched, lines>>
          /\ UNCHANGED <<iter, seconds, until, faults>> /\ doing = "learn"
      BY <1>7, <2>2 DEF Remote!Learn, Remote!Die
    <3>2. RemoteTyped' /\ MeasuredInv' /\ ServerInv' /\ LinesInv'
      BY <2>2, <3>1 DEF RemoteInv, RemoteTyped, MeasuredInv, ServerInv, LinesInv, Loop
    <3>3. LogsInv' /\ ElapsedInv' /\ CompleteInv'
      BY <2>2, <3>1 DEF RemoteInv, LogsInv, Reaches, ElapsedInv, CompleteInv, Outlasts,
         Remote!ReplayTime, Remote!EventTimesLoad
    <3> QED
      BY <3>2, <3>3 DEF RemoteInv
  <2> QED
    BY <1>7, <2>1, <2>2 DEF Remote!Learn
<1>8. CASE Remote!Compare
  BY <1>8, RemoteCompares
<1>9. CASE Remote!Trap \/ Remote!EndStopped
  <2>1. /\ UNCHANGED <<mode, format, length, launched, iperf, ping, seen, fetched, inputs>>
        /\ UNCHANGED <<lines, iter, seconds, until, faults>>
        /\ \/ doing = "trap" /\ doing' = "exited"
           \/ doing = "stopping" /\ doing' = "trap"
    BY <1>9 DEF Remote!Trap, Remote!EndStopped
  <2>2. RemoteTyped' /\ MeasuredInv' /\ ServerInv' /\ LinesInv'
    BY <2>1 DEF RemoteInv, RemoteTyped, MeasuredInv, ServerInv, LinesInv, Loop
  <2>3. LogsInv' /\ ElapsedInv' /\ CompleteInv'
    BY <2>1 DEF RemoteInv, RemoteTyped, LogsInv, Reaches, ElapsedInv, CompleteInv, Outlasts,
       Remote!ReplayTime, Remote!EventTimesLoad
  <2> QED
    BY <2>2, <2>3 DEF RemoteInv
<1>10. CASE Remote!EndMeasurement
  BY <1>10, RemoteEnds
<1>11. CASE Remote!Tick
  <2>1. /\ UNCHANGED <<mode, format, length, doing, iter, until, launched, iperf, ping, seen>>
        /\ UNCHANGED <<fetched, inputs, lines, faults>> /\ seconds' = seconds + 1
        /\ \A i \in 0..IterMax : iperf[i] = "running" => ~ (seconds >= launched[i] + Duration)
    BY <1>11 DEF Remote!Tick, Remote!IperfOver, Remote!Measurements
  <2>2. RemoteTyped' /\ LinesInv' /\ MeasuredInv' /\ ServerInv'
    BY <2>1 DEF RemoteInv, RemoteTyped, LinesInv, MeasuredInv, ServerInv
  <2>3. \A i \in 0..IterMax : iperf'[i] = "running" => seconds' <= launched'[i] + Duration
    <3> SUFFICES ASSUME NEW i \in 0..IterMax, iperf[i] = "running"
                 PROVE  seconds + 1 <= launched[i] + Duration
      BY <2>1
    <3>1. launched[i] + Duration \in Int /\ seconds \in Int
      BY WaitsAssumption DEF WaitsAssumption, RemoteInv, RemoteTyped
    <3> QED
      BY <2>1, <3>1
  <2>4. doing \in {"fetch", "pause"} => seconds' >= launched[iter] + Lead + Remote!ReplayTime
    <3>1. CASE doing \in {"fetch", "pause"}
      <4>1. Remote!ReplayTime \in Nat /\ launched[iter] \in Int /\ Lead \in Nat /\ seconds \in Nat
        BY WaitsAssumption DEF WaitsAssumption, RemoteInv, RemoteTyped, Remote!ReplayTime
      <4>2. seconds >= launched[iter] + Lead + Remote!ReplayTime
        BY <3>1 DEF RemoteInv, ElapsedInv
      <4> QED
        BY <2>1, <4>1, <4>2
    <3> QED
      BY <3>1
  <2>5. ElapsedInv'
    BY <2>1, <2>3, <2>4 DEF RemoteInv, ElapsedInv, Outlasts, Remote!ReplayTime
  <2>6. LogsInv' /\ CompleteInv'
    BY <2>1 DEF RemoteInv, LogsInv, Reaches, CompleteInv, Outlasts, Remote!ReplayTime,
       Remote!EventTimesLoad
  <2> QED
    BY <2>2, <2>5, <2>6 DEF RemoteInv
<1>12. CASE Remote!Interrupt \/ Remote!InterruptSeries \/ Remote!Kill
  BY <1>12, RemoteDies DEF Remote!Interrupt, Remote!InterruptSeries, Remote!Kill, Remote!Die,
     RemoteSame, RemoteInv, RemoteTyped, Loop
<1>13. CASE Remote!Terminate \/ Remote!LateRow \/ UNCHANGED Remote!vars
  <2>1. /\ UNCHANGED <<mode, format, length, doing, iter, seconds, until, launched, iperf, ping>>
        /\ UNCHANGED <<seen, fetched, inputs, lines, faults>>
    BY <1>13 DEF Remote!Terminate, Remote!LateRow, Remote!vars
  <2>2. RemoteTyped' /\ MeasuredInv' /\ ServerInv' /\ LinesInv'
    BY <2>1 DEF RemoteInv, RemoteTyped, MeasuredInv, ServerInv, LinesInv, Loop
  <2>3. LogsInv' /\ ElapsedInv' /\ CompleteInv'
    BY <2>1 DEF RemoteInv, LogsInv, Reaches, ElapsedInv, CompleteInv, Outlasts,
       Remote!ReplayTime, Remote!EventTimesLoad
  <2> QED
    BY <2>2, <2>3 DEF RemoteInv
<1> QED
  BY <1>1, <1>2, <1>3, <1>4, <1>5, <1>6, <1>7, <1>8, <1>9, <1>10, <1>11, <1>12, <1>13
     DEF Remote!Next, Remote!Script

\* What is on the router where it should be clean is what a deletion left there.
LEMMA RouterNext ==
  Remote!RouterCleaned /\ [Remote!Next]_(Remote!vars) => Remote!RouterCleaned'
<1> SUFFICES ASSUME Remote!RouterCleaned, [Remote!Next]_(Remote!vars)
             PROVE  Remote!RouterCleaned'
  OBVIOUS
<1> USE DEF Remote!RouterCleaned, Remote!Goto, Remote!Die, Remote!router
<1>1. CASE Remote!CleanUp \/ Remote!Trap \/ Remote!Terminate
  BY <1>1 DEF Remote!CleanUp, Remote!Trap, Remote!Terminate, Remote!Delete
<1>2. CASE Remote!Launch \/ Remote!StartReplay
  BY <1>2 DEF Remote!Launch, Remote!StartReplay
<1>3. CASE Remote!EndReplay \/ Remote!EndStopped \/ Remote!Fetch \/ Remote!FetchAgain
  BY <1>3 DEF Remote!EndReplay, Remote!EndStopped, Remote!Fetch, Remote!FetchAgain,
     Remote!FetchLog, Remote!FetchIperf
<1>4. CASE Remote!Learn \/ Remote!Compare
  BY <1>4 DEF Remote!Learn, Remote!Compare
<1>5. CASE Remote!EndMeasurement \/ Remote!Tick \/ Remote!LateRow
  BY <1>5 DEF Remote!EndMeasurement, Remote!EndIperf, Remote!EndPing, Remote!Tick, Remote!LateRow
<1>6. CASE Remote!Interrupt \/ Remote!InterruptSeries \/ Remote!Kill
  BY <1>6 DEF Remote!Interrupt, Remote!InterruptSeries, Remote!Kill
<1>7. CASE UNCHANGED Remote!vars
  BY <1>7 DEF Remote!vars
<1> QED
  BY <1>1, <1>2, <1>3, <1>4, <1>5, <1>6, <1>7 DEF Remote!Next, Remote!Script

LEMMA RemoteShown ==
  RemoteInv => /\ Remote!RowsFromEndedMeasurements
               /\ Remote!RowsInOrder
               /\ Remote!LongReplayCompletes
<1> SUFFICES ASSUME RemoteInv
             PROVE  /\ Remote!RowsFromEndedMeasurements
                    /\ Remote!RowsInOrder
                    /\ Remote!LongReplayCompletes
  OBVIOUS
<1> USE DEF RemoteInv, RemoteTyped
<1>1. \A k \in DOMAIN lines : k \in 1..IterMax /\ k \in 1..Len(lines)
  <2>1. DOMAIN lines = 1..Len(lines) /\ Len(lines) \in Nat /\ Len(lines) <= iter /\ iter <= IterMax
    BY WaitsAssumption DEF WaitsAssumption, LinesInv
  <2>2. IterMax \in Nat /\ iter \in Nat
    BY WaitsAssumption DEF WaitsAssumption
  <2> QED
    BY <2>1, <2>2
<1>2. \A k \in DOMAIN lines :
        /\ lines[k].iter = k /\ k \in inputs
        /\ lines[k].points = (fetched[k] = "intervals") /\ lines[k].pinged = seen[k]
        /\ fetched[k] \in {"intervals", "error"} /\ seen[k] # Remote!Never
  BY <1>1 DEF LinesInv
<1>3. Remote!RowsInOrder
  BY <1>2 DEF Remote!RowsInOrder
<1>4. Remote!RowsFromEndedMeasurements
  <2> SUFFICES ASSUME NEW k \in DOMAIN lines
               PROVE  /\ iperf[k] = IF lines[k].points THEN "done" ELSE "refused"
                      /\ iperf[k] = "refused" => launched[k] <= Duration
                      /\ \/ lines[k].pinged = Duration + Linger
                         \/ lines[k].pinged >= Lead + Remote!ReplayTime
    BY <1>2 DEF Remote!RowsFromEndedMeasurements
  <2>1. k \in 1..IterMax /\ k \in 0..IterMax
    BY <1>1
  <2>2. iperf[k] = IF lines[k].points THEN "done" ELSE "refused"
    BY <1>2, <2>1 DEF MeasuredInv
  <2>3. iperf[k] = "refused" => launched[k] <= Duration
    BY <2>1 DEF ServerInv
  <2>4. Reaches(seen[k])
    BY <1>2, <2>1 DEF LogsInv
  <2> QED
    BY <1>2, <2>2, <2>3, <2>4 DEF Reaches
<1>5. Remote!LongReplayCompletes
  BY DEF Remote!LongReplayCompletes, CompleteInv, Outlasts
<1> QED
  BY <1>3, <1>4, <1>5

\* The script of the remote experiment, whatever fails, is refused, interrupted or
\* killed: every line of the results comes from an iperf3 that had ended and from
\* a ping log that reaches to the end of the replay, although nothing waits for
\* either; a replay that outlasts iperf3 leaves no iteration out, or with a v1
\* document in event mode every one; and what is left on the router where it
\* should be clean is what a deletion was refused or a late row has set.
THEOREM ResultsAreSound == Spec => []ResultsSound
<1>1. Init => RemoteInv /\ Remote!RouterCleaned
  BY InitParts, RemoteInit DEF Remote!Init, Remote!RouterCleaned
<1>2. RemoteInv /\ Remote!RouterCleaned /\ [Next]_vars => (RemoteInv /\ Remote!RouterCleaned)'
  BY NextParts, RemoteNext, RouterNext
<1>3. RemoteInv /\ Remote!RouterCleaned => ResultsSound
  BY RemoteShown DEF ResultsSound
<1> QED
  BY <1>1, <1>2, <1>3, PTL DEF Spec
==============================================================================
