--------------------------- MODULE RemoteExperiment ---------------------------
(***************************************************************************)
(* run_experiment.sh with run_remote_measurement.py: in every iteration a  *)
(* measurement (iperf3 and ping) is started in the background on a client, *)
(* a replay runs on this machine, and when the replay is over the logs are *)
(* fetched, in event mode the events are learned again, and a line is      *)
(* added to convergence.csv.  Nothing waits for the measurement itself.    *)
(*                                                                         *)
(* The iperf3 server takes one client at a time, and iperf3 -J writes its  *)
(* file at its end.  ping writes as it goes, for a fixed time, whatever    *)
(* became of iperf3.  The clock counts the seconds of both machines;       *)
(* commands take no time unless they wait.                                 *)
(***************************************************************************)
EXTENDS Integers, Sequences

CONSTANTS
  Modes,                \* subset of {"event", "profile"}
  Formats,              \* of INITIAL_EVENTS: subset of {"v1", "legacy"}
  Lengths,              \* seconds a replay lasts, from its first second
  IterMax, Duration,
  Linger,               \* how much longer than iperf3 ping may run
  Lead, StartDelay,     \* the two waits before the first second of the replay
  Tries,                \* of scp_retry
  MaxFaults             \* bound on the commands that fail

VARIABLES
  mode, format, length,
  pc, iter, tries,
  clock, until,         \* when the wait of the script is over
  launched,             \* when the measurement of each iteration started
  iperf, ping,          \* what became of its two programs
  qdisc,                \* something is set on the router
  kept,                 \* history: what the last deletion left there
  orphan,               \* a profile replay that outlived its script
  logged,               \* the seconds that scp found in ping_client.log
  fetched,              \* what scp found of iperf_client.json
  inputs,               \* the iterations whose next input was written
  rows,                 \* convergence.csv
  faults

setting == <<mode, format, length>>
client  == <<launched, iperf, ping>>
router  == <<qdisc, kept, orphan>>
results == <<logged, fetched, inputs, rows>>
vars == <<setting, client, router, results, pc, iter, tries, clock, until, faults>>

\* 0 is a measurement an earlier experiment has left running.
Iterations == 1..IterMax
Measurements == 0..IterMax
Never == -1

\* What iperf_client.json holds.
Content(i) == CASE iperf[i] = "running" -> "nothing"
                [] iperf[i] = "done"    -> "intervals"
                [] iperf[i] = "refused" -> "error"
                [] OTHER                -> "absent"

Fault == faults < MaxFaults /\ faults' = faults + 1
Goto(point) == pc' = point /\ UNCHANGED faults
\* set -e, or die: the EXIT trap is all that still runs.
Die == Fault /\ pc' = "trap"

\* tc qdisc del || true: it may be refused, and nobody notices.
Delete ==
  /\ qdisc' \in {FALSE, qdisc} /\ kept' = qdisc'
  /\ UNCHANGED orphan

\* rm on the client and tc del here, neither of them checked.
CleanUp ==
  /\ pc = "cleanup"
  /\ iter' = iter + 1
  /\ Delete
  /\ Goto("launch")
  /\ UNCHANGED <<setting, client, results, tries, clock, until>>

ServerTaken == \E i \in Measurements : iperf[i] = "running"

Launched ==
  /\ launched' = [launched EXCEPT ![iter] = clock]
  /\ iperf' = [iperf EXCEPT ![iter] = IF ServerTaken THEN "refused" ELSE "running"]
  /\ ping' = [ping EXCEPT ![iter] = "running"]

\* ssh: the measurement may run although the connection failed.
Launch ==
  /\ pc = "launch"
  /\ \/ Launched /\ Goto("lead") /\ until' = clock + Lead
     \/ Die /\ (Launched \/ UNCHANGED client) /\ UNCHANGED until
  /\ UNCHANGED <<setting, router, results, iter, tries, clock>>

\* Mutant of StartReplay: the replay starts with the measurement.
StartReplayAtOnce ==
  /\ pc = "lead"
  /\ \/ /\ Goto("replay")
        /\ until' = clock + length
        /\ qdisc' = TRUE
     \/ Die /\ UNCHANGED <<until, qdisc>>
  /\ UNCHANGED <<setting, client, kept, orphan, results, iter, tries, clock>>
\* Only the event replay has a start delay.
StartReplay ==
  /\ pc = "lead" /\ clock >= until
  /\ \/ /\ Goto("replay")
        /\ until' = clock + length + (IF mode = "event" THEN StartDelay ELSE 0)
        /\ qdisc' = TRUE
     \/ Die /\ UNCHANGED <<until, qdisc>>
  /\ UNCHANGED <<setting, client, kept, orphan, results, iter, tries, clock>>

\* The replay ends, or fails before.  A profile leaves its last row behind.
EndReplay ==
  /\ pc = "replay"
  /\ \/ clock >= until /\ Goto("fetch")
     \/ Die
  /\ tries' = 1
  /\ UNCHANGED <<setting, client, results, iter, clock, until, router>>

\* What the two files hold: ping_client.log grows, and is read as far as it goes.
Seconds(i) == IF ping[i] = "running" THEN clock - launched[i] ELSE Duration + Linger
FetchLog ==
  /\ logged[iter] = Never
  /\ logged' = [logged EXCEPT ![iter] = Seconds(iter)]
  /\ Goto("fetch") /\ UNCHANGED fetched
FetchIperf ==
  /\ logged[iter] # Never
  /\ fetched' = [fetched EXCEPT ![iter] = Content(iter)]
  /\ Goto("learn") /\ UNCHANGED logged

\* scp_retry, for the two files in turn, each three times with a pause.
\* Mutant of Fetch: the attempts are not counted.
FetchForever ==
  /\ pc = "fetch"
  /\ \/ FetchLog \/ FetchIperf
     \/ Goto("pause") /\ UNCHANGED <<logged, fetched>>
  /\ UNCHANGED <<setting, client, router, inputs, rows, iter, tries, clock, until>>
Fetch ==
  /\ pc = "fetch"
  /\ \/ (FetchLog \/ FetchIperf) /\ tries' = 1 /\ UNCHANGED until
     \/ /\ tries < Tries
        /\ tries' = tries + 1 /\ until' = clock + 1
        /\ Goto("pause") /\ UNCHANGED <<logged, fetched>>
     \/ /\ tries = Tries
        /\ Die /\ UNCHANGED <<logged, fetched, tries, until>>
  /\ UNCHANGED <<setting, client, router, inputs, rows, iter, clock>>

FetchAgain ==
  /\ pc = "pause" /\ clock >= until
  /\ Goto("fetch")
  /\ UNCHANGED <<setting, client, results, iter, tries, clock, until, router>>

\* Conversion of the ping log, learning or copying, and the next input.
\* Mutant of Learn: a failure is not noticed.
LearnUnchecked ==
  /\ pc = "learn"
  /\ inputs' \in {inputs, inputs \cup {iter}} /\ Goto("compare")
  /\ UNCHANGED <<setting, client, logged, fetched, rows, iter, tries, clock, until, router>>
Learn ==
  /\ pc = "learn"
  /\ \/ inputs' = inputs \cup {iter} /\ Goto("compare")
     \/ Die /\ UNCHANGED inputs
  /\ UNCHANGED <<setting, client, logged, fetched, rows, iter, tries, clock, until, router>>

\* compare_measure_vs_replay.py: an empty file is no JSON, one without intervals
\* is fine.
\* Mutant of IperfLoads: nothing is read as no intervals.
IperfLoadsAnyway == fetched[iter] # "none"
IperfLoads == fetched[iter] \in {"intervals", "error"}

\* load_event_times reads the rows of the older array only.
EventTimesLoad == mode = "event" => format = "legacy"

Row == [iter |-> iter, points |-> fetched[iter] = "intervals", pinged |-> logged[iter]]

Compare ==
  /\ pc = "compare"
  /\ IF IperfLoads /\ EventTimesLoad
       THEN /\ rows' = Append(rows, Row)
            /\ Goto(IF iter = IterMax THEN "trap" ELSE "cleanup")
       ELSE Goto("trap") /\ UNCHANGED rows
  /\ UNCHANGED <<setting, client, logged, fetched, inputs, iter, tries, clock, until, router>>

Ended == pc \in {"exited", "killed"}

\* Mutant of Trap: the trap is for signals only.
TrapNothing ==
  /\ pc = "trap"
  /\ Goto("exited")
  /\ UNCHANGED <<setting, client, results, iter, tries, clock, until, router>>
Trap ==
  /\ pc = "trap"
  /\ Delete
  /\ Goto("exited")
  /\ UNCHANGED <<setting, client, results, iter, tries, clock, until>>

\* Ctrl-C ends the command in the foreground, and with it the script; for scp
\* it is one more failed attempt.
Interrupt ==
  /\ pc \in {"lead", "replay", "pause", "learn", "compare"}
  /\ pc = "replay" => mode = "event"
  /\ Die
  /\ UNCHANGED <<setting, client, router, results, iter, tries, clock, until>>

\* The profile replay still sets the row it sleeps for.  Meanwhile subprocess.run
\* kills sudo, behind which the replay may live on, or may not kill it and waits.
InterruptSeries ==
  /\ pc \in {"replay", "stopping"} /\ mode = "profile"
  /\ Fault
  /\ \/ pc' = "stopping" /\ UNCHANGED orphan
     \/ pc' = "trap" /\ orphan' \in {"none", "asleep"}
  /\ UNCHANGED <<setting, client, qdisc, kept, results, iter, tries, clock, until>>

EndStopped ==
  /\ pc = "stopping"
  /\ Goto("trap")
  /\ UNCHANGED <<setting, client, router, results, iter, tries, clock, until>>

LateRow ==
  /\ orphan = "asleep"
  /\ orphan' = "over" /\ qdisc' \in {TRUE, qdisc}
  /\ UNCHANGED <<setting, client, kept, results, pc, iter, tries, clock, until, faults>>

\* SIGTERM: the trap runs when the command in the foreground is over, and the
\* script goes on.
Terminate ==
  /\ pc \in {"cleanup", "launch", "fetch", "learn", "compare"}
  /\ Delete
  /\ UNCHANGED <<setting, client, results, pc, iter, tries, clock, until, faults>>

\* The command in the foreground goes on, of which nothing is said any more.
Kill ==
  /\ ~ Ended
  /\ pc' = "killed"
  /\ UNCHANGED <<setting, client, results, iter, tries, clock, until, router, faults>>

\* iperf3 -t ends by itself, whatever the script does, and timeout ends ping.
IperfOver(i) == iperf[i] = "running" /\ clock >= launched[i] + Duration
PingOver(i) == ping[i] = "running" /\ clock >= launched[i] + Duration + Linger
EndIperf ==
  /\ \E i \in Measurements : IperfOver(i) /\ iperf' = [iperf EXCEPT ![i] = "done"]
  /\ UNCHANGED <<setting, launched, ping, router, results, pc, iter, tries, clock, until, faults>>
EndPing ==
  /\ \E i \in Measurements : PingOver(i) /\ ping' = [ping EXCEPT ![i] = "done"]
  /\ UNCHANGED <<setting, launched, iperf, router, results, pc, iter, tries, clock, until, faults>>
EndMeasurement == EndIperf \/ EndPing

Waiting == pc \in {"lead", "replay", "stopping", "pause"} /\ clock < until
ClientBusy == \E i \in Measurements : "running" \in {iperf[i], ping[i]}

\* Time passes where the script waits, and while a measurement goes on alone.
Tick ==
  /\ Waiting \/ (Ended /\ ClientBusy)
  /\ ~ \E i \in Measurements : IperfOver(i) \/ PingOver(i)
  /\ clock' = clock + 1
  /\ UNCHANGED <<setting, client, router, results, pc, iter, tries, until, faults>>

Init ==
  /\ mode \in Modes /\ format \in Formats /\ length \in Lengths
  /\ pc = "cleanup" /\ iter = 0 /\ tries = 1 /\ clock = 0 /\ until = 0
  /\ iperf \in {[i \in Measurements |-> IF i = 0 THEN s ELSE "none"] : s \in {"none", "running"}}
  /\ ping = iperf
  /\ launched = [i \in Measurements |-> IF i = 0 THEN 0 ELSE Never]
  /\ logged = [i \in Iterations |-> Never] /\ fetched = [i \in Iterations |-> "none"]
  /\ inputs = {} /\ rows = <<>> /\ faults = 0
  /\ qdisc \in BOOLEAN /\ kept = FALSE /\ orphan = "none"

\* What happens at one second happens before the next one begins.
Script ==
  CleanUp \/ Launch \/ StartReplay \/ EndReplay \/ EndStopped \/ Fetch \/ FetchAgain \/ Learn
  \/ Compare \/ Trap
Next ==
  \/ Script \/ EndMeasurement \/ Tick
  \/ Interrupt \/ InterruptSeries \/ LateRow \/ Terminate \/ Kill
  \/ Ended /\ ~ ClientBusy /\ UNCHANGED vars
Spec == Init /\ [][Next]_vars
FairSpec == Spec /\ WF_vars(Script) /\ WF_vars(EndMeasurement) /\ WF_vars(Tick)

(***************************************************************************)
(* Properties                                                              *)
(***************************************************************************)

ReplayTime == length + (IF mode = "event" THEN StartDelay ELSE 0)

\* Nothing waits for the measurement, and yet a line of convergence.csv is made
\* from an iperf3 that had ended, refused only by one that an earlier experiment
\* left running, never by an iteration's own, and from a ping log that is whole
\* or, ping still running, reaches at least to the end of the replay.
RowsFromEndedMeasurements ==
  \A k \in DOMAIN rows :
    LET i == rows[k].iter IN
    /\ iperf[i] = IF rows[k].points THEN "done" ELSE "refused"
    /\ iperf[i] = "refused" => launched[i] <= Duration
    /\ rows[k].pinged = Duration + Linger \/ rows[k].pinged >= Lead + ReplayTime

\* The lines are those of the iterations in their order, without a gap, and an
\* iteration with a line has left the input of the next one.
RowsInOrder ==
  \A k \in DOMAIN rows : rows[k].iter = k /\ k \in inputs

\* A measurement and the lead before its replay begin on a clean router, and a
\* script that ended, short of a kill, leaves one, unless the last deletion was
\* refused there or an interrupted profile replay set its row after it.
RouterCleaned ==
  pc \in {"launch", "lead", "exited"} /\ qdisc => kept \/ orphan = "over"

\* When no command fails and the replay outlasts iperf3, the script completes
\* every iteration, although it never asks whether iperf3 has ended; an event
\* experiment over a v1 document ends at its first comparison, without a line.
LongReplayCompletes ==
  pc = "exited" /\ faults = 0 /\ Lead + ReplayTime > Duration
  => Len(rows) = IF EventTimesLoad THEN IterMax ELSE 0

\* The script ends, and the client is done some time after.
Ends == <>[](Ended /\ ~ ClientBusy)
=============================================================================
